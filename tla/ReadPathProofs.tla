---------------------------- MODULE ReadPathProofs ----------------------------
(***************************************************************************)
(* Theorems about the way of a text into the index and back out of it, in  *)
(* three parts: TextPath (what the sanitizer, the truncations and the      *)
(* chunker do to lines and words of any length), Retrieval (what a search  *)
(* answers, over any history of writes and restarts) and Benchmarks (what  *)
(* the tools make of an answer: evidence, metrics, conditions, contexts).  *)
(***************************************************************************)
EXTENDS TextPath, Benchmarks, WellFoundedInduction, SequenceTheorems, FiniteSetTheorems, TLAPS

-----------------------------------------------------------------------------
(* Induction and folds. *)

\* A set of numbers that holds 0 and every successor holds all numbers.
LEMMA AllNumbers ==
  ASSUME NEW S, 0 \in S, \A n \in Nat : n \in S => n + 1 \in S
  PROVE  \A n \in Nat : n \in S
<1> DEFINE R == OpToRel(<, Nat)
<1>1. \A x, y \in Nat : x < y => <<x, y>> \in R
  BY DEF OpToRel
<1>2. IsWellFoundedOn(R, Nat)
  BY NatLessThanWellFounded
<1> HIDE DEF R
<1> SUFFICES ASSUME Nat \ S # {} PROVE FALSE
  OBVIOUS
<1>3. PICK x \in Nat \ S : \A y \in Nat \ S : <<y, x>> \notin R
  BY <1>2, WFMin
<1>4. x \in Nat /\ x # 0
  BY <1>3
<1>5. x - 1 \in Nat /\ x - 1 < x /\ x = (x - 1) + 1
  BY <1>4
<1>6. x - 1 \notin S
  BY <1>3, <1>5
<1> QED
  BY <1>1, <1>3, <1>4, <1>5, <1>6

Accs == [out : Seq(Tokens), armed : BOOLEAN]

NoAcc == [out |-> <<>>, armed |-> FALSE]

\* g is what the fold of a line computes, over the first k of its tokens.
Folds(g, line, k) ==
  g = [s \in SUBSET (1..k) |->
         IF s = {} THEN NoAcc ELSE RedactToken(g[s \ {Max(s)}], line[Max(s)])]

LEMMA MaxOf ==
  ASSUME NEW s, NEW m \in s, s \subseteq Nat, \A e \in s : e <= m
  PROVE  Max(s) = m
<1>1. m \in s /\ \A e \in s : m >= e
  OBVIOUS
<1>2. ASSUME NEW x \in s, \A e \in s : x >= e PROVE x = m
  BY <1>2
<1> QED
  BY <1>1, <1>2 DEF Max

LEMMA FoldExtends ==
  ASSUME NEW line, NEW k \in Nat, NEW g, Folds(g, line, k)
  PROVE  \E h : Folds(h, line, k + 1)
<1> DEFINE h == [s \in SUBSET (1..(k + 1)) |->
                   IF k + 1 \in s THEN RedactToken(g[s \ {k + 1}], line[k + 1]) ELSE g[s]]
           step(s) == IF s = {} THEN NoAcc ELSE RedactToken(h[s \ {Max(s)}], line[Max(s)])
<1>1. ASSUME NEW s \in SUBSET (1..(k + 1)), k + 1 \in s PROVE h[s] = step(s)
  <2>0. s \subseteq Nat /\ \A e \in s : e <= k + 1
    BY <1>1
  <2>1. Max(s) = k + 1
    BY <1>1, <2>0, MaxOf
  <2>2. s \ {k + 1} \in SUBSET (1..(k + 1)) /\ k + 1 \notin s \ {k + 1}
    OBVIOUS
  <2>3. h[s \ {k + 1}] = g[s \ {k + 1}]
    BY <2>2
  <2> QED
    BY <1>1, <2>1, <2>3
<1>2. ASSUME NEW s \in SUBSET (1..(k + 1)), k + 1 \notin s PROVE h[s] = step(s)
  <2>0. \A e \in s : e \in 1..k
    BY <1>2
  <2>1. s \in SUBSET (1..k) /\ s \ {Max(s)} \in SUBSET (1..(k + 1))
    BY <2>0
  <2>2. g[s] = IF s = {} THEN NoAcc ELSE RedactToken(g[s \ {Max(s)}], line[Max(s)])
    BY <2>1, Zenon DEF Folds
  <2>3. h[s \ {Max(s)}] = g[s \ {Max(s)}]
    BY <1>2, <2>1
  <2> QED
    BY <1>2, <2>2, <2>3
<1>3. h = [s \in SUBSET (1..(k + 1)) |-> step(s)]
  BY <1>1, <1>2
<1> QED
  BY <1>3, Zenon DEF Folds

LEMMA FoldExists == \A line : \A k \in Nat : \E g : Folds(g, line, k)
<1> TAKE line
<1> DEFINE S == {k \in Nat : \E g : Folds(g, line, k)}
<1>1. 0 \in S
  <2> DEFINE g == [s \in SUBSET (1..0) |-> NoAcc]
  <2>1. \A s \in SUBSET (1..0) : s = {}
    OBVIOUS
  <2>2. Folds(g, line, 0)
    BY <2>1 DEF Folds
  <2> QED
    BY <2>2
<1>2. \A k \in Nat : k \in S => k + 1 \in S
  BY FoldExtends
<1> HIDE DEF S
<1>3. \A k \in Nat : k \in S
  BY <1>1, <1>2, AllNumbers
<1> QED
  BY <1>3 DEF S

\* What the redaction of a line keeps after each of its tokens.
Redacts(acc, line) ==
  /\ acc[0] = NoAcc
  /\ \A i \in 1..Len(line) : acc[i] = RedactToken(acc[i - 1], line[i])

LEMMA RedactLineSteps ==
  ASSUME NEW line \in Seq(Tokens)
  PROVE  \E acc : Redacts(acc, line) /\ RedactLine(line) = acc[Len(line)].out
<1> DEFINE n == Len(line)
           g == CHOOSE h : Folds(h, line, n)
           acc == [i \in 0..n |-> g[1..i]]
<1>1. n \in Nat /\ DOMAIN line = 1..n
  OBVIOUS
<1>2. Folds(g, line, n)
  BY <1>1, FoldExists
<1>3. RedactLine(line) = g[1..n].out
  BY <1>1 DEF RedactLine, FoldLeft, MapThenFoldSet, Folds, NoAcc
<1> HIDE DEF g
<1>4. acc[0] = NoAcc
  <2>1. 1..0 = {} /\ {} \in SUBSET (1..n)
    OBVIOUS
  <2>2. g[{}] = NoAcc
    BY <1>2, <2>1 DEF Folds
  <2> QED
    BY <1>1, <2>1, <2>2
<1>5. ASSUME NEW i \in 1..n PROVE acc[i] = RedactToken(acc[i - 1], line[i])
  <2>0. i \in 1..i /\ 1..i \subseteq Nat /\ \A e \in 1..i : e <= i
    OBVIOUS
  <2>1. 1..i \in SUBSET (1..n) /\ 1..i # {}
    BY <1>1
  <2>4. (1..i) \ {i} = 1..(i - 1) /\ i - 1 \in 0..n /\ i \in 0..n
    BY <1>1
  <2>2. Max(1..i) = i
    BY <2>0, MaxOf
  <2>3. g[1..i] = RedactToken(g[(1..i) \ {Max(1..i)}], line[Max(1..i)])
    BY <1>2, <2>1, Zenon DEF Folds
  <2> QED
    BY <2>1, <2>2, <2>3, <2>4
<1>6. Redacts(acc, line)
  BY <1>4, <1>5 DEF Redacts
<1>7. acc[n] = g[1..n]
  BY <1>1
<1> HIDE DEF acc
<1> QED
  BY <1>3, <1>6, <1>7

-----------------------------------------------------------------------------
(* What a redacted line is. *)

KeyTokens == {"bearer", "key", "longkey", "open", "longopen"}

\* A key comes before the token, with nothing but separators in between.
Keyed(line, j) ==
  \E k \in 1..(j - 1) : line[k] \in KeyTokens /\ \A l \in (k + 1)..(j - 1) : line[l] = "sep"

\* Nothing shaped like a credential is left, and what follows a key is redacted.
Redacted(line) ==
  \A j \in 1..Len(line) :
    /\ line[j] \notin {"secret", "assign", "padded"}
    /\ Looks(line[j]) /\ Keyed(line, j) => line[j] = "redacted"

\* What the scan of a line knows: it is armed after a key.
ArmedAfterKey(a) == Keyed(a.out, Len(a.out) + 1) => a.armed

LEMMA KeyedPrefix ==
  ASSUME NEW line \in Seq(Tokens), NEW t \in Tokens, NEW j \in 1..(Len(line) + 1)
  PROVE  Keyed(Append(line, t), j) = Keyed(line, j)
<1>1. \A k \in 1..Len(line) : Append(line, t)[k] = line[k]
  BY AppendProperties
<1>2. \A k \in 1..(j - 1) : k \in 1..Len(line) /\ \A l \in (k + 1)..(j - 1) : l \in 1..Len(line)
  OBVIOUS
<1> QED
  BY <1>1, <1>2 DEF Keyed

LEMMA KeyedAfter ==
  ASSUME NEW line \in Seq(Tokens), NEW t \in Tokens,
         Keyed(Append(line, t), Len(line) + 2)
  PROVE  t \in KeyTokens \/ (t = "sep" /\ Keyed(line, Len(line) + 1))
<1> DEFINE n == Len(line)
<1>1. /\ n \in Nat /\ Append(line, t)[n + 1] = t
      /\ \A k \in 1..n : Append(line, t)[k] = line[k]
  BY AppendProperties
<1>2. PICK k \in 1..(n + 1) :
        /\ Append(line, t)[k] \in KeyTokens
        /\ \A l \in (k + 1)..(n + 1) : Append(line, t)[l] = "sep"
  BY <1>1 DEF Keyed
<1>3. CASE k = n + 1
  BY <1>1, <1>2, <1>3
<1>4. CASE k # n + 1
  <2>1. k \in 1..n /\ n + 1 \in (k + 1)..(n + 1)
    BY <1>1, <1>2, <1>4
  <2>2. t = "sep"
    BY <1>1, <1>2, <2>1
  <2>3. line[k] \in KeyTokens
    BY <1>1, <1>2, <2>1
  <2>4. \A l \in (k + 1)..n : line[l] = "sep"
    BY <1>1, <1>2, <2>1
  <2>5. Keyed(line, n + 1)
    BY <1>1, <2>1, <2>3, <2>4 DEF Keyed
  <2> QED
    BY <2>2, <2>5
<1> QED
  BY <1>3, <1>4

LEMMA RedactedAppend ==
  ASSUME NEW line \in Seq(Tokens), NEW t \in Tokens, Redacted(line),
         t \notin {"secret", "assign", "padded"},
         Looks(t) /\ Keyed(line, Len(line) + 1) => t = "redacted"
  PROVE  Redacted(Append(line, t))
<1>1. /\ Len(Append(line, t)) = Len(line) + 1 /\ Len(line) \in Nat
      /\ Append(line, t)[Len(line) + 1] = t
      /\ \A k \in 1..Len(line) : Append(line, t)[k] = line[k]
  BY AppendProperties
<1>2. \A j \in 1..(Len(line) + 1) : Keyed(Append(line, t), j) = Keyed(line, j)
  BY KeyedPrefix
<1>3. ASSUME NEW j \in 1..(Len(line) + 1)
      PROVE  /\ Append(line, t)[j] \notin {"secret", "assign", "padded"}
             /\ Looks(Append(line, t)[j]) /\ Keyed(line, j) => Append(line, t)[j] = "redacted"
  <2>1. CASE j = Len(line) + 1
    BY <1>1, <2>1
  <2>2. CASE j # Len(line) + 1
    <3>1. j \in 1..Len(line)
      BY <1>1, <2>2
    <3> QED
      BY <1>1, <3>1 DEF Redacted
  <2> QED
    BY <2>1, <2>2
<1> QED
  BY <1>1, <1>2, <1>3 DEF Redacted

\* What is written for a token, and whether a value is awaited after it.
LEMMA TokenWritten ==
  ASSUME NEW a \in Accs, NEW t \in Tokens
  PROVE  \E u \in Tokens :
           /\ RedactToken(a, t).out = Append(a.out, u)
           /\ RedactToken(a, t).armed \in BOOLEAN
           /\ RedactToken(a, t) \in Accs
           /\ u \notin {"secret", "assign", "padded"}
           /\ Looks(u) /\ a.armed => u = "redacted"
           /\ u \in KeyTokens => RedactToken(a, t).armed
           /\ u = "sep" /\ a.armed => RedactToken(a, t).armed
           /\ ~a.armed => u = Alone(t)
<1>1. /\ a.out \in Seq(Tokens) /\ a.armed \in BOOLEAN
      /\ Arms(t) \in BOOLEAN /\ \A u \in Tokens : Append(a.out, u) \in Seq(Tokens)
  BY DEF Accs, Arms
<1>2. CASE a.armed /\ t = "sep"
  <2>1. RedactToken(a, t) = [a EXCEPT !.out = Append(a.out, t)]
    BY <1>2 DEF RedactToken
  <2>2. /\ RedactToken(a, t).out = Append(a.out, t) /\ RedactToken(a, t).armed = a.armed
        /\ RedactToken(a, t) \in Accs
    BY <1>1, <2>1 DEF Accs
  <2> QED
    BY <1>1, <1>2, <2>2 DEF KeyTokens, Looks
<1>3. CASE a.armed /\ t # "sep" /\ Looks(t)
  <2>1. RedactToken(a, t) = [out |-> Append(a.out, "redacted"), armed |-> FALSE]
    BY <1>3 DEF RedactToken
  <2>2. "redacted" \in Tokens
    BY DEF Tokens
  <2>3. RedactToken(a, t) \in Accs
    BY <1>1, <2>1, <2>2 DEF Accs
  <2> QED
    BY <1>1, <1>3, <2>1, <2>2, <2>3 DEF KeyTokens
<1>4. CASE ~ (a.armed /\ t = "sep") /\ ~ (a.armed /\ Looks(t))
  <2>1. RedactToken(a, t) = [out |-> Append(a.out, Alone(t)), armed |-> Arms(t)]
    BY <1>4 DEF RedactToken
  <2>2. /\ Alone(t) \in Tokens /\ Alone(t) \notin {"secret", "assign", "padded"}
        /\ Looks(Alone(t)) = Looks(t)
        /\ Alone(t) \in KeyTokens => Arms(t)
        /\ Alone(t) = "sep" => t = "sep"
    BY DEF Alone, Tokens, Looks, KeyTokens, Arms
  <2>3. RedactToken(a, t) \in Accs
    BY <1>1, <2>1, <2>2 DEF Accs
  <2> QED
    BY <1>1, <1>4, <2>1, <2>2, <2>3
<1> QED
  BY <1>2, <1>3, <1>4

\* A redacted line has the tokens of the line, one by one, redacted.
LEMMA RedactLineRedacts ==
  ASSUME NEW line \in Seq(Tokens)
  PROVE  /\ RedactLine(line) \in Seq(Tokens) /\ Len(RedactLine(line)) = Len(line)
         /\ Redacted(RedactLine(line))
         /\ line # <<>> => RedactLine(line)[1] = Alone(line[1])
<1> PICK acc : Redacts(acc, line) /\ RedactLine(line) = acc[Len(line)].out
  BY RedactLineSteps
<1> DEFINE n == Len(line)
           good(i) == /\ acc[i] \in Accs /\ Len(acc[i].out) = i
                      /\ Redacted(acc[i].out) /\ ArmedAfterKey(acc[i])
                      /\ i >= 1 => acc[i].out[1] = Alone(line[1])
           S == {i \in Nat : i <= n => good(i)}
<1>1. good(0)
  <2>1. acc[0] = NoAcc /\ NoAcc \in Accs /\ Len(NoAcc.out) = 0
    BY DEF Redacts, NoAcc, Accs
  <2>2. ~Keyed(NoAcc.out, 1) /\ Redacted(NoAcc.out)
    BY <2>1 DEF Keyed, Redacted
  <2> QED
    BY <2>1, <2>2 DEF ArmedAfterKey
<1>2. ASSUME NEW i \in Nat, good(i), i + 1 <= n PROVE good(i + 1)
  <2> DEFINE a == acc[i]
             b == acc[i + 1]
             t == line[i + 1]
  <2>1. i + 1 \in 1..n /\ (i + 1) - 1 = i /\ t \in Tokens /\ n \in Nat
    BY <1>2
  <2>2. b = RedactToken(a, t)
    BY <2>1 DEF Redacts
  <2>3. /\ a \in Accs /\ a.out \in Seq(Tokens) /\ a.armed \in BOOLEAN /\ Len(a.out) = i
        /\ Redacted(a.out) /\ ArmedAfterKey(a)
    BY <1>2 DEF Accs
  <2>4. /\ a.armed \/ ~Keyed(a.out, i + 1)
        /\ i = 0 => ~a.armed
    <3>1. i = 0 => a = NoAcc
      BY DEF Redacts
    <3> QED
      BY <2>3, <3>1 DEF ArmedAfterKey, NoAcc
  <2> HIDE DEF a, b, t
  <2>5. PICK u \in Tokens :
           /\ b.out = Append(a.out, u) /\ b.armed \in BOOLEAN /\ b \in Accs
           /\ u \notin {"secret", "assign", "padded"}
           /\ Looks(u) /\ a.armed => u = "redacted"
           /\ u \in KeyTokens => b.armed
           /\ u = "sep" /\ a.armed => b.armed
           /\ ~a.armed => u = Alone(t)
    <3>1. \E u \in Tokens :
           /\ RedactToken(a, t).out = Append(a.out, u)
           /\ RedactToken(a, t).armed \in BOOLEAN
           /\ RedactToken(a, t) \in Accs
           /\ u \notin {"secret", "assign", "padded"}
           /\ Looks(u) /\ a.armed => u = "redacted"
           /\ u \in KeyTokens => RedactToken(a, t).armed
           /\ u = "sep" /\ a.armed => RedactToken(a, t).armed
           /\ ~a.armed => u = Alone(t)
      BY <2>1, <2>3, TokenWritten, Zenon
    <3> QED
      BY <2>2, <3>1, Zenon
  <2>6. /\ Len(b.out) = i + 1 /\ b.out[i + 1] = u
        /\ \A k \in 1..i : b.out[k] = a.out[k]
    BY <2>3, <2>5, AppendProperties
  <2>7. Redacted(b.out)
    BY <2>3, <2>4, <2>5, RedactedAppend
  <2>8. ArmedAfterKey(b)
    <3>1. Keyed(b.out, i + 2) => u \in KeyTokens \/ (u = "sep" /\ Keyed(a.out, i + 1))
      BY <2>3, <2>5, KeyedAfter
    <3>2. Len(b.out) + 1 = i + 2
      BY <2>6, <1>2
    <3> QED
      BY <2>4, <2>5, <3>1, <3>2 DEF ArmedAfterKey
  <2>9. b.out[1] = Alone(line[1])
    <3>1. CASE i = 0
      BY <2>4, <2>5, <2>6, <3>1 DEF t
    <3>2. CASE i # 0
      <4>1. i >= 1 /\ 1 \in 1..i
        BY <1>2, <3>2
      <4> QED
        BY <1>2, <2>6, <4>1 DEF a
    <3> QED
      BY <3>1, <3>2
  <2> QED
    BY <2>5, <2>6, <2>7, <2>8, <2>9 DEF b
<1>3. 0 \in S /\ \A i \in Nat : i \in S => i + 1 \in S
  <2>1. 0 \in S
    BY <1>1
  <2>2. ASSUME NEW i \in Nat, i \in S PROVE i + 1 \in S
    <3> HIDE DEF good
    <3>1. n \in Nat
      OBVIOUS
    <3> QED
      BY <1>2, <2>2, <3>1
  <2> QED
    BY <2>1, <2>2
<1> HIDE DEF S
<1>4. \A i \in Nat : i \in S
  BY <1>3, AllNumbers
<1>5. good(n)
  <2> HIDE DEF good
  <2> QED
    BY <1>4 DEF S
<1>6. line # <<>> => n >= 1
  OBVIOUS
<1> QED
  BY <1>5, <1>6 DEF Accs

\* What becomes of a token, and whether a value is awaited after it, by whether
\* one is awaited before it.
Becomes(b, t) ==
  IF b /\ t = "sep" THEN t ELSE IF b /\ Looks(t) THEN "redacted" ELSE Alone(t)

ArmedAfter(b, t) ==
  IF b /\ t = "sep" THEN TRUE ELSE IF b /\ Looks(t) THEN FALSE ELSE Arms(t)

\* A line is redacted token by token.
LEMMA TokenByToken ==
  ASSUME NEW line \in Seq(Tokens)
  PROVE  \E armed \in [0..Len(line) -> BOOLEAN] :
           /\ armed[0] = FALSE
           /\ \A i \in 1..Len(line) :
                /\ RedactLine(line)[i] = Becomes(armed[i - 1], line[i])
                /\ armed[i] = ArmedAfter(armed[i - 1], line[i])
<1> PICK acc : Redacts(acc, line) /\ RedactLine(line) = acc[Len(line)].out
  BY RedactLineSteps
<1> DEFINE n == Len(line)
           good(i) == /\ acc[i] \in Accs /\ Len(acc[i].out) = i
                      /\ \A j \in 1..i : /\ acc[i].out[j] = Becomes(acc[j - 1].armed, line[j])
                                         /\ acc[j].armed = ArmedAfter(acc[j - 1].armed, line[j])
                                         /\ acc[j].armed \in BOOLEAN
           S == {i \in Nat : i <= n => good(i)}
<1>1. good(0) /\ acc[0].armed = FALSE
  BY DEF Redacts, NoAcc, Accs
<1>2. ASSUME NEW i \in Nat, good(i), i + 1 <= n PROVE good(i + 1)
  <2> DEFINE a == acc[i]
             b == acc[i + 1]
             t == line[i + 1]
  <2>1. i + 1 \in 1..n /\ (i + 1) - 1 = i /\ t \in Tokens /\ n \in Nat
    BY <1>2
  <2>2. b = RedactToken(a, t)
    BY <2>1 DEF Redacts
  <2>3. a \in Accs /\ a.out \in Seq(Tokens) /\ a.armed \in BOOLEAN /\ Len(a.out) = i
    BY <1>2 DEF Accs
  <2> HIDE DEF a, b, t
  <2>4. b.out = Append(a.out, Becomes(a.armed, t)) /\ b.armed = ArmedAfter(a.armed, t)
    <3>1. CASE a.armed /\ t = "sep"
      <4>1. b = [a EXCEPT !.out = Append(a.out, t)]
        BY <2>2, <3>1 DEF RedactToken
      <4>2. b.out = Append(a.out, t) /\ b.armed = a.armed
        BY <2>3, <4>1 DEF Accs
      <4> QED
        BY <2>3, <3>1, <4>2 DEF Becomes, ArmedAfter
    <3>2. CASE a.armed /\ t # "sep" /\ Looks(t)
      BY <2>2, <3>2 DEF RedactToken, Becomes, ArmedAfter
    <3>3. CASE ~ (a.armed /\ t = "sep") /\ ~ (a.armed /\ Looks(t))
      BY <2>2, <3>3 DEF RedactToken, Becomes, ArmedAfter
    <3> QED
      BY <3>1, <3>2, <3>3
  <2>5. b \in Accs /\ b.armed \in BOOLEAN /\ Becomes(a.armed, t) \in Tokens
    <3>1. b \in Accs
      BY <2>1, <2>2, <2>3, TokenWritten
    <3>2. Becomes(a.armed, t) \in Tokens
      BY <2>1 DEF Becomes, Alone, Tokens
    <3> QED
      BY <3>1, <3>2 DEF Accs
  <2>6. /\ Len(b.out) = i + 1 /\ b.out[i + 1] = Becomes(a.armed, t)
        /\ \A k \in 1..i : b.out[k] = a.out[k]
    BY <2>3, <2>4, <2>5, AppendProperties
  <2>7. ASSUME NEW j \in 1..(i + 1)
        PROVE  /\ b.out[j] = Becomes(acc[j - 1].armed, line[j])
               /\ acc[j].armed = ArmedAfter(acc[j - 1].armed, line[j])
               /\ acc[j].armed \in BOOLEAN
    <3>1. CASE j = i + 1
      BY <2>1, <2>4, <2>5, <2>6, <3>1 DEF a, b, t
    <3>2. CASE j # i + 1
      <4>1. j \in 1..i
        BY <3>2
      <4> QED
        BY <1>2, <2>6, <4>1 DEF a
    <3> QED
      BY <3>1, <3>2
  <2> QED
    BY <2>5, <2>6, <2>7 DEF b
<1>3. 0 \in S /\ \A i \in Nat : i \in S => i + 1 \in S
  <2>1. 0 \in S
    BY <1>1
  <2>2. ASSUME NEW i \in Nat, i \in S PROVE i + 1 \in S
    <3> HIDE DEF good
    <3>1. n \in Nat
      OBVIOUS
    <3> QED
      BY <1>2, <2>2, <3>1
  <2> QED
    BY <2>1, <2>2
<1> HIDE DEF S
<1>4. \A i \in Nat : i \in S
  BY <1>3, AllNumbers
<1>5. good(n) /\ n \in Nat
  <2> HIDE DEF good
  <2> QED
    BY <1>4 DEF S
<1> DEFINE armed == [i \in 0..n |-> acc[i].armed]
<1>6. \A i \in 1..n : i \in 0..n /\ i - 1 \in 0..n
  BY <1>5
<1>7. armed \in [0..n -> BOOLEAN] /\ armed[0] = FALSE
  <2>1. \A i \in 0..n : i = 0 \/ i \in 1..n
    BY <1>5
  <2>2. \A i \in 1..n : acc[i].armed \in BOOLEAN
    BY <1>5
  <2>3. \A i \in 0..n : acc[i].armed \in BOOLEAN
    BY <1>1, <2>1, <2>2
  <2>4. 0 \in 0..n
    BY <1>5
  <2> QED
    BY <1>1, <2>3, <2>4
<1>8. \A i \in 1..n : /\ RedactLine(line)[i] = Becomes(armed[i - 1], line[i])
                      /\ armed[i] = ArmedAfter(armed[i - 1], line[i])
  BY <1>5, <1>6
<1> HIDE DEF armed
<1> QED
  BY <1>7, <1>8

\* Redacting a redacted line changes nothing.
LEMMA RedactedStays ==
  ASSUME NEW line \in Seq(Tokens), Redacted(line)
  PROVE  RedactLine(line) = line
<1> PICK acc : Redacts(acc, line) /\ RedactLine(line) = acc[Len(line)].out
  BY RedactLineSteps
<1> DEFINE n == Len(line)
           good(i) == /\ acc[i] \in Accs /\ Len(acc[i].out) = i
                      /\ \A k \in 1..i : acc[i].out[k] = line[k]
                      /\ acc[i].armed => Keyed(line, i + 1)
           S == {i \in Nat : i <= n => good(i)}
<1>1. good(0)
  BY DEF Redacts, NoAcc, Accs
<1>2. ASSUME NEW i \in Nat, good(i), i + 1 <= n PROVE good(i + 1)
  <2> DEFINE a == acc[i]
             b == acc[i + 1]
             t == line[i + 1]
  <2>1. i + 1 \in 1..n /\ (i + 1) - 1 = i /\ t \in Tokens /\ n \in Nat
    BY <1>2
  <2>2. b = RedactToken(a, t)
    BY <2>1 DEF Redacts
  <2>3. /\ a \in Accs /\ a.out \in Seq(Tokens) /\ a.armed \in BOOLEAN /\ Len(a.out) = i
        /\ \A k \in 1..i : a.out[k] = line[k]
        /\ a.armed => Keyed(line, i + 1)
    BY <1>2 DEF Accs
  <2>4. /\ t \notin {"secret", "assign", "padded"}
        /\ Looks(t) /\ Keyed(line, i + 1) => t = "redacted"
    BY <2>1 DEF Redacted
  <2>5. t \in KeyTokens => Keyed(line, i + 2)
    <3>1. i + 1 \in 1..((i + 2) - 1) /\ \A l \in ((i + 1) + 1)..((i + 2) - 1) : FALSE
      BY <1>2
    <3> QED
      BY <3>1 DEF Keyed
  <2>6. t = "sep" /\ Keyed(line, i + 1) => Keyed(line, i + 2)
    <3>1. ASSUME t = "sep", NEW k \in 1..i, line[k] \in KeyTokens,
                 \A l \in (k + 1)..i : line[l] = "sep"
          PROVE  Keyed(line, i + 2)
      <4>1. k \in 1..((i + 2) - 1)
        BY <1>2
      <4>2. \A l \in (k + 1)..((i + 2) - 1) : line[l] = "sep"
        BY <1>2, <3>1
      <4> QED
        BY <3>1, <4>1, <4>2 DEF Keyed
    <3>2. (i + 1) - 1 = i
      BY <1>2
    <3> QED
      BY <3>1, <3>2 DEF Keyed
  <2> HIDE DEF a, b, t
  <2>7. b \in Accs /\ b.out = Append(a.out, t) /\ (b.armed => Keyed(line, i + 2))
    <3>1. CASE a.armed /\ t = "sep"
      <4>1. b = [a EXCEPT !.out = Append(a.out, t)]
        BY <2>2, <3>1 DEF RedactToken
      <4>2. b.out = Append(a.out, t) /\ b.armed = a.armed
        BY <2>3, <4>1 DEF Accs
      <4>3. b \in Accs
        BY <2>1, <2>3, <4>1, AppendProperties DEF Accs
      <4> QED
        BY <2>3, <2>6, <3>1, <4>2, <4>3
    <3>2. CASE a.armed /\ t # "sep" /\ Looks(t)
      <4>1. b = [out |-> Append(a.out, "redacted"), armed |-> FALSE] /\ t = "redacted"
        BY <2>2, <2>3, <2>4, <3>2 DEF RedactToken
      <4>2. Append(a.out, t) \in Seq(Tokens)
        BY <2>1, <2>3, AppendProperties
      <4> QED
        BY <4>1, <4>2 DEF Accs
    <3>3. CASE ~ (a.armed /\ t = "sep") /\ ~ (a.armed /\ Looks(t))
      <4>1. b = [out |-> Append(a.out, Alone(t)), armed |-> Arms(t)]
        BY <2>2, <3>3 DEF RedactToken
      <4>2. Alone(t) = t /\ (Arms(t) => t \in KeyTokens) /\ Arms(t) \in BOOLEAN
        BY <2>1, <2>4 DEF Alone, Arms, KeyTokens
      <4>3. Append(a.out, t) \in Seq(Tokens)
        BY <2>1, <2>3, AppendProperties
      <4> QED
        BY <2>5, <4>1, <4>2, <4>3 DEF Accs
    <3> QED
      BY <3>1, <3>2, <3>3
  <2>8. /\ Len(b.out) = i + 1 /\ b.out[i + 1] = t
        /\ \A k \in 1..i : b.out[k] = a.out[k]
    BY <2>1, <2>3, <2>7, AppendProperties
  <2>9. \A k \in 1..(i + 1) : b.out[k] = line[k]
    <3>1. \A k \in 1..(i + 1) : k \in 1..i \/ k = i + 1
      BY <1>2
    <3> QED
      BY <2>3, <2>8, <3>1 DEF t
  <2>10. (i + 1) + 1 = i + 2
    BY <1>2
  <2> QED
    BY <2>7, <2>8, <2>9, <2>10 DEF b
<1>3. 0 \in S /\ \A i \in Nat : i \in S => i + 1 \in S
  <2>1. 0 \in S
    BY <1>1
  <2>2. ASSUME NEW i \in Nat, i \in S PROVE i + 1 \in S
    <3> HIDE DEF good
    <3>1. n \in Nat
      OBVIOUS
    <3> QED
      BY <1>2, <2>2, <3>1
  <2> QED
    BY <2>1, <2>2
<1> HIDE DEF S
<1>4. \A i \in Nat : i \in S
  BY <1>3, AllNumbers
<1>5. good(n)
  <2> HIDE DEF good
  <2> QED
    BY <1>4 DEF S
<1>6. /\ acc[n].out \in Seq(Tokens) /\ Len(acc[n].out) = n
      /\ \A k \in 1..n : acc[n].out[k] = line[k]
  BY <1>5 DEF Accs
<1> QED
  BY <1>6

-----------------------------------------------------------------------------
(* What the sanitizer writes for a line, and how the second pass reads it. *)

LEMMA RedactLineStarts ==
  ASSUME NEW line \in Seq(Tokens), NEW t \in {"begin", "fence"}
  PROVE  Is(RedactLine(line), t) = Is(line, t)
<1> DEFINE w == RedactLine(line)
<1>1. w \in Seq(Tokens) /\ Len(w) = Len(line)
  BY RedactLineRedacts
<1>2. line # <<>> => w[1] = Alone(line[1]) /\ line[1] \in Tokens
  BY RedactLineRedacts
<1>3. (w = <<>>) = (line = <<>>)
  BY <1>1
<1> HIDE DEF w
<1>4. line # <<>> => (w[1] = t) = (line[1] = t)
  BY <1>2 DEF Alone, Tokens
<1> QED
  BY <1>3, <1>4 DEF Is, w

\* A line that is written.
Written(w) == w \in Seq(Tokens) /\ Redacted(w) /\ ~Is(w, "begin")

LEMMA MarkersWritten ==
  /\ Written(<<>>)
  /\ Written(<<"cut">>) /\ ~Is(<<"cut">>, "fence")
  /\ Written(<<"redacted", "word", "word">>) /\ ~Is(<<"redacted", "word", "word">>, "fence")
<1>1. Written(<<>>)
  BY DEF Written, Redacted, Is
<1>2. <<"cut">> \in Seq(Tokens) /\ ~Is(<<"cut">>, "begin") /\ ~Is(<<"cut">>, "fence")
  BY DEF Tokens, Is
<1>3. Redacted(<<"cut">>)
  BY DEF Redacted, Looks
<1> DEFINE w == <<"redacted", "word", "word">>
<1>4. w \in Seq(Tokens) /\ ~Is(w, "begin") /\ ~Is(w, "fence") /\ Len(w) = 3
  BY DEF Tokens, Is
<1>5. \A j \in 1..3 : w[j] \in {"redacted", "word"}
  OBVIOUS
<1>6. Redacted(w)
  <2> HIDE DEF w
  <2>1. Len(w) = 3 /\ \A j \in 1..3 : w[j] \in {"redacted", "word"}
    BY <1>4, <1>5
  <2> QED
    BY <2>1 DEF Redacted, Looks
<1> QED
  BY <1>1, <1>2, <1>3, <1>4, <1>6 DEF Written

\* What the sanitizer puts in the place of lines it leaves out.
Markers == {<<>>, <<"cut">>, <<"redacted", "word", "word">>}

LEMMA WhatIsWritten ==
  ASSUME NEW s \in Scanners, NEW line \in Seq(Tokens)
  PROVE  LET o == Scan(s, line)
         IN  o.out = <<>> \/ \E w \in Markers \cup {RedactLine(line)} : o.out = <<w>>
<1>1. CASE s.pem \/ Is(line, "begin")
  BY <1>1 DEF Scan, Markers
<1>2. CASE ~s.pem /\ ~Is(line, "begin") /\ Is(line, "fence")
  BY <1>2 DEF Scan
<1>3. CASE ~s.pem /\ ~Is(line, "begin") /\ ~Is(line, "fence")
  BY <1>3 DEF Scan, Content, CutLine, BlankLine, OtherLine, Markers
<1> QED
  BY <1>1, <1>2, <1>3

LEMMA LineWritten ==
  ASSUME NEW line \in Seq(Tokens), ~Is(line, "begin")
  PROVE  Written(RedactLine(line))
BY RedactLineRedacts, RedactLineStarts DEF Written

\* A scanner with one of its fields changed.
LEMMA ScannerFields ==
  ASSUME NEW s \in Scanners, NEW b \in BOOLEAN
  PROVE  /\ [s EXCEPT !.pem = b] \in Scanners
         /\ [s EXCEPT !.pem = b].pem = b /\ [s EXCEPT !.pem = b].fence = s.fence
         /\ [s EXCEPT !.fence = b] \in Scanners
         /\ [s EXCEPT !.fence = b].pem = s.pem /\ [s EXCEPT !.fence = b].fence = b
         /\ [s EXCEPT !.cutting = b] \in Scanners
         /\ [s EXCEPT !.cutting = b].pem = s.pem /\ [s EXCEPT !.cutting = b].fence = s.fence
  BY DEF Scanners

LEMMA ScannerKept ==
  ASSUME NEW s \in Scanners, NEW k \in 0..(MaxFenceLines + 1)
  PROVE  /\ [s EXCEPT !.kept = k] \in Scanners
         /\ [s EXCEPT !.kept = k].pem = s.pem /\ [s EXCEPT !.kept = k].fence = s.fence
  BY DEF Scanners

LEMMA FenceToggles ==
  ASSUME NEW s \in Scanners
  PROVE  /\ FenceLine(s) \in Scanners
         /\ FenceLine(s).pem = s.pem /\ FenceLine(s).fence = ~s.fence
<1>1. /\ s.fence \in BOOLEAN /\ 0 \in 0..(MaxFenceLines + 1)
  BY TextAssumption DEF Scanners
<1>2. CASE s.fence
  <2> DEFINE t == [s EXCEPT !.fence = FALSE]
  <2>1. FenceLine(s) = [t EXCEPT !.cutting = FALSE]
    BY <1>2 DEF FenceLine
  <2>2. t \in Scanners /\ t.pem = s.pem /\ t.fence = FALSE
    BY ScannerFields
  <2> HIDE DEF t
  <2>3. /\ [t EXCEPT !.cutting = FALSE] \in Scanners
        /\ [t EXCEPT !.cutting = FALSE].pem = t.pem /\ [t EXCEPT !.cutting = FALSE].fence = t.fence
    BY <2>2, ScannerFields
  <2> QED
    BY <1>2, <2>1, <2>2, <2>3
<1>3. CASE ~s.fence
  <2> DEFINE t == [s EXCEPT !.fence = TRUE]
  <2>1. FenceLine(s) = [t EXCEPT !.kept = 0]
    BY <1>3 DEF FenceLine
  <2>2. t \in Scanners /\ t.pem = s.pem /\ t.fence = TRUE
    BY ScannerFields
  <2> HIDE DEF t
  <2>3. /\ [t EXCEPT !.kept = 0] \in Scanners
        /\ [t EXCEPT !.kept = 0].pem = t.pem /\ [t EXCEPT !.kept = 0].fence = t.fence
    BY <1>1, <2>2, ScannerKept
  <2> QED
    BY <1>3, <2>1, <2>2, <2>3
<1> QED
  BY <1>1, <1>2, <1>3

LEMMA CutKeepsFence ==
  ASSUME NEW s \in Scanners
  PROVE  /\ CutLine(s).next \in Scanners
         /\ CutLine(s).next.pem = s.pem /\ CutLine(s).next.fence = s.fence
         /\ CutLine(s).out \in {<<>>, << <<"cut">> >>}
<1> DEFINE t == [s EXCEPT !.kept = MaxFenceLines + 1]
<1>1. t \in Scanners /\ t.pem = s.pem /\ t.fence = s.fence
  <2>1. MaxFenceLines + 1 \in 0..(MaxFenceLines + 1)
    BY TextAssumption
  <2> QED
    BY <2>1, ScannerKept
<1>2. CutLine(s).next = [t EXCEPT !.cutting = TRUE]
  BY DEF CutLine
<1> HIDE DEF t
<1>3. /\ [t EXCEPT !.cutting = TRUE] \in Scanners
      /\ [t EXCEPT !.cutting = TRUE].pem = t.pem /\ [t EXCEPT !.cutting = TRUE].fence = t.fence
  BY <1>1, ScannerFields
<1> QED
  BY <1>1, <1>2, <1>3 DEF CutLine

\* The first pass: at most one line, and the fence opens or closes with it.
Passed(s, o) ==
  /\ o.next \in Scanners
  /\ \/ o.out = <<>> /\ o.next.fence = s.fence
     \/ \E w : /\ o.out = <<w>> /\ Written(w)
               /\ o.next.fence = IF Is(w, "fence") THEN ~s.fence ELSE s.fence

LEMMA FirstPass ==
  ASSUME NEW s \in Scanners, NEW line \in Seq(Tokens)
  PROVE  Passed(s, Scan(s, line))
<1> DEFINE o == Scan(s, line)
<1>0. /\ s.pem \in BOOLEAN /\ s.fence \in BOOLEAN /\ s.kept \in 0..(MaxFenceLines + 1)
      /\ s.cutting \in BOOLEAN /\ s.blanks \in 0..2 /\ MaxFenceLines \in Nat
  BY TextAssumption DEF Scanners
<1>1. CASE ~s.pem /\ Is(line, "begin")
  <2> DEFINE t == [s EXCEPT !.pem = TRUE]
             m == <<"redacted", "word", "word">>
  <2>1. o.next = t /\ o.out = <<m>>
    BY <1>0, <1>1 DEF Scan, Is
  <2>2. t \in Scanners /\ t.fence = s.fence
    BY ScannerFields
  <2>3. Written(m) /\ ~Is(m, "fence")
    BY MarkersWritten
  <2> HIDE DEF o, t, m
  <2>4. o.next \in Scanners /\ o.next.fence = s.fence
    BY <2>1, <2>2
  <2> QED
    BY <2>1, <2>3, <2>4 DEF Passed, o
<1>2. CASE s.pem
  <2> DEFINE t == [s EXCEPT !.pem = ~Is(line, "end")]
  <2>1. o.next = t /\ o.out = <<>>
    BY <1>2 DEF Scan
  <2>2. t = [s EXCEPT !.pem = TRUE] \/ t = [s EXCEPT !.pem = FALSE]
    OBVIOUS
  <2>3. /\ [s EXCEPT !.pem = TRUE] \in Scanners /\ [s EXCEPT !.pem = TRUE].fence = s.fence
        /\ [s EXCEPT !.pem = FALSE] \in Scanners /\ [s EXCEPT !.pem = FALSE].fence = s.fence
    BY ScannerFields
  <2> HIDE DEF o, t
  <2>4. o.next \in Scanners /\ o.next.fence = s.fence
    <3>1. t \in Scanners /\ t.fence = s.fence
      BY <2>2, <2>3, Zenon
    <3> QED
      BY <2>1, <3>1
  <2> QED
    BY <2>1, <2>4 DEF Passed, o
<1>3. CASE ~s.pem /\ ~Is(line, "begin") /\ Is(line, "fence")
  <2>1. o = [next |-> FenceLine(s), out |-> << RedactLine(line) >>]
    BY <1>3 DEF Scan
  <2>2. FenceLine(s) \in Scanners /\ FenceLine(s).fence = ~s.fence
    BY FenceToggles
  <2>3. Written(RedactLine(line)) /\ Is(RedactLine(line), "fence")
    BY <1>3, LineWritten, RedactLineStarts
  <2> QED
    BY <2>1, <2>2, <2>3 DEF Passed
<1>4. CASE ~s.pem /\ ~Is(line, "begin") /\ ~Is(line, "fence")
  <2>0. o = Content(s, line)
    BY <1>4 DEF Scan
  <2>1. CASE s.fence /\ s.kept >= MaxFenceLines
    <3>1. o = CutLine(s)
      BY <2>0, <2>1 DEF Content
    <3>2. o.next \in Scanners /\ o.next.fence = s.fence
      BY <3>1, CutKeepsFence
    <3>3. o.out = <<>> \/ o.out = << <<"cut">> >>
      BY <3>1, CutKeepsFence
    <3> QED
      BY <3>2, <3>3, MarkersWritten DEF Passed
  <2>2. CASE ~(s.fence /\ s.kept >= MaxFenceLines)
    <3> DEFINE t == IF s.fence THEN [s EXCEPT !.kept = @ + 1] ELSE s
    <3>1. t \in Scanners /\ t.fence = s.fence
      BY <1>0, <2>2 DEF Scanners
    <3>2. o = IF line = <<>> THEN BlankLine(t) ELSE OtherLine(t, line)
      BY <2>0, <2>2 DEF Content
    <3> HIDE DEF t
    <3>3. CASE line = <<>>
      <4>1. o.next \in Scanners /\ o.next.fence = s.fence
        BY <3>1, <3>2, <3>3 DEF BlankLine, Scanners
      <4>2. o.out = <<>> \/ o.out = << <<>> >>
        BY <3>2, <3>3 DEF BlankLine
      <4>3. ~Is(<<>>, "fence")
        BY DEF Is
      <4> QED
        BY <4>1, <4>2, <4>3, MarkersWritten DEF Passed
    <3>4. CASE line # <<>>
      <4>1. o.next \in Scanners /\ o.next.fence = s.fence /\ o.out = << RedactLine(line) >>
        BY <3>1, <3>2, <3>4 DEF OtherLine, Scanners
      <4>2. Written(RedactLine(line)) /\ ~Is(RedactLine(line), "fence")
        BY <1>4, LineWritten, RedactLineStarts
      <4> QED
        BY <4>1, <4>2 DEF Passed
    <3> QED
      BY <3>3, <3>4
  <2> QED
    BY <2>1, <2>2
<1> QED
  BY <1>0, <1>1, <1>2, <1>3, <1>4

\* The second pass over a line the first one wrote.
LEMMA SecondPass ==
  ASSUME NEW s \in Scanners, ~s.pem, NEW w, Written(w)
  PROVE  LET o == Scan(s, w)
         IN  /\ o.next \in Scanners /\ ~o.next.pem
             /\ o.next.fence = IF Is(w, "fence") THEN ~s.fence ELSE s.fence
             /\ \/ o.out = <<w>>
                \/ s.fence /\ ~Is(w, "fence") /\ o.out \in {<<>>, << <<"cut">> >>}
                \/ w = <<>> /\ o.out = <<>>
<1> DEFINE o == Scan(s, w)
<1>0. /\ s.fence \in BOOLEAN /\ s.kept \in 0..(MaxFenceLines + 1)
      /\ s.cutting \in BOOLEAN /\ s.blanks \in 0..2 /\ MaxFenceLines \in Nat
  BY TextAssumption DEF Scanners
<1>1. w \in Seq(Tokens) /\ RedactLine(w) = w /\ ~Is(w, "begin")
  BY RedactedStays DEF Written
<1>2. CASE Is(w, "fence")
  <2>1. o = [next |-> FenceLine(s), out |-> <<w>>]
    BY <1>1, <1>2 DEF Scan
  <2>2. FenceLine(s) \in Scanners /\ FenceLine(s).fence = ~s.fence /\ ~FenceLine(s).pem
    BY FenceToggles
  <2> QED
    BY <1>2, <2>1, <2>2
<1>3. CASE ~Is(w, "fence")
  <2>0. o = Content(s, w)
    BY <1>1, <1>3 DEF Scan
  <2>1. CASE s.fence /\ s.kept >= MaxFenceLines
    <3>1. o = CutLine(s)
      BY <2>0, <2>1 DEF Content
    <3>2. o.next \in Scanners /\ o.next.fence = s.fence /\ ~o.next.pem
      BY <3>1, CutKeepsFence
    <3>3. o.out = <<>> \/ o.out = << <<"cut">> >>
      BY <3>1, CutKeepsFence
    <3> HIDE DEF o
    <3> QED
      BY <1>3, <2>1, <3>2, <3>3 DEF o
  <2>2. CASE ~(s.fence /\ s.kept >= MaxFenceLines)
    <3> DEFINE t == IF s.fence THEN [s EXCEPT !.kept = @ + 1] ELSE s
    <3>1. t \in Scanners /\ t.fence = s.fence /\ ~t.pem
      BY <1>0, <2>2 DEF Scanners
    <3>2. o = IF w = <<>> THEN BlankLine(t) ELSE OtherLine(t, w)
      BY <2>0, <2>2 DEF Content
    <3> HIDE DEF t
    <3>3. o.next \in Scanners /\ o.next.fence = s.fence /\ ~o.next.pem
      BY <3>1, <3>2 DEF BlankLine, OtherLine, Scanners
    <3>4. o.out = <<w>> \/ (w = <<>> /\ o.out = <<>>)
      BY <1>1, <3>2 DEF BlankLine, OtherLine
    <3> HIDE DEF o
    <3> QED
      BY <1>3, <3>3, <3>4 DEF o
  <2> QED
    BY <2>1, <2>2
<1> QED
  BY <1>2, <1>3

\* What a line does to the counters of a fence: past MaxFenceLines the fence is
\* being cut, and the line that begins the cut leaves the marker.
Counted(s) == (s.cutting => s.fence) /\ (s.fence /\ s.kept > MaxFenceLines => s.cutting)

LEMMA CountedStays ==
  ASSUME NEW s \in Scanners, Counted(s), NEW line \in Seq(Tokens)
  PROVE  LET o == Scan(s, line)
         IN  /\ Counted(o.next)
             /\ Is(line, "fence") /\ ~s.pem => ~o.next.cutting
             /\ o.next.cutting => s.cutting \/ o.out = << <<"cut">> >>
<1> DEFINE o == Scan(s, line)
<1>0. /\ s.pem \in BOOLEAN /\ s.fence \in BOOLEAN /\ s.kept \in Nat
      /\ s.cutting \in BOOLEAN /\ s.blanks \in 0..2 /\ MaxFenceLines \in Nat
  BY TextAssumption DEF Scanners
<1>1. CASE s.pem \/ Is(line, "begin")
  <2>1. o.next = [s EXCEPT !.pem = TRUE] \/ o.next = [s EXCEPT !.pem = ~Is(line, "end")]
    BY <1>0, <1>1 DEF Scan, Is
  <2>2. \A b : LET r == [s EXCEPT !.pem = b]
               IN  r.cutting = s.cutting /\ r.fence = s.fence /\ r.kept = s.kept
    BY DEF Scanners
  <2>3. o.next.cutting = s.cutting /\ o.next.fence = s.fence /\ o.next.kept = s.kept
    <3> DEFINE p == ~Is(line, "end")
    <3> HIDE DEF o, p
    <3> QED
      BY <2>1, <2>2 DEF p
  <2>4. ~(Is(line, "fence") /\ ~s.pem)
    BY <1>1 DEF Is
  <2> HIDE DEF o
  <2> QED
    BY <2>3, <2>4 DEF Counted, o
<1>2. CASE ~s.pem /\ ~Is(line, "begin") /\ Is(line, "fence")
  <2>1. o.next = FenceLine(s)
    BY <1>2 DEF Scan
  <2>2. FenceLine(s).cutting = FALSE /\ (FenceLine(s).fence => FenceLine(s).kept = 0)
    <3>1. CASE s.fence
      BY <3>1 DEF FenceLine, Scanners
    <3>2. CASE ~s.fence
      BY <1>0, <3>2 DEF FenceLine, Scanners, Counted
    <3> QED
      BY <3>1, <3>2
  <2> QED
    BY <1>0, <2>1, <2>2 DEF Counted
<1>3. CASE ~s.pem /\ ~Is(line, "begin") /\ ~Is(line, "fence")
  <2>0. o = Content(s, line)
    BY <1>3 DEF Scan
  <2>1. CASE s.fence /\ s.kept >= MaxFenceLines
    <3>1. o.next = [s EXCEPT !.kept = MaxFenceLines + 1, !.cutting = TRUE]
      BY <2>0, <2>1 DEF Content, CutLine
    <3>2. ~s.cutting => o.out = << <<"cut">> >>
      BY <2>0, <2>1 DEF Content, CutLine
    <3>3. o.next.fence /\ o.next.cutting
      BY <2>1, <3>1 DEF Scanners
    <3> HIDE DEF o
    <3> QED
      BY <1>3, <3>2, <3>3 DEF Counted, o
  <2>2. CASE ~(s.fence /\ s.kept >= MaxFenceLines)
    <3> DEFINE t == IF s.fence THEN [s EXCEPT !.kept = @ + 1] ELSE s
    <3>1. /\ t.cutting = s.cutting /\ t.fence = s.fence
          /\ t.fence => t.kept \in Nat /\ t.kept <= MaxFenceLines
      BY <1>0, <2>2 DEF Scanners
    <3>2. o.next = [t EXCEPT !.blanks = IF @ = 2 THEN 2 ELSE @ + 1] \/ o.next = [t EXCEPT !.blanks = 0]
      BY <2>0, <2>2 DEF Content, BlankLine, OtherLine
    <3>3. t \in [DOMAIN s -> UNION {BOOLEAN, Nat}]
      BY <1>0 DEF Scanners
    <3>4. o.next.cutting = t.cutting /\ o.next.fence = t.fence /\ o.next.kept = t.kept
      BY <3>2, <3>3 DEF Scanners
    <3> HIDE DEF o, t
    <3> QED
      BY <1>0, <1>3, <2>2, <3>1, <3>4 DEF Counted, o
  <2> QED
    BY <2>1, <2>2
<1> QED
  BY <1>0, <1>1, <1>2, <1>3

-----------------------------------------------------------------------------
(* The invariant: what each phase knows. *)

TextTypes ==
  /\ pc \in {"scan", "chunk", "done"}
  /\ scanner \in Scanners /\ second \in Scanners
  /\ marked \in BOOLEAN
  /\ words \in Nat /\ start \in Nat
  /\ config \in Configs \union {NoConfig}

\* The second scanner never meets a key block, and is in code when the first is.
SecondInv ==
  /\ ~second.pem
  /\ SanitizedTwice

OutInv == out = <<>> \/ \E w : out = <<w>> /\ Written(w)

\* What was written comes of the line that was read.
ReadInv ==
  /\ read \in Seq(Tokens) /\ given \in Nat
  /\ out = <<>> \/ \E w \in Markers \cup {RedactLine(read)} : out = <<w>>

MarkInv == Counted(scanner) /\ (scanner.cutting => marked)

Chained(ws) ==
  /\ ws \in Seq(Nat \X Nat)
  /\ ws # <<>> => ws[1][1] = 0
  /\ \A i \in 1..Len(ws) : ws[i][1] < ws[i][2] /\ ws[i][2] - ws[i][1] <= Size
  /\ \A i \in 1..(Len(ws) - 1) :
       /\ ws[i][2] - ws[i + 1][1] = Overlap
       /\ ws[i][1] < ws[i + 1][1] /\ ws[i][2] < ws[i + 1][2]

WindowInv ==
  LET n == Len(windows)
  IN  /\ Chained(windows)
      /\ pc # "chunk" => start = 0
      /\ pc = "scan" => windows = <<>>
      /\ pc = "chunk" =>
           /\ start < words
           /\ windows = <<>> => start = 0
           /\ windows # <<>> =>
                /\ start = windows[n][1] + Stride
                /\ windows[n][2] = windows[n][1] + Size
                /\ windows[n][2] < words
      /\ pc = "done" /\ words > 0 => windows # <<>> /\ windows[n][2] = words

TextInv == TextTypes /\ OutInv /\ ReadInv /\ SecondInv /\ MarkInv /\ WindowInv

LEMMA StrideFits ==
  ASSUME TextTypes
  PROVE  /\ Size \in Nat \ {0} /\ Overlap \in Nat /\ Overlap < Size
         /\ Stride \in Nat \ {0} /\ Stride + Overlap = Size
<1>1. config.size \in Nat /\ config.overlap \in Nat
  BY TextAssumption DEF TextTypes, NoConfig
<1>2. Size \in Nat \ {0}
  BY <1>1 DEF Size
<1>3. Overlap \in Nat /\ Overlap < Size
  <2> DEFINE z == Size
  <2>1. z \in Nat \ {0} /\ Overlap = IF config.overlap < z THEN config.overlap ELSE z - 1
    BY <1>2 DEF Overlap
  <2> HIDE DEF z
  <2> QED
    BY <1>1, <2>1 DEF z
<1>4. Stride = Size - Overlap
  BY DEF Stride
<1> QED
  BY <1>2, <1>3, <1>4

LEMMA InitTextInv ==
  ASSUME TextInit PROVE TextInv
<1>1. Start \in Scanners /\ ~Start.pem /\ ~Start.fence /\ ~Start.cutting
  BY TextAssumption DEF Start, Scanners
<1>2. TextTypes
  BY <1>1 DEF TextInit, TextTypes
<1>3. OutInv /\ SecondInv
  BY <1>1 DEF TextInit, OutInv, SecondInv, SanitizedTwice
<1>4. MarkInv /\ ReadInv
  <2>1. <<>> \in Seq(Tokens)
    OBVIOUS
  <2> QED
    BY <1>1, <2>1 DEF TextInit, MarkInv, Counted, ReadInv
<1>5. WindowInv
  <2>1. windows = <<>> /\ start = 0 /\ pc = "scan"
    BY DEF TextInit
  <2>2. <<>> \in Seq(Nat \X Nat) /\ Len(<<>>) = 0
    OBVIOUS
  <2> QED
    BY <2>1, <2>2 DEF WindowInv, Chained
<1> QED
  BY <1>2, <1>3, <1>4, <1>5 DEF TextInv

\* The next line: the two passes.
LEMMA ReadLineStep ==
  ASSUME TextInv, NEW line \in Lines, ReadLine(line)
  PROVE  TextInv'
<1> DEFINE one == Scan(scanner, line)
           two == IF one.out = <<>> THEN [next |-> second, out |-> <<>>] ELSE Scan(second, one.out[1])
<1>1. line \in Seq(Tokens)
  BY TextAssumption
<1>2. /\ scanner \in Scanners /\ second \in Scanners /\ ~second.pem
      /\ Counted(scanner) /\ second.fence = scanner.fence
  BY DEF TextInv, TextTypes, MarkInv, SecondInv, SanitizedTwice
<1>3. Passed(scanner, one)
  BY <1>1, <1>2, FirstPass
<1>4. /\ pc = "scan" /\ scanner' = one.next /\ second' = two.next /\ out' = one.out /\ again' = two.out
      /\ marked' = IF Is(line, "fence") /\ ~scanner.pem THEN FALSE
                   ELSE marked \/ one.out = << <<"cut">> >>
      /\ words' = words + IF one.out = <<>> THEN 0 ELSE Len(one.out[1])
      /\ read' = line /\ given' = given + Len(line)
      /\ UNCHANGED <<pc, config, start, windows>>
  BY Zenon DEF ReadLine
<1>5. /\ Counted(one.next)
      /\ Is(line, "fence") /\ ~scanner.pem => ~one.next.cutting
      /\ one.next.cutting => scanner.cutting \/ one.out = << <<"cut">> >>
  BY <1>1, <1>2, CountedStays
<1> HIDE DEF one
<1>6. /\ second' \in Scanners /\ ~second'.pem /\ second'.fence = scanner'.fence
      /\ \/ again' = out'
         \/ scanner'.fence /\ again' \in {<<>>, << <<"cut">> >>}
         \/ out' = << <<>> >> /\ again' = <<>>
  <2>1. CASE one.out = <<>> /\ one.next.fence = scanner.fence
    BY <1>2, <1>4, <2>1
  <2>2. CASE \E w : /\ one.out = <<w>> /\ Written(w)
                    /\ one.next.fence = IF Is(w, "fence") THEN ~scanner.fence ELSE scanner.fence
    <3>1. PICK w : /\ one.out = <<w>> /\ Written(w)
                   /\ one.next.fence = IF Is(w, "fence") THEN ~scanner.fence ELSE scanner.fence
      BY <2>2
    <3> DEFINE o == Scan(second, w)
    <3>2. two = o
      BY <3>1
    <3>3. /\ o.next \in Scanners /\ ~o.next.pem
          /\ o.next.fence = IF Is(w, "fence") THEN ~second.fence ELSE second.fence
          /\ \/ o.out = <<w>>
             \/ second.fence /\ ~Is(w, "fence") /\ o.out \in {<<>>, << <<"cut">> >>}
             \/ w = <<>> /\ o.out = <<>>
      BY <1>2, <3>1, SecondPass
    <3>4. second' = o.next /\ again' = o.out
      BY <1>4, <3>2
    <3> HIDE DEF o, two
    <3>5. out' = <<w>> /\ scanner' = one.next
      BY <1>4, <3>1
    <3> QED
      BY <1>2, <3>1, <3>3, <3>4, <3>5
  <2> QED
    BY <1>3, <2>1, <2>2 DEF Passed
<1>7. TextTypes'
  <2>1. scanner' \in Scanners /\ second' \in Scanners
    BY <1>3, <1>4, <1>6 DEF Passed
  <2>2. words' \in Nat
    <3>1. one.out # <<>> => Len(one.out[1]) \in Nat
      BY <1>3, LenProperties DEF Passed, Written
    <3> QED
      BY <1>4, <3>1 DEF TextInv, TextTypes
  <2>3. marked' \in BOOLEAN
    BY <1>4 DEF TextInv, TextTypes
  <2> QED
    BY <1>4, <2>1, <2>2, <2>3 DEF TextInv, TextTypes
<1>8. OutInv'
  BY <1>3, <1>4 DEF Passed, OutInv
<1>12. ReadInv'
  <2>1. one.out = <<>> \/ \E w \in Markers \cup {RedactLine(line)} : one.out = <<w>>
    BY <1>1, <1>2, WhatIsWritten DEF one
  <2>2. given + Len(line) \in Nat
    BY <1>1 DEF TextInv, ReadInv
  <2> QED
    BY <1>1, <1>4, <2>1, <2>2 DEF ReadInv
<1>9. SecondInv'
  BY <1>6 DEF SecondInv, SanitizedTwice
<1>10. MarkInv'
  BY <1>4, <1>5 DEF TextInv, MarkInv
<1>11. WindowInv'
  BY <1>4 DEF TextInv, WindowInv, Chained, Size, Overlap, Stride
<1> QED
  BY <1>7, <1>8, <1>9, <1>10, <1>11, <1>12 DEF TextInv

LEMMA EndOfTextStep ==
  ASSUME TextInv, EndOfText
  PROVE  TextInv'
<1>1. /\ pc = "scan" /\ pc' = IF Composed(given, words) = 0 THEN "done" ELSE "chunk"
      /\ words' = Composed(given, words) /\ read' = <<>> /\ given' = 0 /\ scanner' = Start /\ second' = Start
      /\ out' = <<>> /\ again' = <<>> /\ marked' = FALSE /\ config' \in Configs
      /\ windows' = windows /\ start' = start
  BY DEF EndOfText
<1>2. words \in Nat /\ start = 0 /\ windows = <<>>
  BY <1>1 DEF TextInv, TextTypes, WindowInv
<1>3. Composed(given, words) \in Nat
  <2>1. given \in Nat /\ MaxDetail \in Nat
    BY TextAssumption DEF TextInv, ReadInv
  <2> QED
    BY <1>2, <2>1 DEF Composed
<1>4. Start \in Scanners /\ ~Start.pem /\ ~Start.fence /\ ~Start.cutting
  BY TextAssumption DEF Start, Scanners
<1>5. TextTypes'
  BY <1>1, <1>2, <1>3, <1>4 DEF TextTypes
<1>6. OutInv' /\ ReadInv' /\ SecondInv' /\ MarkInv'
  <2>1. <<>> \in Seq(Tokens)
    OBVIOUS
  <2> QED
    BY <1>1, <1>4, <2>1 DEF OutInv, ReadInv, SecondInv, SanitizedTwice, MarkInv, Counted
<1>7. WindowInv'
  <2>1. windows' = <<>> /\ start' = 0 /\ (pc' = "chunk" => words' > 0) /\ (pc' = "done" => words' = 0)
    BY <1>1, <1>2, <1>3
  <2>2. pc' \in {"chunk", "done"}
    BY <1>1
  <2>3. <<>> \in Seq(Nat \X Nat) /\ Len(<<>>) = 0
    OBVIOUS
  <2> QED
    BY <2>1, <2>2, <2>3 DEF WindowInv, Chained
<1> QED
  BY <1>5, <1>6, <1>7 DEF TextInv

\* One more window behind the others.
LEMMA WindowStep ==
  ASSUME TextInv, Window
  PROVE  TextInv'
<1> DEFINE n == Len(windows)
           last == IF start + Size < words THEN start + Size ELSE words
           w == <<start, last>>
<1>1. /\ pc = "chunk" /\ windows' = Append(windows, w)
      /\ IF last = words THEN pc' = "done" /\ start' = 0
         ELSE pc' = pc /\ start' = start + Stride
      /\ UNCHANGED <<scanner, second, read, out, again, marked, given, words, config>>
  BY DEF Window, IsLast
<1>2. /\ words \in Nat /\ start \in Nat /\ start < words
      /\ Size \in Nat \ {0} /\ Overlap \in Nat /\ Stride \in Nat \ {0}
      /\ Stride + Overlap = Size
  BY <1>1, StrideFits DEF TextInv, TextTypes, WindowInv
<1>3. Size' = Size /\ Overlap' = Overlap /\ Stride' = Stride
  BY <1>1 DEF Size, Overlap, Stride
<1>4. /\ last \in Nat /\ start < last /\ last - start <= Size /\ last <= words
      /\ last = start + Size \/ last = words
      /\ last # words => last = start + Size /\ last < words
  <2> DEFINE z == Size
  <2>1. z \in Nat
    BY <1>2
  <2> HIDE DEF z
  <2>2. last = IF start + z < words THEN start + z ELSE words
    BY DEF z
  <2>3. z \in Nat \ {0}
    BY <1>2 DEF z
  <2> HIDE DEF last
  <2> QED
    BY <1>2, <2>2, <2>3 DEF z
<1> HIDE DEF last
<1>5. /\ windows \in Seq(Nat \X Nat) /\ n \in Nat /\ (windows = <<>>) = (n = 0)
      /\ n > 0 => windows[1][1] = 0
      /\ n = 0 => start = 0
      /\ n > 0 => /\ start = windows[n][1] + Stride
                  /\ windows[n][2] = windows[n][1] + Size
                  /\ windows[n][2] < words
                  /\ windows[n][1] \in Nat /\ windows[n][2] \in Nat
  BY <1>1 DEF TextInv, WindowInv, Chained
<1>6. w \in Nat \X Nat
  BY <1>2, <1>4
<1> HIDE DEF w
<1>7. /\ windows' \in Seq(Nat \X Nat) /\ Len(windows') = n + 1 /\ windows'[n + 1] = w
      /\ \A i \in 1..n : windows'[i] = windows[i]
  BY <1>1, <1>5, <1>6, AppendProperties
<1>8. w[1] = start /\ w[2] = last
  BY DEF w
<1>9. Chained(windows)'
  <2>1. windows' # <<>> /\ windows'[1][1] = 0
    <3>1. CASE n = 0
      <4>1. n + 1 = 1 /\ start = 0
        BY <1>5, <3>1
      <4>2. windows'[1] = w /\ Len(windows') = 1
        BY <1>7, <4>1
      <4> QED
        BY <1>7, <1>8, <4>1, <4>2
    <3>2. CASE n > 0
      <4>1. 1 \in 1..n
        BY <1>5, <3>2
      <4> QED
        BY <1>5, <1>7, <3>2, <4>1
    <3> QED
      BY <1>5, <3>1, <3>2
  <2>2. ASSUME NEW i \in 1..(n + 1)
        PROVE  windows'[i][1] < windows'[i][2] /\ windows'[i][2] - windows'[i][1] <= Size
    <3>1. CASE i \in 1..n
      BY <1>7, <3>1 DEF TextInv, WindowInv, Chained
    <3>2. CASE i = n + 1
      BY <1>4, <1>7, <1>8, <3>2
    <3> QED
      BY <1>5, <3>1, <3>2
  <2>3. ASSUME NEW i \in 1..n
        PROVE  /\ windows'[i][2] - windows'[i + 1][1] = Overlap
               /\ windows'[i][1] < windows'[i + 1][1] /\ windows'[i][2] < windows'[i + 1][2]
    <3>1. CASE i \in 1..(n - 1)
      <4>1. i \in 1..n /\ i + 1 \in 1..n
        BY <1>5, <3>1
      <4> QED
        BY <1>7, <3>1, <4>1 DEF TextInv, WindowInv, Chained
    <3>2. CASE i = n
      <4>1. n > 0 /\ i \in 1..n
        BY <1>5, <3>2
      <4>2. windows'[i] = windows[n] /\ windows'[i + 1] = w
        BY <1>7, <3>2, <4>1
      <4>3. /\ start = windows[n][1] + Stride /\ windows[n][2] = windows[n][1] + Size
            /\ windows[n][2] < words /\ windows[n][1] \in Nat /\ windows[n][2] \in Nat
        BY <1>5, <4>1
      <4>4. /\ windows[n][2] - start = Overlap
            /\ windows[n][1] < start /\ windows[n][2] < last
        <5> DEFINE a == windows[n][1]
                   b == windows[n][2]
                   z == Size
                   p == Overlap
                   d == Stride
        <5>1. /\ start = a + d /\ b = a + z /\ b < words /\ a \in Nat /\ b \in Nat
              /\ z \in Nat \ {0} /\ p \in Nat /\ d \in Nat \ {0} /\ d + p = z
              /\ last = start + z \/ last = words
          BY <1>2, <1>4, <4>3
        <5> HIDE DEF a, b, z, p, d
        <5>2. b - start = p /\ a < start /\ b < last
          BY <1>2, <1>4, <5>1
        <5> QED
          BY <5>2 DEF a, b, p
      <4> QED
        BY <1>8, <4>2, <4>4
    <3> QED
      BY <1>5, <3>1, <3>2
  <2>4. (n + 1) - 1 = n
    BY <1>5
  <2> QED
    BY <1>3, <1>7, <2>1, <2>2, <2>3, <2>4 DEF Chained
<1>10. WindowInv'
  <2>1. CASE last = words
    <3>1. pc' = "done" /\ start' = 0 /\ words' = words
      BY <1>1, <2>1
    <3>2. windows' # <<>> /\ windows'[Len(windows')][2] = words
      BY <1>5, <1>7, <1>8, <2>1
    <3> QED
      BY <1>9, <3>1, <3>2 DEF WindowInv
  <2>2. CASE last # words
    <3>1. pc' = "chunk" /\ start' = start + Stride /\ words' = words
      BY <1>1, <2>2
    <3>2. windows' # <<>> /\ windows'[Len(windows')] = w
      BY <1>5, <1>7
    <3>3. start' < words
      BY <1>2, <1>4, <2>2, <3>1
    <3> QED
      BY <1>2, <1>3, <1>4, <1>8, <1>9, <2>2, <3>1, <3>2, <3>3 DEF WindowInv
  <2> QED
    BY <2>1, <2>2
<1>11. TextTypes'
  <2>1. pc' \in {"chunk", "done"} /\ start' \in Nat
    BY <1>1, <1>2
  <2> QED
    BY <1>1, <2>1 DEF TextInv, TextTypes
<1>12. OutInv' /\ ReadInv' /\ SecondInv' /\ MarkInv'
  BY <1>1 DEF TextInv, OutInv, ReadInv, SecondInv, SanitizedTwice, MarkInv, Counted
<1> QED
  BY <1>10, <1>11, <1>12 DEF TextInv

LEMMA DoneStep ==
  ASSUME TextInv, Done
  PROVE  TextInv'
<1>1. /\ pc = "done" /\ pc' = "scan" /\ words' = 0 /\ windows' = <<>> /\ config' = NoConfig
      /\ UNCHANGED <<scanner, second, read, out, again, marked, given, start>>
  BY DEF Done
<1>2. TextTypes'
  BY <1>1 DEF TextInv, TextTypes
<1>3. OutInv' /\ ReadInv' /\ SecondInv' /\ MarkInv'
  BY <1>1 DEF TextInv, OutInv, ReadInv, SecondInv, SanitizedTwice, MarkInv, Counted
<1>4. WindowInv'
  <2>1. <<>> \in Seq(Nat \X Nat) /\ Len(<<>>) = 0
    OBVIOUS
  <2> QED
    BY <1>1, <2>1 DEF TextInv, WindowInv, Chained
<1> QED
  BY <1>2, <1>3, <1>4 DEF TextInv

-----------------------------------------------------------------------------
(* The theorems. *)

\* Every phase keeps what it knows.
THEOREM TextInvariant == TextSpec => []TextInv
<1>1. TextInit => TextInv
  BY InitTextInv
<1>2. TextInv /\ [TextNext]_textVars => TextInv'
  <2> SUFFICES ASSUME TextInv, [TextNext]_textVars PROVE TextInv'
    OBVIOUS
  <2>1. ASSUME NEW line \in Lines, ReadLine(line) PROVE TextInv'
    BY <2>1, ReadLineStep
  <2>2. CASE EndOfText
    BY <2>2, EndOfTextStep
  <2>3. CASE Window
    BY <2>3, WindowStep
  <2>4. CASE Done
    BY <2>4, DoneStep
  <2>5. CASE UNCHANGED textVars
    BY <2>5 DEF textVars, TextInv, TextTypes, OutInv, ReadInv, SecondInv, SanitizedTwice, MarkInv, Counted,
                WindowInv, Chained, Size, Overlap, Stride
  <2> QED
    BY <2>1, <2>2, <2>3, <2>4, <2>5 DEF TextNext
<1> QED
  BY <1>1, <1>2, PTL DEF TextSpec

\* If a value is awaited before a token, an arming token came before it, with
\* nothing but separators in between.
LEMMA ArmedByKey ==
  ASSUME NEW line \in Seq(Tokens), NEW armed \in [0..Len(line) -> BOOLEAN], armed[0] = FALSE,
         \A i \in 1..Len(line) : armed[i] = ArmedAfter(armed[i - 1], line[i])
  PROVE  \A m \in 0..Len(line) :
           armed[m] => \E i \in 1..m : Arms(line[i]) /\ \A l \in (i + 1)..m : line[l] = "sep"
<1> DEFINE n == Len(line)
           key(m) == \E i \in 1..m : Arms(line[i]) /\ \A l \in (i + 1)..m : line[l] = "sep"
           S == {m \in Nat : m <= n => (armed[m] => key(m))}
<1>0. n \in Nat
  OBVIOUS
<1>1. 0 \in S
  OBVIOUS
<1>2. ASSUME NEW m \in Nat, m \in S PROVE m + 1 \in S
  <2> SUFFICES ASSUME m + 1 <= n, armed[m + 1] PROVE key(m + 1)
    OBVIOUS
  <2>1. m + 1 \in 1..n /\ (m + 1) - 1 = m /\ m \in 0..n
    BY <1>0
  <2>2. armed[m + 1] = ArmedAfter(armed[m], line[m + 1]) /\ armed[m] \in BOOLEAN
    BY <2>1
  <2>3. CASE armed[m] /\ line[m + 1] = "sep"
    <3>1. PICK i \in 1..m : Arms(line[i]) /\ \A l \in (i + 1)..m : line[l] = "sep"
      BY <1>2, <2>1, <2>3
    <3>2. \A l \in (i + 1)..(m + 1) : l \in (i + 1)..m \/ l = m + 1
      OBVIOUS
    <3>3. i \in 1..(m + 1) /\ \A l \in (i + 1)..(m + 1) : line[l] = "sep"
      BY <2>3, <3>1, <3>2
    <3> QED
      BY <3>1, <3>3
  <2>4. CASE ~(armed[m] /\ line[m + 1] = "sep")
    <3>1. Arms(line[m + 1])
      BY <2>2, <2>4 DEF ArmedAfter
    <3>2. m + 1 \in 1..(m + 1) /\ \A l \in ((m + 1) + 1)..(m + 1) : line[l] = "sep"
      OBVIOUS
    <3> QED
      BY <3>1, <3>2
  <2> QED
    BY <2>3, <2>4
<1>3. \A m \in Nat : m \in S
  <2> HIDE DEF S
  <2> QED
    BY <1>1, <1>2, AllNumbers
<1> QED
  BY <1>3

\* Behind a token that arms the scanner it stays armed while separators follow.
LEMMA StaysArmed ==
  ASSUME NEW line \in Seq(Tokens), NEW armed \in [0..Len(line) -> BOOLEAN],
         \A i \in 1..Len(line) : armed[i] = ArmedAfter(armed[i - 1], line[i]),
         NEW j \in 1..Len(line), NEW k \in 1..(j - 1), armed[k],
         \A l \in (k + 1)..(j - 1) : line[l] = "sep"
  PROVE  armed[j - 1]
<1> DEFINE S == {m \in Nat : k + m <= j - 1 => armed[k + m]}
<1>0. Len(line) \in Nat /\ j \in Nat /\ k \in Nat /\ j - 1 <= Len(line)
  OBVIOUS
<1>1. 0 \in S
  BY <1>0
<1>2. ASSUME NEW m \in Nat, m \in S PROVE m + 1 \in S
  <2> SUFFICES ASSUME k + (m + 1) <= j - 1 PROVE armed[k + (m + 1)]
    OBVIOUS
  <2> DEFINE i == k + (m + 1)
  <2>1. /\ i \in 1..Len(line) /\ i - 1 = k + m /\ k + m <= j - 1 /\ i \in (k + 1)..(j - 1)
    BY <1>0
  <2> HIDE DEF i
  <2>2. armed[i] = ArmedAfter(armed[i - 1], line[i]) /\ line[i] = "sep" /\ armed[i - 1]
    BY <1>2, <2>1
  <2>3. armed[i]
    BY <2>2 DEF ArmedAfter
  <2> QED
    BY <2>3 DEF i
<1>3. \A m \in Nat : m \in S
  <2> HIDE DEF S
  <2> QED
    BY <1>1, <1>2, AllNumbers
<1> DEFINE m == (j - 1) - k
<1>4. m \in Nat /\ k + m = j - 1
  BY <1>0
<1>5. armed[k + m]
  <2> HIDE DEF m
  <2> QED
    BY <1>0, <1>3, <1>4
<1> QED
  BY <1>4, <1>5

\* Whatever the lines of a text are: nothing shaped like a credential is written
\* as it was read, nor anything that looks like one behind a key, unless that
\* key was itself taken for the value of another.
THEOREM SanitizerLeaksNothing == TextSpec => []NothingLeaks
<1>1. TextInv => NothingLeaks
  <2> SUFFICES ASSUME ReadInv, NEW j \in DOMAIN read, Value(j), Survives(j)
               PROVE  /\ read[j] \notin {"secret", "assign", "padded"}
                      /\ \A k \in 1..(j - 1) : Behind(j, k) => Taken(k)
    BY DEF TextInv, NothingLeaks
  <2>1. PICK w \in Markers \cup {RedactLine(read)} : out = <<w>>
    BY DEF ReadInv, Survives
  <2>2. j \in DOMAIN w /\ w[j] = read[j] /\ out[1] = w /\ read \in Seq(Tokens)
    BY <2>1 DEF Survives, ReadInv
  <2>3. w = RedactLine(read)
    <3>1. Looks(w[j]) /\ w[j] # "redacted"
      BY <2>2 DEF Value
    <3>2. w \notin Markers
      BY <2>2, <3>1 DEF Markers, Looks
    <3> QED
      BY <3>2
  <2>4. PICK armed \in [0..Len(read) -> BOOLEAN] :
           /\ armed[0] = FALSE
           /\ \A i \in 1..Len(read) : /\ w[i] = Becomes(armed[i - 1], read[i])
                                      /\ armed[i] = ArmedAfter(armed[i - 1], read[i])
    BY <2>2, <2>3, TokenByToken
  <2>5. j \in 1..Len(read) /\ Len(read) \in Nat /\ j - 1 \in 0..Len(read) /\ DOMAIN w = 1..Len(read)
    <3>1. w \in Seq(Tokens) /\ Len(w) = Len(read)
      BY <2>2, <2>3, RedactLineRedacts
    <3> QED
      BY <2>2, <3>1
  <2>6. ~armed[j - 1] /\ read[j] = Alone(read[j])
    <3>1. read[j] = Becomes(armed[j - 1], read[j]) /\ Looks(read[j]) /\ read[j] # "redacted"
      BY <2>2, <2>4, <2>5 DEF Value
    <3> QED
      BY <3>1 DEF Becomes, Looks
  <2>7. read[j] \notin {"secret", "assign", "padded"}
    BY <2>6 DEF Alone
  <2>8. ASSUME NEW k \in 1..(j - 1), Behind(j, k) PROVE Taken(k)
    <3>1. k \in 1..Len(read) /\ k - 1 \in 0..Len(read) /\ Arms(read[k])
          /\ \A l \in (k + 1)..(j - 1) : read[l] = "sep"
      BY <2>5, <2>8 DEF Behind
    <3>2. ~armed[k]
      BY <2>2, <2>4, <2>5, <2>6, <3>1, StaysArmed
    <3>3. armed[k] = ArmedAfter(armed[k - 1], read[k]) /\ w[k] = Becomes(armed[k - 1], read[k])
      BY <2>4, <3>1
    <3>4. armed[k - 1] /\ w[k] = "redacted" /\ read[k] # "redacted"
      BY <3>1, <3>2, <3>3 DEF ArmedAfter, Becomes, Arms
    <3>5. PICK i \in 1..(k - 1) : Arms(read[i]) /\ \A l \in (i + 1)..(k - 1) : read[l] = "sep"
      <4> DEFINE m == k - 1
      <4>1. m \in 0..Len(read) /\ armed[m] = TRUE
        BY <3>1, <3>4
      <4> HIDE DEF m
      <4>2. \E i \in 1..m : Arms(read[i]) /\ \A l \in (i + 1)..m : read[l] = "sep"
        BY <2>2, <2>4, <4>1, ArmedByKey
      <4> QED
        BY <4>2 DEF m
    <3> QED
      BY <2>2, <3>4, <3>5 DEF Taken, Survives, Behind
  <2> QED
    BY <2>7, <2>8
<1> QED
  BY <1>1, TextInvariant, PTL

\* A second pass of the sanitizer rewrites no line of the first and agrees with
\* it on what is code.
THEOREM SanitizingTwiceIsStable == TextSpec => []SanitizedTwice
<1>1. TextInv => SanitizedTwice
  BY DEF TextInv, SecondInv
<1> QED
  BY <1>1, TextInvariant, PTL

\* A code block that lost lines has its marker.
THEOREM TruncationsAreMarked == TextSpec => []TruncationIsMarked
<1>1. TextInv => TruncationIsMarked
  BY DEF TextInv, MarkInv, Counted, TruncationIsMarked
<1> QED
  BY <1>1, TextInvariant, PTL

\* Whatever the size and the overlap a collection is configured with, the windows
\* of a text cover it without a gap.
THEOREM WindowsCoverTheText == TextSpec => []WindowsCover
<1>1. TextInv => WindowsCover
  <2> SUFFICES ASSUME WindowInv, pc = "done", words > 0
               PROVE  LET n == Len(windows)
                      IN  /\ windows[1][1] = 0 /\ windows[n][2] = words
                          /\ \A i \in 1..n : windows[i][1] < windows[i][2] /\ windows[i][2] - windows[i][1] <= Size
                          /\ \A i \in 1..(n - 1) :
                               /\ windows[i][2] - windows[i + 1][1] = Overlap
                               /\ windows[i][1] < windows[i + 1][1] /\ windows[i][2] < windows[i + 1][2]
    BY DEF TextInv, WindowsCover
  <2> QED
    BY DEF WindowInv, Chained
<1> QED
  BY <1>1, TextInvariant, PTL

-----------------------------------------------------------------------------
(* What is stored, and what a search finds of it. *)

Entries == [text : Texts, setup : Setups, profile : {Profile(s) : s \in Setups}]

\* A document was cut and embedded under the profile it is stored with.
StoredInv ==
  /\ setup \in Setups
  /\ stored \in [Docs -> Entries \cup {NoDoc}]
  /\ \A d \in Docs : stored[d] # NoDoc => stored[d].profile = Profile(stored[d].setup)

LEMMA FiniteImage ==
  ASSUME NEW S, IsFiniteSet(S), NEW f
  PROVE  IsFiniteSet({f[x] : x \in S})
<1> DEFINE T == {f[x] : x \in S}
           g == [x \in S |-> f[x]]
<1>1. g \in Surjection(S, T)
  BY DEF Surjection
<1> HIDE DEF g, T
<1>2. IsFiniteSet(T)
  BY <1>1, FS_Surjection
<1> QED
  BY <1>2 DEF T

LEMMA GreatestIn ==
  ASSUME NEW S, S \subseteq Nat, IsFiniteSet(S), S # {}
  PROVE  Max(S) \in S /\ \A s \in S : s <= Max(S)
<1> DEFINE above(s) == {e \in S : e > s}
           T == {above(s) : s \in S}
<1>1. IsWellFoundedOn(StrictSubsetOrdering(S), SUBSET S)
  BY FS_StrictSubsetOrderingWellFounded, FS_FiniteSubsetsOfFinite
<1>2. T \subseteq SUBSET S /\ T # {}
  OBVIOUS
<1> HIDE DEF T
<1>3. PICK x \in T : \A y \in T : ~ (<<y, x>> \in StrictSubsetOrdering(S))
  BY <1>1, <1>2, WFMin
<1>4. PICK m \in S : x = above(m)
  BY DEF T
<1>5. ASSUME NEW s \in S, s > m PROVE FALSE
  <2>0. \A e \in S : e \in Nat
    OBVIOUS
  <2>1. above(s) \subseteq above(m) /\ s \in above(m) /\ s \notin above(s)
    <3>1. \A e \in above(s) : e \in S /\ e > m
      BY <1>5, <2>0
    <3>2. s \in above(m) /\ s \notin above(s)
      BY <1>5, <2>0
    <3> QED
      BY <3>1, <3>2
  <2>2. above(s) \in T /\ above(s) \in SUBSET S /\ above(m) \in SUBSET S
    BY DEF T
  <2> HIDE DEF above
  <2>3. <<above(s), above(m)>> \in StrictSubsetOrdering(S)
    BY <2>1, <2>2 DEF StrictSubsetOrdering
  <2> QED
    BY <1>3, <1>4, <2>2, <2>3
<1>6. \A e \in S : e <= m
  BY <1>5
<1>7. Max(S) = m
  BY <1>6, MaxOf
<1> QED
  BY <1>6, <1>7

\* Two setups of one profile are the same: model, version, tag and dimension
\* identify an encoder.
LEMMA ProfilesIdentify ==
  ASSUME NEW a \in Setups, NEW b \in Setups, Profile(a) = Profile(b)
  PROVE  a = b
<1>1. /\ a = [chunking |-> a.chunking, encoder |-> a.encoder]
      /\ b = [chunking |-> b.chunking, encoder |-> b.encoder]
      /\ a.encoder \in Encoders \cup {NoEncoder} /\ b.encoder \in Encoders \cup {NoEncoder}
  BY RetrievalAssumption DEF SetupType
<1>2. ASSUME NEW s \in {a, b}
      PROVE  /\ Profile(s)[1] = s.chunking
             /\ s.encoder = NoEncoder => Len(Profile(s)) = 1
             /\ s.encoder # NoEncoder =>
                  /\ Len(Profile(s)) = 5
                  /\ <<Profile(s)[2], Profile(s)[3], Profile(s)[4], Profile(s)[5]>> =
                     <<s.encoder.model, s.encoder.version, s.encoder.tag, s.encoder.dim>>
  BY DEF Profile
<1>3. a.chunking = b.chunking
  BY <1>2
<1>4. a.encoder = NoEncoder <=> b.encoder = NoEncoder
  BY <1>2
<1>5. CASE a.encoder # NoEncoder
  <2>1. <<a.encoder.model, a.encoder.version, a.encoder.tag, a.encoder.dim>> =
        <<b.encoder.model, b.encoder.version, b.encoder.tag, b.encoder.dim>>
    BY <1>2, <1>4, <1>5
  <2>2. a.encoder = b.encoder
    BY <1>1, <1>4, <1>5, <2>1, RetrievalAssumption
  <2> QED
    BY <1>1, <1>3, <2>2
<1> QED
  BY <1>1, <1>3, <1>4, <1>5

\* The chunks of what is stored.
LEMMA RecordType ==
  ASSUME StoredInv, NEW rec \in Records
  PROVE  /\ rec[1] \in Docs /\ stored[rec[1]] \in Entries
         /\ rec = <<rec[1], rec[2]>>
         /\ rec[2] \in 0 .. Len(ChunksOf(rec[1]))
<1>1. PICK d \in {e \in Docs : stored[e] # NoDoc} :
           rec \in {<<d, i>> : i \in 0 .. Len(ChunksOf(d))}
  BY DEF Records
<1>2. PICK i \in 0 .. Len(ChunksOf(d)) : rec = <<d, i>>
  BY <1>1
<1> QED
  BY <1>1, <1>2 DEF StoredInv

LEMMA RecordsAreFinite ==
  ASSUME StoredInv
  PROVE  IsFiniteSet(Records)
<1> DEFINE D == {e \in Docs : stored[e] # NoDoc}
           f == [d \in D |-> {<<d, i>> : i \in 0 .. Len(ChunksOf(d))}]
<1>1. IsFiniteSet(D)
  BY ScoreAssumption, FS_Subset
<1>2. ASSUME NEW d \in D PROVE IsFiniteSet(f[d])
  <2> DEFINE n == Len(ChunksOf(d))
             g == [i \in 0 .. n |-> <<d, i>>]
  <2>1. n \in Nat
    BY ScoreAssumption DEF ChunksOf, StoredInv, Entries
  <2> HIDE DEF n
  <2>2. IsFiniteSet(0 .. n)
    BY <2>1, FS_Interval
  <2>3. {g[i] : i \in 0 .. n} = {<<d, i>> : i \in 0 .. n}
    OBVIOUS
  <2> HIDE DEF g
  <2>4. IsFiniteSet({g[i] : i \in 0 .. n})
    BY <2>2, FiniteImage
  <2> QED
    BY <2>3, <2>4 DEF n
<1>3. Records = UNION {f[d] : d \in D}
  <2>1. {f[d] : d \in D} = {{<<d, i>> : i \in 0 .. Len(ChunksOf(d))} : d \in D}
    OBVIOUS
  <2> HIDE DEF f
  <2> QED
    BY <2>1 DEF Records
<1> HIDE DEF f, D
<1>4. IsFiniteSet({f[d] : d \in D})
  BY <1>1, FiniteImage
<1>5. \A T \in {f[d] : d \in D} : IsFiniteSet(T)
  BY <1>2
<1> QED
  BY <1>3, <1>4, <1>5, FS_UNION

\* Every match has a positive score, and a cosine.
LEMMA ScoreType ==
  ASSUME StoredInv, NEW r \in Requests, NEW rec \in Matching(r.query)
  PROVE  /\ rec \in Records
         /\ RawScore(r.query, rec) \in Nat /\ RawScore(r.query, rec) > 0
         /\ rec[2] # Sentinel => RawScore(r.query, rec) \in Nat
<1>1. rec \in Records /\ RawScore(r.query, rec) > 0
  BY DEF Matching
<1>2. rec[2] # Sentinel => Raw(r.query, ChunksOf(rec[1])[rec[2]]) \in Nat
  <2>1. ASSUME rec[2] # Sentinel PROVE rec[2] \in 1 .. Len(ChunksOf(rec[1]))
    <3>1. Len(ChunksOf(rec[1])) \in Nat
      BY <1>1, RecordType, ScoreAssumption DEF ChunksOf, Entries
    <3> QED
      BY <1>1, <2>1, <3>1, RecordType DEF Sentinel
  <2>2. stored[rec[1]].text \in Texts /\ stored[rec[1]].setup \in Setups
    BY <1>1, RecordType DEF Entries
  <2> QED
    BY <2>1, <2>2, ScoreAssumption DEF ChunksOf
<1>3. RawScore(r.query, rec) \in Nat
  BY <1>2 DEF RawScore
<1> QED
  BY <1>1, <1>3

-----------------------------------------------------------------------------
(* The answers. *)

Good(r) == {rec \in Matching(r.query) : Passes(r, rec)}

Fits(r) ==
  Cardinality(Matching(r.query)) <=
    IF r.filter = NoFilter /\ r.exclude = {} /\ ~Dense(r) THEN r.topK
    ELSE Least(r.topK * PostprocessOverfetch, MaxOverfetch)

CosineOf(r, rec) ==
  LET vector == stored[rec[1]].setup.encoder
  IN  IF ~Dense(r) \/ vector = NoEncoder THEN Unit \div 2
      ELSE IF vector.dim # setup.encoder.dim THEN Unit \div 2
      ELSE Cosine(setup.encoder, vector, r.query, ChunksOf(rec[1])[rec[2]])

Worse(r, a, b) ==
  /\ RawScore(r.query, a) < RawScore(r.query, b)
  /\ CosineOf(r, a) <= CosineOf(r, b)
  /\ r.alpha = 0 => CosineOf(r, a) < CosineOf(r, b)

RawOf(r) == [rec \in Matching(r.query) |-> RawScore(r.query, rec)]

TopOf(r, T) == IF T = {} THEN 0 ELSE Max({RawOf(r)[rec] : rec \in T})

\* The scores that what was fetched is ordered by.
ScoreOf(r, T) ==
  IF Dense(r)
  THEN [rec \in {c \in T : Passes(r, c)} |->
          r.alpha * RawOf(r)[rec] * Unit + (Unit - r.alpha) * CosineUnit(r.query, rec) * TopOf(r, T)]
  ELSE RawOf(r)

LEMMA AnswerParts ==
  ASSUME NEW r, NEW hits \in Answers(r)
  PROVE  \E T \in Best(Matching(r.query), FetchLimit(r), RawOf(r)) :
           \E K \in Best({rec \in T : Passes(r, rec)}, r.topK, ScoreOf(r, T)) :
             hits \in Orders(K, ScoreOf(r, T))
<1> DEFINE kept(T) == {rec \in T : Passes(r, rec)}
           answers(T) == UNION {Orders(K, ScoreOf(r, T)) : K \in Best(kept(T), r.topK, ScoreOf(r, T))}
<1>1. Answers(r) = UNION {answers(T) : T \in Best(Matching(r.query), FetchLimit(r), RawOf(r))}
  BY DEF Answers, RawOf, ScoreOf, TopOf
<1>2. PICK T \in Best(Matching(r.query), FetchLimit(r), RawOf(r)) : hits \in answers(T)
  <2> HIDE DEF answers
  <2> QED
    BY <1>1
<1> QED
  BY <1>2

LEMMA LeastType ==
  ASSUME NEW a \in Nat, NEW b \in Nat
  PROVE  Least(a, b) \in Nat /\ Least(a, b) <= a /\ Least(a, b) <= b
         /\ Least(a, b) \in {a, b}
  BY DEF Least

\* The best n of a finite set, all of it if there are no more.
LEMMA BestType ==
  ASSUME NEW S, IsFiniteSet(S), NEW n \in Nat, NEW score, NEW T \in Best(S, n, score)
  PROVE  /\ T \subseteq S /\ IsFiniteSet(T) /\ Cardinality(T) = Least(n, Cardinality(S))
         /\ Cardinality(T) <= n
         /\ Cardinality(S) <= n => T = S
         /\ \A a \in T, b \in S \ T : score[a] >= score[b]
<1>1. T \in SUBSET S /\ Cardinality(T) = Least(n, Cardinality(S))
      /\ \A a \in T, b \in S \ T : score[a] >= score[b]
  BY DEF Best
<1>2. Cardinality(S) \in Nat /\ IsFiniteSet(T)
  BY <1>1, FS_Subset, FS_CardinalityType
<1>3. Cardinality(T) <= n /\ (Cardinality(S) <= n => Cardinality(T) = Cardinality(S))
  BY <1>1, <1>2 DEF Least
<1>4. Cardinality(S) <= n => T = S
  BY <1>1, <1>3, FS_Subset
<1> QED
  BY <1>1, <1>2, <1>3, <1>4

\* An order of a set lists it once.
LEMMA OrderType ==
  ASSUME NEW K, IsFiniteSet(K), NEW score, NEW o \in Orders(K, score)
  PROVE  /\ Len(o) = Cardinality(K) /\ DOMAIN o = 1 .. Cardinality(K) /\ Cardinality(K) \in Nat
         /\ ToSet(o) = K
         /\ IsInjective(o)
         /\ \A i, j \in DOMAIN o : i < j => score[o[i]] >= score[o[j]]
<1> DEFINE n == Cardinality(K)
<1>0. n \in Nat
  BY FS_CardinalityType
<1>1. /\ o \in [1 .. n -> K] /\ \A i, j \in 1 .. n : i # j => o[i] # o[j]
      /\ \A i, j \in DOMAIN o : i < j => score[o[i]] >= score[o[j]]
  BY DEF Orders, SetToSeqs
<1>2. o \in Injection(1 .. n, K)
  BY <1>1 DEF Injection, IsInjective
<1>3. Cardinality(1 .. n) = n
  BY <1>0, FS_Interval
<1> HIDE DEF n
<1>4. o \in Surjection(1 .. n, K)
  BY <1>2, <1>3, FS_Injection DEF n
<1>5. ToSet(o) = K
  BY <1>1, <1>4 DEF Surjection, ToSet
<1>6. IsInjective(o) /\ Len(o) = n /\ DOMAIN o = 1 .. n
  BY <1>0, <1>1 DEF IsInjective
<1> QED
  BY <1>0, <1>1, <1>5, <1>6 DEF n

\* A sum weighs both scores, and alpha gives neither a negative weight.
LEMMA WeightedSum ==
  ASSUME NEW u \in Nat, NEW alpha \in Nat, alpha < u, NEW m \in Nat, m > 0,
         NEW ra \in Nat, NEW rb \in Nat, ra < rb, NEW ca \in Nat, NEW cb \in Nat, ca <= cb,
         alpha = 0 => ca < cb
  PROVE  alpha * ra * u + (u - alpha) * ca * m < alpha * rb * u + (u - alpha) * cb * m
<1> DEFINE w == u - alpha
<1>1. w \in Nat /\ w > 0 /\ u > 0
  OBVIOUS
<1>2. \A x, y, z \in Nat : x <= y => z * x <= z * y
  OBVIOUS
<1>3. \A x, y, z \in Nat : x < y /\ z > 0 => z * x < z * y
  OBVIOUS
<1>4. \A x, y \in Nat : x * y \in Nat /\ x * y = y * x
  OBVIOUS
<1> HIDE DEF w
<1>5. /\ alpha * ra \in Nat /\ alpha * rb \in Nat /\ w * ca \in Nat /\ w * cb \in Nat
      /\ alpha * ra <= alpha * rb /\ w * ca <= w * cb
      /\ alpha > 0 => alpha * ra < alpha * rb
      /\ alpha = 0 => w * ca < w * cb
  BY <1>1, <1>2, <1>3, <1>4
<1> DEFINE a1 == alpha * ra
           b1 == alpha * rb
           a2 == w * ca
           b2 == w * cb
<1>6. /\ a1 \in Nat /\ b1 \in Nat /\ a2 \in Nat /\ b2 \in Nat /\ a1 <= b1 /\ a2 <= b2
      /\ a1 < b1 \/ a2 < b2
  BY <1>5
<1> HIDE DEF a1, b1, a2, b2
<1>7. /\ u * a1 \in Nat /\ u * b1 \in Nat /\ m * a2 \in Nat /\ m * b2 \in Nat
      /\ u * a1 <= u * b1 /\ m * a2 <= m * b2
      /\ a1 < b1 => u * a1 < u * b1
      /\ a2 < b2 => m * a2 < m * b2
  BY <1>1, <1>2, <1>3, <1>4, <1>6
<1>8. a1 * u = u * a1 /\ b1 * u = u * b1 /\ a2 * m = m * a2 /\ b2 * m = m * b2
  BY <1>4, <1>6
<1>9. a1 * u + a2 * m < b1 * u + b2 * m
  BY <1>6, <1>7, <1>8
<1> QED
  BY <1>9 DEF a1, b1, a2, b2, w

LEMMA CosineType ==
  ASSUME StoredInv, NEW r \in Requests, Dense(r), ~SearchFails(r), NEW rec \in Good(r)
  PROVE  CosineUnit(r.query, rec) = CosineOf(r, rec) /\ CosineOf(r, rec) \in Nat
<1>1. rec \in Records /\ rec[2] # Sentinel
  BY DEF Good, Matching, Passes
<1>2. rec[2] \in 1 .. Len(ChunksOf(rec[1]))
  <2>1. Len(ChunksOf(rec[1])) \in Nat
    BY <1>1, RecordType, ScoreAssumption DEF ChunksOf, Entries
  <2> QED
    BY <1>1, <2>1, RecordType DEF Sentinel
<1>3. stored[rec[1]].text \in Texts /\ stored[rec[1]].setup \in Setups
  BY <1>1, RecordType DEF Entries
<1>4. /\ stored[rec[1]].setup.encoder \in Encoders \cup {NoEncoder}
      /\ setup.encoder \in Encoders
  <2>1. \A s \in Setups : s.encoder \in Encoders \cup {NoEncoder}
    BY RetrievalAssumption DEF SetupType
  <2> QED
    BY <1>3, <2>1 DEF StoredInv, SearchFails
<1>5. CosineUnit(r.query, rec) = CosineOf(r, rec)
  BY DEF CosineUnit, CosineOf
<1>6. Unit \div 2 \in Nat /\ Unit \in Nat
  BY RetrievalAssumption
<1>7. stored[rec[1]].setup.encoder # NoEncoder =>
        Cosine(setup.encoder, stored[rec[1]].setup.encoder, r.query, ChunksOf(rec[1])[rec[2]]) \in Nat
  <2> DEFINE rest == stored[rec[1]]
             chunk == Cut(rest.text, rest.setup.chunking)[rec[2]]
  <2>1. rec[2] \in 1 .. Len(Cut(rest.text, rest.setup.chunking))
    BY <1>2 DEF ChunksOf
  <2>2. \A e, f \in Encoders : Cosine(e, f, r.query, chunk) \in 0 .. Unit
    BY <1>3, <2>1, ScoreAssumption
  <2> HIDE DEF chunk
  <2>3. \A e, f \in Encoders : Cosine(e, f, r.query, chunk) \in Nat
    BY <1>6, <2>2
  <2> QED
    BY <1>4, <2>3 DEF chunk, ChunksOf
<1> QED
  BY <1>5, <1>6, <1>7 DEF CosineOf

LEMMA LimitType ==
  ASSUME NEW r \in Requests
  PROVE  /\ FetchLimit(r) \in Nat /\ r.topK \in Nat
         /\ Fits(r) /\ Cardinality(Matching(r.query)) \in Nat =>
              Cardinality(Matching(r.query)) <= FetchLimit(r)
<1> DEFINE over == r.topK * PostprocessOverfetch
<1>1. r.topK \in Nat /\ over \in Nat /\ MaxOverfetch \in Nat
  BY ScoreAssumption
<1> HIDE DEF over
<1>2. Least(over, MaxOverfetch) \in Nat
  BY <1>1, LeastType
<1>3. FetchLimit(r) = Most(1, IF r.filter # NoFilter \/ r.exclude # {} \/ Dense(r)
                              THEN Least(over, MaxOverfetch) ELSE r.topK)
  BY DEF FetchLimit, over
<1>4. Fits(r) <=> Cardinality(Matching(r.query)) <=
                    IF r.filter # NoFilter \/ r.exclude # {} \/ Dense(r)
                    THEN Least(over, MaxOverfetch) ELSE r.topK
  BY Zenon DEF Fits, over
<1> QED
  BY <1>1, <1>2, <1>3, <1>4 DEF Most

\* A hit that is worse than another has a smaller score.
LEMMA WorseScores ==
  ASSUME StoredInv, NEW r \in Requests, ~SearchFails(r),
         NEW T \in SUBSET Matching(r.query), IsFiniteSet(T),
         NEW a \in T, NEW b \in T, Passes(r, a), Passes(r, b), Worse(r, a, b)
  PROVE  ScoreOf(r, T)[a] \in Nat /\ ScoreOf(r, T)[b] \in Nat
         /\ ScoreOf(r, T)[a] < ScoreOf(r, T)[b]
<1>1. /\ RawOf(r)[a] = RawScore(r.query, a) /\ RawOf(r)[b] = RawScore(r.query, b)
      /\ RawOf(r)[a] \in Nat /\ RawOf(r)[b] \in Nat /\ RawOf(r)[a] < RawOf(r)[b]
  BY ScoreType DEF RawOf, Worse
<1>2. CASE ~Dense(r)
  BY <1>1, <1>2 DEF ScoreOf
<1>3. CASE Dense(r)
  <2>1. a \in Good(r) /\ b \in Good(r)
    BY DEF Good
  <2>2. /\ CosineUnit(r.query, a) = CosineOf(r, a) /\ CosineOf(r, a) \in Nat
        /\ CosineUnit(r.query, b) = CosineOf(r, b) /\ CosineOf(r, b) \in Nat
    BY <1>3, <2>1, CosineType
  <2>3. r.alpha \in Nat /\ Unit \in Nat /\ r.alpha < Unit
    <3>1. r.alpha \in Int /\ ~(r.alpha < 0) /\ r.alpha < Unit
      BY <1>3, ScoreAssumption DEF Dense, SearchFails
    <3> QED
      BY <3>1, RetrievalAssumption
  <2>4. TopOf(r, T) \in Nat /\ TopOf(r, T) > 0
    <3> DEFINE raws == {RawOf(r)[rec] : rec \in T}
    <3>1. \A x \in raws : x \in Nat /\ x > 0
      BY ScoreType DEF RawOf
    <3> HIDE DEF raws
    <3>2. IsFiniteSet(raws)
      BY FiniteImage DEF raws
    <3>3. raws # {}
      BY DEF raws
    <3>4. Max(raws) \in raws
      BY <3>1, <3>2, <3>3, GreatestIn
    <3>5. TopOf(r, T) = Max(raws)
      BY DEF TopOf, raws
    <3> QED
      BY <3>1, <3>4, <3>5
  <2>5. /\ ScoreOf(r, T)[a] = r.alpha * RawOf(r)[a] * Unit + (Unit - r.alpha) * CosineUnit(r.query, a) * TopOf(r, T)
        /\ ScoreOf(r, T)[b] = r.alpha * RawOf(r)[b] * Unit + (Unit - r.alpha) * CosineUnit(r.query, b) * TopOf(r, T)
    BY <1>3 DEF ScoreOf
  <2> DEFINE al == r.alpha
             m == TopOf(r, T)
             ra == RawOf(r)[a]
             rb == RawOf(r)[b]
             ca == CosineOf(r, a)
             cb == CosineOf(r, b)
  <2>6. ca <= cb /\ (al = 0 => ca < cb)
    BY DEF Worse
  <2>7. al \in Nat /\ m \in Nat /\ m > 0 /\ ra \in Nat /\ rb \in Nat /\ ra < rb /\ ca \in Nat
        /\ cb \in Nat /\ Unit \in Nat /\ al < Unit
    BY <1>1, <2>2, <2>3, <2>4
  <2>8. /\ ScoreOf(r, T)[a] = al * ra * Unit + (Unit - al) * ca * m
        /\ ScoreOf(r, T)[b] = al * rb * Unit + (Unit - al) * cb * m
    BY <2>2, <2>5
  <2> HIDE DEF al, m, ra, rb, ca, cb
  <2>9. al * ra * Unit + (Unit - al) * ca * m < al * rb * Unit + (Unit - al) * cb * m
    BY <2>6, <2>7, WeightedSum
  <2>10. al * ra * Unit + (Unit - al) * ca * m \in Nat /\ al * rb * Unit + (Unit - al) * cb * m \in Nat
    <3>1. \A x, y, z \in Nat : x * y * z \in Nat
      OBVIOUS
    <3>2. Unit - al \in Nat
      BY <2>7
    <3>3. /\ al * ra * Unit \in Nat /\ (Unit - al) * ca * m \in Nat
          /\ al * rb * Unit \in Nat /\ (Unit - al) * cb * m \in Nat
      BY <2>7, <3>1, <3>2
    <3> QED
      BY <3>3
  <2> QED
    BY <2>8, <2>9, <2>10
<1> QED
  BY <1>2, <1>3

\* What a search answers, of the records there are when it reads them.
LEMMA AnswersAreBest ==
  ASSUME StoredInv, NEW r \in Requests, ~SearchFails(r), NEW hits \in Answers(r)
  PROVE  /\ ToSet(hits) \subseteq Good(r)
         /\ Len(hits) <= r.topK
         /\ IsInjective(hits)
         /\ Fits(r) =>
              /\ Len(hits) = Least(r.topK, Cardinality(Good(r)))
              /\ \A i \in DOMAIN hits, b \in Good(r) :
                   Worse(r, hits[i], b) => \E j \in 1 .. (i - 1) : hits[j] = b
<1> DEFINE M == Matching(r.query)
<1>1. PICK T \in Best(M, FetchLimit(r), RawOf(r)) :
        \E K \in Best({rec \in T : Passes(r, rec)}, r.topK, ScoreOf(r, T)) :
          hits \in Orders(K, ScoreOf(r, T))
  BY AnswerParts
<1> DEFINE P == {rec \in T : Passes(r, rec)}
           score == ScoreOf(r, T)
<1>2. PICK K \in Best(P, r.topK, score) : hits \in Orders(K, score)
  BY <1>1
<1>3. IsFiniteSet(M) /\ Cardinality(M) \in Nat
  <2>1. IsFiniteSet(M)
    BY RecordsAreFinite, FS_Subset DEF Matching
  <2> QED
    BY <2>1, FS_CardinalityType
<1>4. /\ T \subseteq M /\ IsFiniteSet(T)
      /\ Cardinality(M) <= FetchLimit(r) => T = M
  BY <1>3, BestType, LimitType
<1>5. IsFiniteSet(P) /\ Cardinality(P) \in Nat /\ P \subseteq Good(r)
  BY <1>4, FS_Subset, FS_CardinalityType DEF Good
<1> HIDE DEF P, score
<1>6. /\ K \subseteq P /\ IsFiniteSet(K) /\ Cardinality(K) = Least(r.topK, Cardinality(P))
      /\ Cardinality(K) <= r.topK
      /\ \A a \in K, b \in P \ K : score[a] >= score[b]
  BY <1>5, BestType, LimitType
<1>7. /\ Len(hits) = Cardinality(K) /\ DOMAIN hits = 1 .. Cardinality(K) /\ Cardinality(K) \in Nat
      /\ ToSet(hits) = K /\ IsInjective(hits)
      /\ \A i, j \in DOMAIN hits : i < j => score[hits[i]] >= score[hits[j]]
  BY <1>2, <1>6, OrderType
<1>8. ASSUME Fits(r)
      PROVE  /\ Len(hits) = Least(r.topK, Cardinality(Good(r)))
             /\ \A i \in DOMAIN hits, b \in Good(r) :
                  Worse(r, hits[i], b) => \E j \in 1 .. (i - 1) : hits[j] = b
  <2>1. T = M
    BY <1>3, <1>4, <1>8, LimitType
  <2>2. P = Good(r)
    BY <2>1 DEF P, Good
  <2>3. ASSUME NEW i \in DOMAIN hits, NEW b \in Good(r), Worse(r, hits[i], b)
        PROVE  \E j \in 1 .. (i - 1) : hits[j] = b
    <3>1. hits[i] \in K /\ hits[i] \in T /\ b \in T /\ Passes(r, hits[i]) /\ Passes(r, b)
      <4>1. hits[i] \in ToSet(hits)
        BY DEF ToSet
      <4> QED
        BY <1>6, <1>7, <2>1, <2>2, <4>1 DEF P, Good
    <3>2. score[hits[i]] \in Nat /\ score[b] \in Nat /\ score[hits[i]] < score[b]
      BY <1>4, <2>3, <3>1, WorseScores DEF score
    <3>3. b \in K
      BY <1>6, <2>2, <3>1, <3>2
    <3>4. PICK j \in DOMAIN hits : hits[j] = b
      BY <1>7, <3>3 DEF ToSet
    <3>5. i \in 1 .. Cardinality(K) /\ j \in 1 .. Cardinality(K)
      BY <1>7
    <3>6. ~(i < j)
      BY <1>7, <3>2, <3>4
    <3>7. i # j
      BY <3>2, <3>4
    <3>8. j \in 1 .. (i - 1)
      BY <1>7, <3>5, <3>6, <3>7
    <3> QED
      BY <3>4, <3>8
  <2> QED
    BY <1>6, <1>7, <2>2, <2>3
<1> QED
  BY <1>5, <1>6, <1>7, <1>8

-----------------------------------------------------------------------------
(* The calls. *)

Pending == [pc : {"listed", "opened"}, req : Requests, existed : BOOLEAN, before : BOOLEAN]

CallInv ==
  /\ call = [t \in Threads |-> call[t]]
  /\ \A t \in Threads : /\ call[t].pc \in {"idle", "listed", "opened", "answered"}
                        /\ call[t].pc \in {"listed", "opened"} => call[t] \in Pending

\* What was indexed is on disk, so a call that began after it knows of the
\* collection.
KnownInv ==
  /\ acked \in BOOLEAN
  /\ acked = TRUE => present = TRUE
  /\ \A t \in Threads :
       call[t].pc \in {"listed", "opened"} /\ call[t].before = TRUE => call[t].existed = TRUE

HintInv ==
  \A t \in Threads : call[t].pc = "answered" /\ call[t].reply = "hint" => call[t].before = FALSE

SearchInv == StoredInv /\ CallInv /\ KnownInv /\ HintInv

LEMMA InitSearch == Init => SearchInv
<1> SUFFICES ASSUME Init PROVE SearchInv
  OBVIOUS
<1>1. StoredInv
  BY DEF Init, StoredInv, NothingStored
<1>2. \A t \in Threads : call[t].pc = "idle"
  BY DEF Init, Idle
<1>3. CallInv /\ KnownInv /\ HintInv
  BY <1>2 DEF Init, CallInv, KnownInv, HintInv
<1> QED
  BY <1>1, <1>3 DEF SearchInv

\* The others write what they say, and create the collection they write to.
LEMMA WriterStep ==
  ASSUME SearchInv, UNCHANGED <<setup, call>>,
         stored' \in [Docs -> Entries \cup {NoDoc}],
         \A d \in Docs : stored'[d] = stored[d] \/ stored'[d] = NoDoc
                         \/ (stored'[d] \in Entries /\ stored'[d].profile = Profile(stored'[d].setup)),
         acked' \in BOOLEAN, acked' = TRUE => present' = TRUE
  PROVE  SearchInv'
<1>1. \A s : Profile(s)' = Profile(s)
  BY DEF Profile
<1>2. Entries' = Entries
  BY DEF Entries, Profile
<1>3. StoredInv'
  BY <1>1, <1>2, Zenon DEF SearchInv, StoredInv
<1>4. CallInv' /\ HintInv' /\ KnownInv'
  BY DEF SearchInv, CallInv, HintInv, KnownInv
<1> QED
  BY <1>3, <1>4 DEF SearchInv

LEMMA IndexStep ==
  ASSUME SearchInv, NEW d \in Docs, NEW text \in Texts, NEW skip, Index(d, text, skip)
  PROVE  SearchInv'
<1> DEFINE new == [text |-> text, setup |-> setup, profile |-> Profile(setup)]
<1>1. new \in Entries /\ new.profile = Profile(new.setup)
  BY DEF SearchInv, StoredInv, Entries
<1> HIDE DEF new
<1>2. \/ stored' = [stored EXCEPT ![d] = new] /\ acked' = TRUE
      \/ UNCHANGED <<stored, acked>>
  BY DEF Index, Write, new
<1>3. present' = TRUE /\ UNCHANGED <<setup, call>>
  BY DEF Index, OpenCollection
<1>4. /\ stored' \in [Docs -> Entries \cup {NoDoc}]
      /\ \A e \in Docs : stored'[e] = stored[e] \/ (stored'[e] \in Entries /\ stored'[e].profile = Profile(stored'[e].setup))
  BY <1>1, <1>2 DEF SearchInv, StoredInv
<1>5. acked' \in BOOLEAN
  BY <1>2 DEF SearchInv, KnownInv
<1> QED
  BY <1>3, <1>4, <1>5, WriterStep

LEMMA DeleteStep ==
  ASSUME SearchInv, NEW d \in Docs, Delete(d)
  PROVE  SearchInv'
<1>1. /\ stored' = [stored EXCEPT ![d] = NoDoc] /\ present' = TRUE /\ UNCHANGED <<setup, call, acked>>
  BY DEF Delete, OpenCollection
<1>2. /\ stored' \in [Docs -> Entries \cup {NoDoc}]
      /\ \A e \in Docs : stored'[e] = stored[e] \/ stored'[e] = NoDoc
  BY <1>1 DEF SearchInv, StoredInv
<1>3. acked' \in BOOLEAN
  BY <1>1 DEF SearchInv, KnownInv
<1> QED
  BY <1>1, <1>2, <1>3, WriterStep

LEMMA DropStep == ASSUME SearchInv, Drop PROVE SearchInv'
<1>1. stored' = NothingStored /\ acked' = FALSE /\ UNCHANGED <<setup, call>>
  BY DEF Drop
<1>2. /\ stored' \in [Docs -> Entries \cup {NoDoc}]
      /\ \A e \in Docs : stored'[e] = NoDoc
  BY <1>1 DEF NothingStored
<1> QED
  BY <1>1, <1>2, WriterStep

LEMMA RestartStep == ASSUME SearchInv, NEW s \in Setups, Restart(s) PROVE SearchInv'
<1>1. /\ setup' = s /\ UNCHANGED <<present, stored, acked>>
      /\ call' = [t \in Threads |-> Idle] /\ \A t \in Threads : call'[t].pc = "idle"
  BY DEF Restart, Idle
<1>2. StoredInv'
  BY <1>1 DEF SearchInv, StoredInv, Entries, Profile
<1>3. CallInv' /\ HintInv' /\ KnownInv'
  BY <1>1 DEF SearchInv, CallInv, HintInv, KnownInv
<1> QED
  BY <1>2, <1>3 DEF SearchInv

\* A step of a call, which writes nothing.
LEMMA CallStep ==
  ASSUME SearchInv, NEW t \in Threads, NEW c, call' = [call EXCEPT ![t] = c],
         UNCHANGED <<setup, stored, acked>>, present = TRUE => present' = TRUE,
         c.pc \in {"idle", "listed", "opened", "answered"},
         c.pc \in {"listed", "opened"} =>
           c \in Pending /\ (c.before = TRUE => c.existed = TRUE),
         c.pc = "answered" /\ c.reply = "hint" => c.before = FALSE
  PROVE  SearchInv'
<1>1. call' = [u \in Threads |-> IF u = t THEN c ELSE call[u]]
  BY DEF SearchInv, CallInv
<1>2. StoredInv'
  BY DEF SearchInv, StoredInv, Entries, Profile
<1>3. CallInv'
  BY <1>1 DEF SearchInv, CallInv
<1>4. KnownInv'
  BY <1>1 DEF SearchInv, KnownInv
<1>5. HintInv'
  BY <1>1 DEF SearchInv, HintInv
<1> QED
  BY <1>2, <1>3, <1>4, <1>5 DEF SearchInv

LEMMA BeginStep ==
  ASSUME SearchInv, NEW t \in Threads, NEW r \in Requests, Begin(t, r)
  PROVE  SearchInv'
<1> DEFINE refused == [pc |-> "answered", req |-> r, reply |-> "invalid_params", hits |-> <<>>, before |-> acked]
           listed == [pc |-> "listed", req |-> r, existed |-> Listed, before |-> acked]
<1>1. UNCHANGED <<setup, entry, present, stored, acked>>
  BY DEF Begin
<1>2. CASE r.query = Blank
  <2>1. call' = [call EXCEPT ![t] = refused]
    BY <1>2 DEF Begin
  <2>2. refused.pc = "answered" /\ refused.reply = "invalid_params"
    OBVIOUS
  <2> HIDE DEF refused
  <2> QED
    BY <1>1, <2>1, <2>2, CallStep
<1>3. CASE r.query # Blank
  <2>1. call' = [call EXCEPT ![t] = listed]
    BY <1>3 DEF Begin
  <2>2. Listed \in BOOLEAN /\ acked \in BOOLEAN /\ (acked = TRUE => Listed = TRUE)
    <3>1. Listed \in BOOLEAN
      BY DEF Listed
    <3>2. present = TRUE => Listed = TRUE
      BY Zenon DEF Listed
    <3> QED
      BY <3>1, <3>2 DEF SearchInv, KnownInv
  <2>3. listed \in Pending /\ listed.pc = "listed" /\ (listed.before = TRUE => listed.existed = TRUE)
    <3> DEFINE l == Listed
    <3> HIDE DEF l
    <3>1. l \in BOOLEAN /\ acked \in BOOLEAN /\ (acked = TRUE => l = TRUE)
      BY <2>2 DEF l
    <3>2. [pc |-> "listed", req |-> r, existed |-> l, before |-> acked] \in Pending
      BY <3>1 DEF Pending
    <3> QED
      BY <3>1, <3>2 DEF l
  <2> HIDE DEF listed
  <2> QED
    BY <1>1, <2>1, <2>3, CallStep
<1> QED
  BY <1>2, <1>3

LEMMA OpenStep == ASSUME SearchInv, NEW t \in Threads, Open(t) PROVE SearchInv'
<1> DEFINE c == [call[t] EXCEPT !.pc = "opened"]
<1>1. /\ call[t].pc = "listed" /\ call[t] \in Pending
      /\ UNCHANGED <<setup, stored, acked>> /\ present' = TRUE
      /\ call[t].before = TRUE => call[t].existed = TRUE
  BY DEF Open, OpenCollection, SearchInv, CallInv, KnownInv
<1>2. call' = [call EXCEPT ![t] = c]
  BY DEF Open
<1>3. c.pc = "opened" /\ c \in Pending /\ (c.before = TRUE => c.existed = TRUE)
  BY <1>1 DEF Pending
<1> HIDE DEF c
<1> QED
  BY <1>1, <1>2, <1>3, CallStep

LEMMA SearchStep == ASSUME SearchInv, NEW t \in Threads, Search(t) PROVE SearchInv'
<1>1. /\ call[t].pc = "opened" /\ call[t] \in Pending
      /\ UNCHANGED <<setup, present, stored, acked>>
      /\ call[t].before = TRUE => call[t].existed = TRUE
  BY DEF Search, SearchInv, CallInv, KnownInv
<1>2. \E reply, hits : Answer(t, reply, hits) /\ (reply = "hint" => ~call[t].existed)
  BY DEF Search
<1>3. PICK reply, hits : Answer(t, reply, hits) /\ (reply = "hint" => ~call[t].existed)
  BY <1>2
<1> DEFINE c == [pc |-> "answered", req |-> call[t].req, reply |-> reply, hits |-> hits,
                 before |-> call[t].before]
<1>4. call' = [call EXCEPT ![t] = c]
  BY <1>3 DEF Answer
<1>5. c.pc = "answered" /\ c.reply = reply /\ c.before = call[t].before
  OBVIOUS
<1>6. reply = "hint" => call[t].before = FALSE
  <2>1. call[t].before \in BOOLEAN /\ call[t].existed \in BOOLEAN
    BY <1>1 DEF Pending
  <2>2. reply = "hint" => call[t].existed # TRUE
    BY <1>3
  <2> QED
    BY <1>1, <2>1, <2>2
<1> HIDE DEF c
<1> QED
  BY <1>1, <1>4, <1>5, <1>6, CallStep

LEMMA ReturnStep == ASSUME SearchInv, NEW t \in Threads, Return(t) PROVE SearchInv'
  BY CallStep DEF Return, Idle

LEMMA SearchNext == SearchInv /\ [Next]_vars => SearchInv'
<1> SUFFICES ASSUME SearchInv, [Next]_vars PROVE SearchInv'
  OBVIOUS
<1>1. CASE UNCHANGED vars
  <2>1. StoredInv'
    BY <1>1 DEF vars, SearchInv, StoredInv, Entries, Profile
  <2>2. CallInv' /\ KnownInv' /\ HintInv'
    BY <1>1 DEF vars, SearchInv, CallInv, KnownInv, HintInv
  <2> QED
    BY <2>1, <2>2 DEF SearchInv
<1> QED
  BY <1>1, IndexStep, DeleteStep, DropStep, RestartStep, BeginStep, OpenStep, SearchStep,
     ReturnStep DEF Next

\* Whatever is written, dropped and restarted: a stored document has the profile it
\* was written under, what was indexed is on disk, and a call that began after it
\* knows of the collection and is not answered with a hint.
THEOREM SearchInvariant == Spec => []SearchInv
  BY InitSearch, SearchNext, PTL DEF Spec

\* The benchmark tools only read.
LEMMA BenchesOnlyRead == BenchSpec => Spec
<1>1. BenchInit => Init
  BY DEF BenchInit
<1>2. [BenchNext]_benchVars => [Next]_vars
  BY DEF BenchNext, benchVars, Evaluate, EvalCell, NextQuestion, vars
<1> QED
  BY <1>1, <1>2, PTL DEF BenchSpec, Spec

\* A collection that something was indexed into before a call began is never
\* called missing.
THEOREM HintsAreTrue == BenchSpec => []HintIsTrue
<1>1. SearchInv => HintIsTrue
  BY DEF SearchInv, HintInv, HintIsTrue
<1> QED
  BY <1>1, SearchInvariant, BenchesOnlyRead, PTL

LEMMA OnlySearchAnswers ==
  ASSUME CallInv, Next, NEW t \in Threads, call[t].pc = "opened", call'[t].pc = "answered",
         call'[t].reply # "internal_error"
  PROVE  ~SearchFails(call[t].req) /\ call'[t].hits \in Answers(call[t].req)
<1>1. \A c : \A u \in Threads : call' = [call EXCEPT ![u] = c] => call'[t] = IF u = t THEN c ELSE call[t]
  BY DEF CallInv
<1>2. Search(t)
  <2>1. call' # call
    OBVIOUS
  <2>2. ~ \E s \in Setups : Restart(s)
    BY DEF Restart, Idle
  <2>3. PICK u \in Threads : (\E r \in Requests : Begin(u, r)) \/ Open(u) \/ Search(u) \/ Return(u)
    BY <2>1, <2>2 DEF Next, Index, Delete, Drop
  <2>4. u = t
    BY <1>1, <2>3 DEF Begin, Open, Search, Return, Answer
  <2>5. ~Begin(t, call[t].req) /\ ~Open(t) /\ ~Return(t) /\ \A r : ~Begin(t, r)
    BY DEF Begin, Open, Return
  <2> QED
    BY <2>3, <2>4, <2>5
<1>3. PICK reply, hits : /\ Answer(t, reply, hits)
                         /\ \/ SearchFails(call[t].req) /\ reply = "internal_error"
                            \/ ~SearchFails(call[t].req) /\ hits \in Answers(call[t].req)
  BY <1>2 DEF Search
<1>4. call'[t].reply = reply /\ call'[t].hits = hits
  BY <1>1, <1>3 DEF Answer
<1> QED
  BY <1>3, <1>4

BestAnswer(r, hits) ==
  /\ ToSet(hits) \subseteq Good(r)
  /\ Len(hits) <= r.topK
  /\ IsInjective(hits)
  /\ \A rec \in ToSet(hits) :
       MaySkip(rec[1], stored[rec[1]].text) => stored[rec[1]].setup = setup
  /\ Fits(r) =>
       /\ Len(hits) = Least(r.topK, Cardinality(Good(r)))
       /\ \A i \in DOMAIN hits, b \in Good(r) :
            Worse(r, hits[i], b) => \E j \in 1 .. (i - 1) : hits[j] = b

LEMMA BestStep ==
  ASSUME SearchInv, Next, NEW t \in Threads, call[t].pc = "opened",
         call'[t].pc = "answered", call'[t].reply # "internal_error"
  PROVE  BestAnswer(call[t].req, call'[t].hits)
<1> DEFINE r == call[t].req
           hits == call'[t].hits
<1>1. ~SearchFails(r) /\ hits \in Answers(r) /\ r \in Requests /\ StoredInv
  BY OnlySearchAnswers DEF SearchInv, CallInv, Pending
<1> HIDE DEF r, hits
<1>2. /\ ToSet(hits) \subseteq Good(r)
      /\ Len(hits) <= r.topK
      /\ IsInjective(hits)
      /\ Fits(r) =>
           /\ Len(hits) = Least(r.topK, Cardinality(Good(r)))
           /\ \A i \in DOMAIN hits, b \in Good(r) :
                Worse(r, hits[i], b) => \E j \in 1 .. (i - 1) : hits[j] = b
  BY <1>1, AnswersAreBest
<1>3. ASSUME NEW rec \in ToSet(hits), MaySkip(rec[1], stored[rec[1]].text)
      PROVE  stored[rec[1]].setup = setup
  <2>1. rec \in Records
    BY <1>2 DEF Good, Matching
  <2>2. rec[1] \in Docs /\ stored[rec[1]] \in Entries
    BY <1>1, <2>1, RecordType
  <2>3. /\ stored[rec[1]] # NoDoc /\ stored[rec[1]].profile = Profile(setup)
        /\ stored[rec[1]].setup \in Setups /\ setup \in Setups
    BY <1>1, <1>3, <2>2 DEF MaySkip, Entries, StoredInv
  <2>4. Profile(stored[rec[1]].setup) = Profile(setup)
    BY <1>1, <2>2, <2>3 DEF StoredInv
  <2> QED
    BY <2>3, <2>4, ProfilesIdentify
<1> QED
  BY <1>2, <1>3 DEF BestAnswer, r, hits

\* Whatever is stored and however often the process was started with another
\* encoder, a search answers matches that pass its filter, at most topK and as
\* many as there are, none left out or listed later for one worse in both scores.
THEOREM SearchesAnswerTheBest == BenchSpec => BestHits
<1>1. SearchInv /\ [Next]_vars =>
        [\A t \in Threads :
           call[t].pc = "opened" /\ call'[t].pc = "answered" /\ call'[t].reply # "internal_error" =>
             BestAnswer(call[t].req, call'[t].hits)]_vars
  BY BestStep
<1> QED
  BY <1>1, SearchInvariant, BenchesOnlyRead, PTL
     DEF Spec, BestHits, BestAnswer, Good, Fits, Worse, CosineOf

-----------------------------------------------------------------------------
(* Sequences picked from others. *)

LEMMA LeastIn ==
  ASSUME NEW S, S \subseteq Nat, S # {}
  PROVE  \E m \in S : \A s \in S : m <= s
<1> DEFINE R == OpToRel(<, Nat)
<1>1. \A x, y \in Nat : x < y => <<x, y>> \in R
  BY DEF OpToRel
<1>2. IsWellFoundedOn(R, Nat)
  BY NatLessThanWellFounded
<1> HIDE DEF R
<1>3. PICK x \in S : \A y \in S : <<y, x>> \notin R
  BY <1>2, WFMin
<1>4. \A y \in S : y \in Nat /\ x \in Nat /\ ~(y < x)
  BY <1>1, <1>3
<1> QED
  BY <1>4

Increasing(o, I) ==
  /\ o \in [1 .. Cardinality(I) -> I]
  /\ \A i, j \in 1 .. Cardinality(I) : i < j => o[i] < o[j]

\* A finite set of numbers can be listed in increasing order.
LEMMA PlacesExist ==
  ASSUME NEW I, I \subseteq Nat, IsFiniteSet(I)
  PROVE  \E o : Increasing(o, I)
<1> DEFINE listed(J) == \E o : Increasing(o, J)
           Q == {n \in Nat : \A J \in SUBSET Nat :
                               IsFiniteSet(J) /\ Cardinality(J) = n => listed(J)}
<1>1. 0 \in Q
  <2>1. ASSUME NEW J \in SUBSET Nat, IsFiniteSet(J), Cardinality(J) = 0 PROVE listed(J)
    <3> DEFINE o == [i \in {} |-> i]
    <3>1. J = {} /\ 1 .. 0 = {}
      BY <2>1, FS_EmptySet
    <3>2. o \in [{} -> {}]
      OBVIOUS
    <3>3. Increasing(o, J)
      BY <2>1, <3>1, <3>2 DEF Increasing
    <3> QED
      BY <3>3
  <2> QED
    BY <2>1
<1>2. ASSUME NEW n \in Nat, n \in Q PROVE n + 1 \in Q
  <2> SUFFICES ASSUME NEW J \in SUBSET Nat, IsFiniteSet(J), Cardinality(J) = n + 1
               PROVE  listed(J)
    OBVIOUS
  <2> DEFINE m == Max(J)
             rest == J \ {m}
  <2>1. J # {}
    BY FS_EmptySet
  <2>2. m \in J /\ \A s \in J : s <= m
    BY <2>1, GreatestIn
  <2>3. IsFiniteSet(rest) /\ Cardinality(rest) = n
    BY <2>2, FS_RemoveElement
  <2>4. PICK r : Increasing(r, rest)
    BY <1>2, <2>3
  <2> DEFINE o == [i \in 1 .. (n + 1) |-> IF i = n + 1 THEN m ELSE r[i]]
  <2>5. /\ r \in [1 .. n -> rest]
        /\ \A i, j \in 1 .. n : i < j => r[i] < r[j]
    BY <2>3, <2>4 DEF Increasing
  <2>6. rest \subseteq J /\ \A s \in rest : s \in Nat /\ s < m
    <3>1. J \subseteq Nat
      OBVIOUS
    <3>2. rest \subseteq J /\ \A s \in rest : s \in J /\ s # m
      OBVIOUS
    <3> HIDE DEF rest, m
    <3>3. ASSUME NEW s \in rest PROVE s \in Nat /\ s < m
      <4>1. s \in Nat /\ m \in Nat /\ s <= m /\ s # m
        BY <2>2, <3>1, <3>2
      <4> QED
        BY <4>1
    <3> QED
      BY <3>2, <3>3
  <2> HIDE DEF rest, m
  <2>7. \A i \in 1 .. (n + 1) : i # n + 1 => i \in 1 .. n /\ r[i] \in rest
    BY <2>5
  <2>8. o \in [1 .. (n + 1) -> J]
    BY <2>2, <2>6, <2>7
  <2>9. \A i, j \in 1 .. (n + 1) : i < j => o[i] < o[j]
    <3> SUFFICES ASSUME NEW i \in 1 .. (n + 1), NEW j \in 1 .. (n + 1), i < j
                 PROVE  o[i] < o[j]
      OBVIOUS
    <3>1. i \in 1 .. n /\ o[i] = r[i] /\ r[i] \in rest
      BY <2>7
    <3>2. CASE j = n + 1
      BY <2>6, <3>1, <3>2
    <3>3. CASE j # n + 1
      <4>1. j \in 1 .. n /\ o[j] = r[j]
        BY <2>7, <3>3
      <4> HIDE DEF o
      <4> QED
        BY <2>5, <3>1, <4>1
    <3> QED
      BY <3>2, <3>3
  <2> HIDE DEF o
  <2> QED
    BY <2>8, <2>9 DEF Increasing
<1> HIDE DEF Q
<1>3. \A n \in Nat : n \in Q
  BY <1>1, <1>2, AllNumbers
<1>4. Cardinality(I) \in Nat
  BY FS_CardinalityType
<1>5. Cardinality(I) \in Q
  BY <1>3, <1>4
<1> QED
  BY <1>5 DEF Q

\* What is selected of a sequence, and from where.
Lists(o, I) ==
  /\ Increasing(o, I) /\ Cardinality(I) \in Nat
  /\ \A i \in I : \E k \in 1 .. Cardinality(I) : o[k] = i

Picks(o, s, I) ==
  /\ Lists(o, I)
  /\ Selected(s, I) = [k \in 1 .. Cardinality(I) |-> s[o[k]]]

LEMMA SelectedPlaces ==
  ASSUME NEW s, NEW I, I \subseteq Nat, IsFiniteSet(I)
  PROVE  \E o : Picks(o, s, I)
<1> DEFINE n == Cardinality(I)
           o == CHOOSE p \in [1 .. n -> I] : \A i, j \in 1 .. n : i < j => p[i] < p[j]
<1>0. n \in Nat
  BY FS_CardinalityType
<1>1. /\ o \in [1 .. n -> I]
      /\ \A i, j \in 1 .. n : i < j => o[i] < o[j]
  <2>1. \E p \in [1 .. n -> I] : \A i, j \in 1 .. n : i < j => p[i] < p[j]
    BY PlacesExist DEF Increasing
  <2> QED
    BY <2>1, Zenon
<1>2. Selected(s, I) = [k \in 1 .. n |-> s[o[k]]]
  BY DEF Selected
<1> HIDE DEF o
<1>3. o \in Injection(1 .. n, I)
  <2>1. \A i, j \in 1 .. n : o[i] \in Nat /\ (i < j => o[i] < o[j])
    BY <1>1
  <2>2. \A i, j \in 1 .. n : o[i] = o[j] => i = j
    BY <2>1
  <2> QED
    BY <1>1, <2>2 DEF Injection, IsInjective
<1>4. o \in Surjection(1 .. n, I)
  <2>1. Cardinality(1 .. n) = n
    BY <1>0, FS_Interval
  <2> HIDE DEF n
  <2> QED
    BY <1>3, <2>1, FS_Injection DEF n
<1>5. Increasing(o, I)
  BY <1>1 DEF Increasing
<1>6. \A i \in I : \E k \in 1 .. n : o[k] = i
  BY <1>4 DEF Surjection
<1> QED
  BY <1>0, <1>2, <1>5, <1>6 DEF Picks, Lists

\* Where a sequence holds something for the first time.
Firsts(s) == {i \in DOMAIN s : \A j \in 1 .. (i - 1) : s[j] # s[i]}

LEMMA FirstFound ==
  ASSUME NEW S, NEW s \in Seq(S), NEW i \in DOMAIN s
  PROVE  \E j \in Firsts(s) : j <= i /\ s[j] = s[i]
<1> DEFINE J == {j \in DOMAIN s : s[j] = s[i]}
<1>1. DOMAIN s = 1 .. Len(s) /\ Len(s) \in Nat
  OBVIOUS
<1>2. J \subseteq Nat /\ i \in J
  BY <1>1
<1>3. PICK m \in J : \A j \in J : m <= j
  BY <1>2, LeastIn
<1>4. m \in DOMAIN s /\ s[m] = s[i] /\ m <= i /\ m \in Nat
  BY <1>1, <1>2, <1>3
<1>5. ASSUME NEW j \in 1 .. (m - 1) PROVE s[j] # s[m]
  <2>1. j \in DOMAIN s /\ ~(m <= j)
    BY <1>1, <1>4
  <2> QED
    BY <1>3, <1>4, <2>1
<1> QED
  BY <1>4, <1>5 DEF Firsts

\* Unique lists everything once.
LEMMA UniqueType ==
  ASSUME NEW S, NEW s \in Seq(S)
  PROVE  /\ Unique(s) \in Seq(S)
         /\ ToSet(Unique(s)) = ToSet(s)
         /\ IsInjective(Unique(s))
<1> DEFINE I == Firsts(s)
           n == Cardinality(I)
<1>1. DOMAIN s = 1 .. Len(s) /\ Len(s) \in Nat
  OBVIOUS
<1>2. I \subseteq 1 .. Len(s) /\ I \subseteq Nat /\ IsFiniteSet(I)
  <2>1. I \in SUBSET (1 .. Len(s))
    BY <1>1 DEF Firsts
  <2>2. IsFiniteSet(1 .. Len(s))
    BY <1>1, FS_Interval
  <2> QED
    BY <1>1, <2>1, <2>2, FS_Subset
<1>3. Unique(s) = Selected(s, I)
  BY DEF Unique, Firsts
<1> HIDE DEF I
<1>40. PICK o : Picks(o, s, I)
  BY <1>2, SelectedPlaces
<1>4. /\ Increasing(o, I) /\ n \in Nat
      /\ \A i \in I : \E k \in 1 .. n : o[k] = i
      /\ Selected(s, I) = [k \in 1 .. n |-> s[o[k]]]
  BY <1>40 DEF Picks, Lists
<1>5. /\ \A k \in 1 .. n : o[k] \in I /\ o[k] \in Nat
      /\ \A i, j \in 1 .. n : i < j => o[i] < o[j]
  BY <1>2, <1>4 DEF Increasing
<1> HIDE DEF n
<1> DEFINE u == [k \in 1 .. n |-> s[o[k]]]
<1>6. u \in Seq(S) /\ DOMAIN u = 1 .. n
  <2>1. \A k \in 1 .. n : s[o[k]] \in S
    BY <1>1, <1>2, <1>5
  <2> QED
    BY <1>4, <2>1
<1>7. ASSUME NEW k \in 1 .. n, NEW l \in 1 .. n, k < l PROVE u[k] # u[l]
  <2>1. o[k] \in 1 .. (o[l] - 1)
    BY <1>1, <1>2, <1>5, <1>7
  <2>2. s[o[k]] # s[o[l]]
    BY <1>5, <2>1 DEF I, Firsts
  <2> QED
    BY <2>2
<1>8. IsInjective(u)
  <2>1. \A k, l \in 1 .. n : k = l \/ k < l \/ l < k
    BY <1>4
  <2> QED
    BY <1>6, <1>7, <2>1 DEF IsInjective
<1>9. ASSUME NEW i \in DOMAIN s PROVE s[i] \in ToSet(u)
  <2>1. PICK j \in I : s[j] = s[i]
    BY FirstFound DEF I
  <2>2. PICK k \in 1 .. n : o[k] = j
    BY <1>4, <2>1 DEF n
  <2>3. u[k] = s[i] /\ k \in DOMAIN u
    BY <1>6, <2>1, <2>2
  <2> QED
    BY <2>3 DEF ToSet
<1>10. ToSet(u) \subseteq ToSet(s)
  BY <1>1, <1>2, <1>5, <1>6 DEF ToSet
<1>11. ToSet(u) = ToSet(s)
  BY <1>9, <1>10 DEF ToSet
<1>12. Unique(s) = u
  BY <1>3, <1>4 DEF n
<1> QED
  BY <1>6, <1>8, <1>11, <1>12

-----------------------------------------------------------------------------
(* The documents that are hit. *)

LEMMA AnswerIsList ==
  ASSUME StoredInv, NEW r, NEW hits \in Answers(r)
  PROVE  /\ hits \in Seq(Records) /\ IsInjective(hits)
         /\ \A i, j \in DOMAIN hits : i < j /\ ~Dense(r) => RawOf(r)[hits[i]] >= RawOf(r)[hits[j]]
         /\ \A rec \in ToSet(hits) : rec \in Matching(r.query) /\ rec[2] # Sentinel
<1>1. PICK T \in Best(Matching(r.query), FetchLimit(r), RawOf(r)) :
        \E K \in Best({rec \in T : Passes(r, rec)}, r.topK, ScoreOf(r, T)) :
          hits \in Orders(K, ScoreOf(r, T))
  BY AnswerParts
<1> DEFINE P == {rec \in T : Passes(r, rec)}
<1>2. PICK K \in Best(P, r.topK, ScoreOf(r, T)) : hits \in Orders(K, ScoreOf(r, T))
  BY <1>1
<1>3. K \subseteq P /\ P \subseteq T /\ T \subseteq Matching(r.query) /\ Matching(r.query) \subseteq Records
  BY DEF Best, Matching
<1>4. IsFiniteSet(K)
  BY <1>3, RecordsAreFinite, FS_Subset
<1>5. /\ Len(hits) = Cardinality(K) /\ DOMAIN hits = 1 .. Cardinality(K) /\ Cardinality(K) \in Nat
      /\ ToSet(hits) = K /\ IsInjective(hits)
      /\ \A i, j \in DOMAIN hits : i < j => ScoreOf(r, T)[hits[i]] >= ScoreOf(r, T)[hits[j]]
  BY <1>2, <1>4, OrderType
<1>6. hits \in [1 .. Cardinality(K) -> Records]
  BY <1>2, <1>3 DEF Orders, SetToSeqs
<1>7. hits \in Seq(Records)
  BY <1>5, <1>6
<1>8. ~Dense(r) => ScoreOf(r, T) = RawOf(r)
  BY DEF ScoreOf
<1>9. \A rec \in K : rec \in Matching(r.query) /\ rec[2] # Sentinel
  BY <1>3 DEF Passes
<1> QED
  BY <1>5, <1>7, <1>8, <1>9

LEMMA DocsType ==
  ASSUME StoredInv, NEW hits \in Seq(Records)
  PROVE  /\ DocsOf(hits) \in Seq(Docs) /\ Len(DocsOf(hits)) = Len(hits)
         /\ Ranked(hits) \in Seq(Docs) /\ IsInjective(Ranked(hits))
         /\ ToSet(Ranked(hits)) = {rec[1] : rec \in ToSet(hits)}
<1>1. \A i \in DOMAIN hits : hits[i] \in Records /\ hits[i][1] \in Docs
  BY RecordType
<1>2. DocsOf(hits) \in Seq(Docs) /\ Len(DocsOf(hits)) = Len(hits)
  BY <1>1 DEF DocsOf
<1>3. ToSet(DocsOf(hits)) = {rec[1] : rec \in ToSet(hits)}
  BY DEF DocsOf, ToSet
<1> QED
  BY <1>2, <1>3, UniqueType DEF Ranked

LEMMA PrefixType ==
  ASSUME NEW S, NEW s \in Seq(S), NEW n \in Nat
  PROVE  /\ Prefix(s, n) \in Seq(S) /\ Len(Prefix(s, n)) = Least(n, Len(s))
         /\ Least(n, Len(s)) \in Nat /\ Least(n, Len(s)) <= n /\ Least(n, Len(s)) <= Len(s)
         /\ DOMAIN Prefix(s, n) = 1 .. Least(n, Len(s))
         /\ \A i \in 1 .. Least(n, Len(s)) : i \in DOMAIN s /\ Prefix(s, n)[i] = s[i]
         /\ IsInjective(s) => IsInjective(Prefix(s, n))
<1> DEFINE m == Least(n, Len(s))
<1>0. Len(s) \in Nat
  OBVIOUS
<1>1. m \in Nat /\ m <= n /\ m <= Len(s) /\ Len(s) \in Nat
  BY <1>0, LeastType
<1> HIDE DEF m
<1>2. Prefix(s, n) = SubSeq(s, 1, m)
  BY DEF Prefix, m
<1>3. /\ SubSeq(s, 1, m) \in Seq(S) /\ Len(SubSeq(s, 1, m)) = m
      /\ \A i \in 1 .. m : SubSeq(s, 1, m)[i] = s[i] /\ i \in DOMAIN s
  BY <1>1
<1>4. IsInjective(s) => IsInjective(SubSeq(s, 1, m))
  BY <1>3 DEF IsInjective
<1> QED
  BY <1>1, <1>2, <1>3, <1>4 DEF m

LEMMA SelectedType ==
  ASSUME NEW S, NEW s \in Seq(S), NEW I, I \subseteq DOMAIN s
  PROVE  /\ Selected(s, I) \in Seq(S)
         /\ ToSet(Selected(s, I)) = {s[i] : i \in I}
         /\ IsInjective(s) => IsInjective(Selected(s, I))
         /\ \A i \in I : \E k \in DOMAIN Selected(s, I) : k <= i /\ Selected(s, I)[k] = s[i]
<1> DEFINE n == Cardinality(I)
<1>1. I \subseteq Nat /\ IsFiniteSet(I) /\ DOMAIN s = 1 .. Len(s) /\ Len(s) \in Nat
  BY FS_Interval, FS_Subset
<1>2. PICK o : Picks(o, s, I)
  BY <1>1, SelectedPlaces
<1>3. /\ n \in Nat
      /\ \A k \in 1 .. n : o[k] \in I /\ o[k] \in Nat
      /\ \A i, j \in 1 .. n : i < j => o[i] < o[j]
      /\ \A i \in I : \E k \in 1 .. n : o[k] = i
      /\ Selected(s, I) = [k \in 1 .. n |-> s[o[k]]]
  BY <1>1, <1>2 DEF Picks, Lists, Increasing
<1> HIDE DEF n
<1> DEFINE t == [k \in 1 .. n |-> s[o[k]]]
<1>4. t \in Seq(S) /\ DOMAIN t = 1 .. n
  <2>1. \A k \in 1 .. n : s[o[k]] \in S
    BY <1>1, <1>3
  <2> QED
    BY <1>3, <2>1
<1>5. ToSet(t) = {s[i] : i \in I}
  BY <1>3, <1>4 DEF ToSet
<1>6. ASSUME IsInjective(s) PROVE IsInjective(t)
  <2>1. \A k, l \in 1 .. n : k # l => o[k] # o[l]
    <3>1. \A k, l \in 1 .. n : k < l \/ l < k \/ k = l
      BY <1>3
    <3> QED
      BY <1>3, <3>1
  <2> QED
    BY <1>1, <1>3, <1>4, <1>6, <2>1 DEF IsInjective
<1>7. \A k \in 1 .. n : k <= o[k]
  <2> DEFINE Q == {k \in Nat : k \in 1 .. n => k <= o[k]}
  <2>1. 0 \in Q
    OBVIOUS
  <2>2. ASSUME NEW k \in Nat, k \in Q PROVE k + 1 \in Q
    <3> SUFFICES ASSUME k + 1 \in 1 .. n PROVE k + 1 <= o[k + 1]
      OBVIOUS
    <3>1. CASE k = 0
      BY <1>1, <1>3, <3>1
    <3>2. CASE k # 0
      <4>1. k \in 1 .. n /\ k < k + 1 /\ k <= o[k]
        BY <1>3, <2>2, <3>2
      <4>2. o[k] < o[k + 1] /\ o[k] \in Nat /\ o[k + 1] \in Nat
        BY <1>3, <4>1
      <4> QED
        BY <4>1, <4>2
    <3> QED
      BY <3>1, <3>2
  <2> HIDE DEF Q
  <2>3. \A k \in Nat : k \in Q
    BY <2>1, <2>2, AllNumbers
  <2> QED
    BY <1>3, <2>3 DEF Q
<1>8. \A i \in I : \E k \in 1 .. n : k <= i /\ t[k] = s[i]
  BY <1>3, <1>7
<1> HIDE DEF t
<1>9. Selected(s, I) = t
  BY <1>3 DEF t
<1> QED
  BY <1>4, <1>5, <1>6, <1>8, <1>9

-----------------------------------------------------------------------------
(* Flattened sequences. *)

\* f concatenates the first k sequences.
Joins(f, seqs, n, k) ==
  /\ f = [i \in 1 .. n |-> f[i]]
  /\ \A i \in 1 .. n : i <= k => f[i] = IF i = 1 THEN seqs[i] ELSE f[i - 1] \o seqs[i]

LEMMA JoinExists ==
  ASSUME NEW seqs, NEW n \in Nat
  PROVE  \E f : f = [i \in 1 .. n |-> IF i = 1 THEN seqs[i] ELSE f[i - 1] \o seqs[i]]
<1> DEFINE Q == {k \in Nat : \E f : Joins(f, seqs, n, k)}
<1>1. 0 \in Q
  <2> DEFINE f == [i \in 1 .. n |-> i]
  <2>0. f = [i \in 1 .. n |-> f[i]] /\ \A i \in 1 .. n : ~ (i <= 0)
    OBVIOUS
  <2> HIDE DEF f
  <2>1. Joins(f, seqs, n, 0)
    BY <2>0 DEF Joins
  <2> QED
    BY <2>1
<1>2. ASSUME NEW k \in Nat, k \in Q PROVE k + 1 \in Q
  <2>1. PICK f : Joins(f, seqs, n, k)
    BY <1>2
  <2> DEFINE h == [i \in 1 .. n |-> IF i = 1 THEN seqs[i] ELSE f[i - 1] \o seqs[i]]
  <2>2. \A i \in 1 .. n : i <= k => h[i] = f[i]
    BY <2>1 DEF Joins
  <2>3. h = [i \in 1 .. n |-> h[i]]
    OBVIOUS
  <2>4. \A i \in 1 .. n : i # 1 => i - 1 \in 1 .. n /\ (i <= k + 1 => i - 1 <= k)
    OBVIOUS
  <2>5. \A i \in 1 .. n : h[i] = IF i = 1 THEN seqs[i] ELSE f[i - 1] \o seqs[i]
    OBVIOUS
  <2> HIDE DEF h
  <2>6. \A i \in 1 .. n : i <= k + 1 => h[i] = IF i = 1 THEN seqs[i] ELSE h[i - 1] \o seqs[i]
    BY <2>2, <2>4, <2>5
  <2>7. Joins(h, seqs, n, k + 1)
    BY <2>3, <2>6 DEF Joins
  <2> QED
    BY <2>7
<1>3. n \in Q
  <2> HIDE DEF Q
  <2> QED
    BY <1>1, <1>2, AllNumbers
<1>4. PICK f : Joins(f, seqs, n, n)
  BY <1>3
<1>5. \A i \in 1 .. n : i <= n
  OBVIOUS
<1>6. f = [i \in 1 .. n |-> IF i = 1 THEN seqs[i] ELSE f[i - 1] \o seqs[i]]
  BY <1>4, <1>5 DEF Joins
<1> QED
  BY <1>6

\* f[i] is the concatenation of the first i sequences.
Flattens(f, seqs, S) ==
  /\ f[1] = seqs[1]
  /\ \A i \in 2 .. Len(seqs) : i - 1 \in 1 .. Len(seqs) /\ f[i] = f[i - 1] \o seqs[i]
  /\ \A i \in 1 .. Len(seqs) : f[i] \in Seq(S)
  /\ FlattenSeq(seqs) = f[Len(seqs)]

LEMMA FlatSteps ==
  ASSUME NEW S, NEW seqs \in Seq(Seq(S)), Len(seqs) # 0
  PROVE  \E f : Flattens(f, seqs, S)
<1> DEFINE n == Len(seqs)
           joins(h) == h = [i \in 1 .. n |-> IF i = 1 THEN seqs[i] ELSE h[i - 1] \o seqs[i]]
           f == CHOOSE h : joins(h)
<1>0. n \in Nat /\ n # 0 /\ \A i \in 1 .. n : seqs[i] \in Seq(S)
  OBVIOUS
<1>1. joins(f)
  <2>1. \E h : joins(h)
    BY <1>0, JoinExists
  <2> QED
    BY <2>1, Zenon
<1>2. FlattenSeq(seqs) = f[n]
  BY <1>0 DEF FlattenSeq
<1> HIDE DEF f
<1>3. \A i \in 1 .. n : f[i] = IF i = 1 THEN seqs[i] ELSE f[i - 1] \o seqs[i]
  BY <1>1, Zenon
<1> HIDE DEF n
<1>4. f[1] = seqs[1] /\ \A i \in 2 .. n : i - 1 \in 1 .. n /\ f[i] = f[i - 1] \o seqs[i]
  <2>1. 1 \in 1 .. n /\ \A i \in 2 .. n : i \in 1 .. n /\ i - 1 \in 1 .. n /\ i # 1
    BY <1>0
  <2> QED
    BY <1>3, <2>1, Zenon
<1> DEFINE Q == {k \in Nat : k + 1 <= n => f[k + 1] \in Seq(S)}
<1>5. 0 \in Q
  BY <1>0, <1>4
<1>6. ASSUME NEW k \in Nat, k \in Q PROVE k + 1 \in Q
  <2> SUFFICES ASSUME (k + 1) + 1 <= n PROVE f[(k + 1) + 1] \in Seq(S)
    OBVIOUS
  <2> DEFINE i == (k + 1) + 1
  <2>1. i \in 2 .. n /\ i \in 1 .. n /\ i - 1 = k + 1 /\ k + 1 <= n
    BY <1>0
  <2> HIDE DEF i
  <2>2. f[i] = f[k + 1] \o seqs[i] /\ f[k + 1] \in Seq(S) /\ seqs[i] \in Seq(S)
    BY <1>0, <1>4, <1>6, <2>1
  <2>3. f[k + 1] \o seqs[i] \in Seq(S)
    BY <2>2
  <2> QED
    BY <2>2, <2>3 DEF i
<1>7. ASSUME NEW i \in 1 .. n PROVE f[i] \in Seq(S)
  <2>1. i - 1 \in Nat /\ (i - 1) + 1 = i /\ i <= n
    BY <1>0
  <2> HIDE DEF Q
  <2>2. \A k \in Nat : k \in Q
    BY <1>5, <1>6, AllNumbers
  <2>3. i - 1 \in Q
    BY <2>1, <2>2
  <2> QED
    BY <2>1, <2>3 DEF Q
<1> QED
  BY <1>2, <1>4, <1>7 DEF Flattens, n

\* Everything flattened is there.
LEMMA FlatHolds ==
  ASSUME NEW S, NEW seqs \in Seq(Seq(S))
  PROVE  /\ FlattenSeq(seqs) \in Seq(S)
         /\ \A i \in DOMAIN seqs : ToSet(seqs[i]) \subseteq ToSet(FlattenSeq(seqs))
<1> DEFINE n == Len(seqs)
<1>0. n \in Nat /\ DOMAIN seqs = 1 .. n /\ \A i \in 1 .. n : seqs[i] \in Seq(S)
  OBVIOUS
<1>1. CASE n = 0
  <2>1. FlattenSeq(seqs) = seqs /\ seqs = <<>>
    BY <1>1 DEF FlattenSeq
  <2> QED
    BY <2>1
<1>2. CASE n # 0
  <2>1. PICK f : Flattens(f, seqs, S)
    BY <1>2, FlatSteps
  <2>2. /\ f[1] = seqs[1]
        /\ \A i \in 2 .. n : i - 1 \in 1 .. n /\ f[i] = f[i - 1] \o seqs[i]
        /\ \A i \in 1 .. n : f[i] \in Seq(S)
        /\ FlattenSeq(seqs) = f[n]
    BY <2>1 DEF Flattens
  <2> HIDE DEF n
  <2> DEFINE Q == {k \in Nat : k + 1 <= n => \A i \in 1 .. (k + 1) : ToSet(seqs[i]) \subseteq ToSet(f[k + 1])}
  <2>3. 0 \in Q
    <3>1. \A i \in 1 .. (0 + 1) : i = 1
      OBVIOUS
    <3> QED
      BY <2>2, <3>1
  <2>4. ASSUME NEW k \in Nat, k \in Q PROVE k + 1 \in Q
    <3> SUFFICES ASSUME (k + 1) + 1 <= n, NEW i \in 1 .. ((k + 1) + 1)
                 PROVE  ToSet(seqs[i]) \subseteq ToSet(f[(k + 1) + 1])
      OBVIOUS
    <3> DEFINE m == (k + 1) + 1
    <3>1. /\ m \in 2 .. n /\ m \in 1 .. n /\ m - 1 = k + 1 /\ k + 1 <= n /\ k + 1 \in 1 .. n
          /\ i \in 1 .. (k + 1) \/ i = m
      BY <1>0
    <3> HIDE DEF m
    <3>2. f[m] = f[k + 1] \o seqs[m] /\ f[k + 1] \in Seq(S) /\ seqs[m] \in Seq(S)
      BY <1>0, <2>2, <3>1
    <3>3. \A a, b \in Seq(S) : ToSet(a) \subseteq ToSet(a \o b) /\ ToSet(b) \subseteq ToSet(a \o b)
      <4> TAKE a, b \in Seq(S)
      <4>1. /\ DOMAIN a = 1 .. Len(a) /\ DOMAIN b = 1 .. Len(b)
            /\ Len(a) \in Nat /\ Len(b) \in Nat
            /\ DOMAIN (a \o b) = 1 .. (Len(a) + Len(b))
        OBVIOUS
      <4>2. ASSUME NEW j \in DOMAIN a PROVE a[j] \in ToSet(a \o b)
        <5>1. j \in DOMAIN (a \o b) /\ (a \o b)[j] = a[j]
          BY <4>1
        <5> QED
          BY <5>1 DEF ToSet
      <4>3. ASSUME NEW j \in DOMAIN b PROVE b[j] \in ToSet(a \o b)
        <5>1. j + Len(a) \in DOMAIN (a \o b) /\ (a \o b)[j + Len(a)] = b[j]
          BY <4>1
        <5> QED
          BY <5>1 DEF ToSet
      <4> QED
        BY <4>2, <4>3 DEF ToSet
    <3>4. CASE i = m
      BY <3>2, <3>3, <3>4 DEF m
    <3>5. CASE i \in 1 .. (k + 1)
      <4>1. ToSet(seqs[i]) \subseteq ToSet(f[k + 1])
        BY <2>4, <3>1, <3>5
      <4>2. ToSet(f[k + 1]) \subseteq ToSet(f[m])
        BY <3>2, <3>3
      <4> QED
        BY <4>1, <4>2 DEF m
    <3> QED
      BY <3>1, <3>4, <3>5
  <2>5. n - 1 \in Q
    <3>1. n - 1 \in Nat
      BY <1>0, <1>2 DEF n
    <3> HIDE DEF Q
    <3> QED
      BY <2>3, <2>4, <3>1, AllNumbers
  <2>6. (n - 1) + 1 = n /\ n <= n /\ n \in 1 .. n
    BY <1>0, <1>2 DEF n
  <2>7. \A i \in 1 .. n : ToSet(seqs[i]) \subseteq ToSet(f[n])
    BY <2>5, <2>6
  <2> QED
    BY <1>0, <2>2, <2>6, <2>7
<1> QED
  BY <1>1, <1>2

-----------------------------------------------------------------------------
(* Reports. *)

\* What the conversational bench and the gate make of a question.
Evaluated(q, hits) ==
  \/ Extractive(q) /\ \E cfg \in GateConfigs : report' = Gate(cfg, q, hits)
  \/ \E k \in TopKs, alpha \in Alphas : report' = Conditions(k, alpha, q, hits)
  \/ \E k \in TopKs : report' = Conversation(k, q, hits)

Scored(q, hits) ==
  \E alpha \in Alphas, topn \in TopNs :
    hits \in Answers(CellQuestion(q, alpha, topn)) /\ report' = Cell(q, hits)

\* A report that appears was made of an answer, and nothing else happened.
LEMMA ReportMade ==
  ASSUME BenchNext, report' # NoReport
  PROVE  /\ UNCHANGED vars /\ Dataset
         /\ \E q \in Questions :
              \E hits : Scored(q, hits) \/ (hits \in Answers(Question(q)) /\ Evaluated(q, hits))
<1>1. PICK q \in Questions : Evaluate(q) \/ \E alpha \in Alphas, topn \in TopNs : EvalCell(q, alpha, topn)
  BY DEF BenchNext, NextQuestion
<1>2. CASE Evaluate(q)
  BY <1>2, Zenon DEF Evaluate, Ready, Evaluated
<1>3. CASE \E alpha \in Alphas, topn \in TopNs : EvalCell(q, alpha, topn)
  BY <1>3, Zenon DEF EvalCell, Ready, Scored
<1> QED
  BY <1>1, <1>2, <1>3

LEMMA Tools ==
  ASSUME NEW q, NEW hits
  PROVE  /\ Scored(q, hits) => report'.tool = "runner"
         /\ Evaluated(q, hits) => report'.tool \in {"gate", "conditions", "convbench"}
         /\ Evaluated(q, hits) /\ report'.tool = "gate" =>
              Extractive(q) /\ \E cfg \in GateConfigs : report' = Gate(cfg, q, hits)
         /\ Evaluated(q, hits) /\ report'.tool = "conditions" =>
              \E k \in TopKs, alpha \in Alphas : report' = Conditions(k, alpha, q, hits)
         /\ Evaluated(q, hits) /\ report'.tool = "convbench" =>
              \E k \in TopKs : report' = Conversation(k, q, hits)
<1>1. \A cfg : Gate(cfg, q, hits).tool = "gate"
  BY DEF Gate
<1>2. \A k, alpha : Conditions(k, alpha, q, hits).tool = "conditions"
  BY DEF Conditions
<1>3. \A k : Conversation(k, q, hits).tool = "convbench"
  BY DEF Conversation
<1>4. Cell(q, hits).tool = "runner"
  BY DEF Cell
<1> QED
  BY <1>1, <1>2, <1>3, <1>4 DEF Scored, Evaluated

-----------------------------------------------------------------------------
(* The evidence. *)

LEMMA ListOfSet ==
  ASSUME NEW S, IsFiniteSet(S)
  PROVE  SetToSeq(S) \in Seq(S) /\ ToSet(SetToSeq(S)) = S
<1> DEFINE n == Cardinality(S)
           f == CHOOSE g \in [1 .. n -> S] : IsInjective(g)
<1>1. n \in Nat
  BY FS_CardinalityType
<1>2. \E g \in [1 .. n -> S] : IsInjective(g)
  <2>1. PICK g : g \in Bijection(1 .. n, S)
    BY FS_CardinalityType DEF ExistsBijection
  <2>2. g \in [1 .. n -> S] /\ IsInjective(g)
    BY <2>1 DEF Bijection, Injection
  <2> QED
    BY <2>2
<1>3. f \in [1 .. n -> S] /\ IsInjective(f)
  BY <1>2, Zenon
<1>4. SetToSeq(S) = f
  BY DEF SetToSeq
<1> HIDE DEF f
<1>5. Cardinality(1 .. n) = n
  BY <1>1, FS_Interval
<1> HIDE DEF n
<1>6. f \in Surjection(1 .. n, S)
  BY <1>3, <1>5, FS_Injection DEF Injection, n
<1>7. f \in Seq(S) /\ DOMAIN f = 1 .. n
  BY <1>1, <1>3
<1> QED
  BY <1>4, <1>6, <1>7 DEF Surjection, ToSet

\* The sessions of what was found, and of the members of a digest that was found.
LEMMA SessionsOfAll ==
  ASSUME StoredInv, Dataset, NEW hits \in Seq(Records), NEW d \in ToSet(Ranked(hits))
  PROVE  {SessionOf(e) : e \in IF IsDigest(d) THEN MembersOf(d) ELSE {d}}
           \subseteq ToSet(SessionsSeen(hits))
<1> DEFINE sessions(c) == {SessionOf(e) : e \in MembersOf(c)}
           all == {SessionOf(c) : c \in Docs} \cup UNION {sessions(c) : c \in Docs}
           part(c) == IF IsDigest(c) THEN SetToSeq(sessions(c)) ELSE <<SessionOf(c)>>
           parts == [i \in DOMAIN hits |-> part(hits[i][1])]
<1>1. ASSUME NEW c \in Docs
      PROVE  /\ part(c) \in Seq(all)
             /\ {SessionOf(e) : e \in IF IsDigest(c) THEN MembersOf(c) ELSE {c}} \subseteq ToSet(part(c))
  <2>1. IsFiniteSet(MembersOf(c))
    <3>1. stored[c].text \in Texts
      BY DEF StoredInv, Dataset, Entries
    <3> QED
      BY <3>1, MembersAssumption DEF MembersOf
  <2>2. IsFiniteSet(sessions(c))
    <3> DEFINE f == [e \in MembersOf(c) |-> SessionOf(e)]
    <3>1. {f[e] : e \in MembersOf(c)} = sessions(c)
      OBVIOUS
    <3> HIDE DEF f
    <3>2. IsFiniteSet({f[e] : e \in MembersOf(c)})
      BY <2>1, FiniteImage
    <3> QED
      BY <3>1, <3>2
  <2>3. sessions(c) \subseteq all /\ SessionOf(c) \in all
    OBVIOUS
  <2> DEFINE ss == sessions(c)
  <2>4. ss \subseteq all /\ IsFiniteSet(ss)
    BY <2>2, <2>3
  <2> HIDE DEF all
  <2>5. CASE IsDigest(c)
    <3>1. part(c) = SetToSeq(ss)
      BY <2>5
    <3> HIDE DEF ss
    <3>2. SetToSeq(ss) \in Seq(ss) /\ ToSet(SetToSeq(ss)) = ss
      BY <2>4, ListOfSet
    <3>3. SetToSeq(ss) \in Seq(all)
      BY <2>4, <3>2
    <3> QED
      BY <2>5, <3>1, <3>2, <3>3 DEF ss
  <2>6. CASE ~IsDigest(c)
    <3>1. part(c) = <<SessionOf(c)>>
      BY <2>6
    <3>2. ToSet(<<SessionOf(c)>>) = {SessionOf(c)} /\ <<SessionOf(c)>> \in Seq(all)
      BY <2>3 DEF ToSet
    <3> QED
      BY <2>6, <3>1, <3>2
  <2> QED
    BY <2>5, <2>6
<1>2. \A i \in DOMAIN hits : hits[i][1] \in Docs
  BY RecordType
<1>3. SessionsSeen(hits) = Unique(FlattenSeq(parts))
  BY DEF SessionsSeen
<1>4. PICK i \in DOMAIN hits : d = hits[i][1]
  <2>1. d \in {rec[1] : rec \in ToSet(hits)}
    BY DocsType
  <2> QED
    BY <2>1 DEF ToSet
<1> HIDE DEF all
<1>5. parts \in Seq(Seq(all)) /\ DOMAIN parts = DOMAIN hits
  <2>1. \A j \in DOMAIN hits : parts[j] \in Seq(all)
    BY <1>1, <1>2
  <2>2. parts = [j \in 1 .. Len(hits) |-> parts[j]] /\ Len(hits) \in Nat /\ DOMAIN hits = 1 .. Len(hits)
    OBVIOUS
  <2> HIDE DEF parts
  <2> QED
    BY <2>1, <2>2
<1>6. parts[i] = part(d)
  BY <1>4
<1> HIDE DEF parts, part
<1>7. FlattenSeq(parts) \in Seq(all) /\ ToSet(part(d)) \subseteq ToSet(FlattenSeq(parts))
  BY <1>5, <1>6, FlatHolds
<1>8. ToSet(Unique(FlattenSeq(parts))) = ToSet(FlattenSeq(parts))
  BY <1>7, UniqueType
<1> QED
  BY <1>1, <1>2, <1>3, <1>4, <1>7, <1>8

LEMMA EvidenceShows ==
  ASSUME StoredInv, Dataset, NEW hits \in Seq(Records), NEW k \in Nat
  PROVE  LET picked == Ranked(hits)
             evidence == Evidence(picked, k)
             shown == ToSet(evidence)
         IN  /\ Len(evidence) <= k /\ IsInjective(evidence)
             /\ \A i \in 1 .. Least(k, Len(picked)) :
                  picked[i] \in shown \cup UNION {MembersOf(d) : d \in shown}
             /\ shown \subseteq ToSet(picked)
<1> DEFINE picked == Ranked(hits)
           m == Least(k, Len(picked))
           covered == CoveredIds(picked, k)
           I == {i \in DOMAIN picked : picked[i] \notin covered}
           all == Selected(picked, I)
           evidence == Prefix(all, k)
           shown == ToSet(evidence)
<1>1. picked \in Seq(Docs) /\ IsInjective(picked)
  BY DocsType
<1>2. Evidence(picked, k) = evidence
  BY DEF Evidence
<1>3. covered = UNION {MembersOf(picked[i]) : i \in 1 .. m}
  BY DEF CoveredIds
<1> HIDE DEF picked, covered
<1>4. I \subseteq DOMAIN picked
  OBVIOUS
<1>5. /\ all \in Seq(Docs) /\ IsInjective(all) /\ ToSet(all) = {picked[i] : i \in I}
      /\ \A i \in I : \E j \in DOMAIN all : j <= i /\ all[j] = picked[i]
  <2> HIDE DEF I
  <2> QED
    BY <1>1, <1>4, SelectedType
<1>6. m \in Nat /\ m <= k /\ \A i \in 1 .. m : i \in DOMAIN picked /\ picked[i] \in Docs
  <2>1. Len(picked) \in Nat
    BY <1>1
  <2>2. m \in Nat /\ m <= k /\ m <= Len(picked)
    BY <2>1, LeastType
  <2> HIDE DEF m
  <2> QED
    BY <1>1, <2>1, <2>2
<1> HIDE DEF all, m
<1>7. /\ Len(evidence) <= k /\ IsInjective(evidence) /\ evidence \in Seq(Docs)
      /\ \A j \in DOMAIN all : j <= k => j \in DOMAIN evidence /\ evidence[j] = all[j]
      /\ \A j \in DOMAIN evidence : j \in DOMAIN all /\ evidence[j] = all[j]
  <2> DEFINE l == Least(k, Len(all))
  <2>1. /\ evidence \in Seq(Docs) /\ Len(evidence) = l /\ l \in Nat /\ l <= k
        /\ DOMAIN evidence = 1 .. l /\ IsInjective(evidence)
        /\ \A i \in 1 .. l : i \in DOMAIN all /\ evidence[i] = all[i]
    BY <1>5, PrefixType
  <2>2. \A j \in DOMAIN all : j \in Nat /\ j >= 1 /\ j <= Len(all) /\ Len(all) \in Nat
    BY <1>5
  <2>3. \A j \in DOMAIN all : j <= k => j \in 1 .. l
    BY <2>2 DEF Least
  <2> HIDE DEF l, evidence
  <2> QED
    BY <2>1, <2>3
<1>8. ASSUME NEW i \in 1 .. m, picked[i] \notin covered PROVE picked[i] \in shown
  <2>1. i \in I /\ i <= k /\ i \in Nat
    BY <1>6, <1>8
  <2>2. PICK j \in DOMAIN all : j <= i /\ all[j] = picked[i]
    BY <1>5, <2>1
  <2>3. j <= k
    <3>1. j \in Nat
      BY <1>5
    <3> QED
      BY <2>1, <2>2, <3>1
  <2> QED
    BY <1>7, <2>2, <2>3 DEF ToSet
<1>9. ASSUME NEW i \in 1 .. m, picked[i] \in covered
      PROVE  picked[i] \in UNION {MembersOf(d) : d \in shown}
  <2>1. PICK j \in 1 .. m : picked[i] \in MembersOf(picked[j])
    BY <1>3, <1>9
  <2>2. picked[j] \notin covered
    <3> SUFFICES ASSUME picked[j] \in covered PROVE FALSE
      OBVIOUS
    <3>1. PICK l \in 1 .. m : picked[j] \in MembersOf(picked[l])
      BY <1>3
    <3>2. ~IsDigest(picked[j])
      BY <1>6, <3>1 DEF Dataset
    <3> QED
      BY <2>1, <3>2 DEF IsDigest
  <2> QED
    BY <1>8, <2>1, <2>2
<1>10. shown \subseteq ToSet(picked)
  <2>1. shown \subseteq ToSet(all)
    BY <1>7 DEF ToSet
  <2> QED
    BY <1>5, <2>1 DEF ToSet
<1> HIDE DEF evidence
<1> QED
  BY <1>2, <1>7, <1>8, <1>9, <1>10 DEF picked, m

EvidenceRight(rep) ==
  LET picked == Ranked(rep.hits)
      shown == ToSet(rep.evidence)
  IN  /\ Len(rep.evidence) <= rep.topK /\ IsInjective(rep.evidence)
      /\ \A i \in 1 .. Least(rep.topK, Len(picked)) :
           picked[i] \in shown \cup UNION {MembersOf(d) : d \in shown}
      /\ \A d \in shown :
           {SessionOf(e) : e \in IF IsDigest(d) THEN MembersOf(d) ELSE {d}} \subseteq ToSet(rep.sessions)

\* The evidence of a report that appears is right.
LEMMA EvidenceStep ==
  ASSUME StoredInv, BenchNext, report' # NoReport, report'.tool = "convbench"
  PROVE  EvidenceRight(report')
<1>1. PICK q \in Questions :
        \E hits : Scored(q, hits) \/ (hits \in Answers(Question(q)) /\ Evaluated(q, hits))
  BY ReportMade
<1>2. PICK hits : Scored(q, hits) \/ (hits \in Answers(Question(q)) /\ Evaluated(q, hits))
  BY <1>1
<1>3. hits \in Answers(Question(q)) /\ Evaluated(q, hits)
  BY <1>2, Tools
<1>4. PICK k \in TopKs : report' = Conversation(k, q, hits)
  BY <1>3, Tools
<1>5. Dataset /\ hits \in Seq(Records) /\ k \in Nat
  BY <1>3, ReportMade, AnswerIsList, BenchAssumption
<1> DEFINE rep == Conversation(k, q, hits)
<1>6. /\ rep.hits = hits /\ rep.topK = k /\ rep.evidence = Evidence(Ranked(hits), k)
      /\ rep.sessions = SessionsSeen(hits)
  BY DEF Conversation
<1> HIDE DEF rep
<1>7. EvidenceRight(rep)
  <2>1. \A d \in ToSet(Ranked(hits)) :
          {SessionOf(e) : e \in IF IsDigest(d) THEN MembersOf(d) ELSE {d}} \subseteq ToSet(SessionsSeen(hits))
    BY <1>5, SessionsOfAll
  <2> QED
    BY <1>5, <1>6, <2>1, EvidenceShows DEF EvidenceRight
<1> QED
  BY <1>4, <1>7 DEF rep

\* Whatever is found, and whatever stands for what: the evidence shows nothing
\* twice, hides no document among the first but behind a digest that is shown, and
\* the sessions counted include those of all that is shown.
THEOREM EvidenceCoversAll == BenchSpec => []EvidenceCovers
<1>1. BenchInit => EvidenceCovers
  BY DEF BenchInit, EvidenceCovers
<1>2. SearchInv /\ EvidenceCovers /\ [BenchNext]_benchVars => EvidenceCovers'
  <2> SUFFICES ASSUME SearchInv, EvidenceCovers, [BenchNext]_benchVars,
                      report' # NoReport, report'.tool = "convbench"
               PROVE  EvidenceCovers'
    BY DEF EvidenceCovers
  <2>1. CASE UNCHANGED benchVars
    BY <2>1 DEF EvidenceCovers, MembersOf, IsDigest, benchVars, vars
  <2>2. CASE BenchNext
    <3>1. EvidenceRight(report') /\ stored' = stored
      BY <2>2, EvidenceStep, ReportMade DEF SearchInv, vars
    <3> QED
      BY <3>1 DEF EvidenceRight, EvidenceCovers, MembersOf, IsDigest
  <2> QED
    BY <2>1, <2>2
<1> QED
  BY <1>1, <1>2, SearchInvariant, BenchesOnlyRead, PTL DEF BenchSpec, Spec

-----------------------------------------------------------------------------
(* Sums of discounts. *)

\* A set of sets that holds {} and every subset of X it holds all smaller ones of
\* holds X.
LEMMA EverySubset ==
  ASSUME NEW X, IsFiniteSet(X), NEW Q, {} \in Q,
         \A s \in SUBSET X : s # {} /\ (\A x \in s : s \ {x} \in Q) => s \in Q
  PROVE  X \in Q
<1> DEFINE R == StrictSubsetOrdering(X)
           F == FiniteSubsetsOf(X)
<1>1. \A s, t \in SUBSET X : s \subseteq t /\ s # t => <<s, t>> \in R
  BY DEF StrictSubsetOrdering
<1>2. IsWellFoundedOn(R, F)
  BY FS_StrictSubsetOrderingWellFounded
<1>3. F = SUBSET X
  BY FS_Subset DEF FiniteSubsetsOf
<1> HIDE DEF R, F
<1> SUFFICES ASSUME X \notin Q PROVE FALSE
  OBVIOUS
<1>4. PICK s \in F \ Q : \A t \in F \ Q : <<t, s>> \notin R
  <2> DEFINE T == F \ Q
  <2>1. T # {} /\ T \subseteq F
    BY <1>3
  <2> HIDE DEF T
  <2>2. \E s \in T : \A t \in T : ~ (<<t, s>> \in R)
    BY <1>2, <2>1, WFMin
  <2> QED
    BY <2>2, Zenon DEF T
<1>5. \A x \in s : s \ {x} \in Q
  <2> TAKE x \in s
  <2> DEFINE t == s \ {x}
  <2>1. t \in SUBSET X /\ s \in SUBSET X /\ t \subseteq s /\ t # s
    BY <1>3, <1>4
  <2> HIDE DEF t
  <2>2. <<t, s>> \in R
    BY <1>1, <2>1
  <2> QED
    BY <1>3, <1>4, <2>1, <2>2 DEF t
<1> QED
  BY <1>3, <1>4, <1>5

\* g adds up the discounts of any of the ranks X.
Sums(g, X) ==
  g = [s \in SUBSET X |->
         IF s = {} THEN 0
         ELSE Discount(CHOOSE i \in s : TRUE) + g[s \ {CHOOSE i \in s : TRUE}]]

\* So far it is right for no more than n ranks.
SumsTo(g, X, n) ==
  /\ g = [s \in SUBSET X |-> g[s]]
  /\ \A s \in SUBSET X :
       Cardinality(s) <= n =>
         g[s] = IF s = {} THEN 0
                ELSE Discount(CHOOSE i \in s : TRUE) + g[s \ {CHOOSE i \in s : TRUE}]

LEMMA SumsFurther ==
  ASSUME NEW X, IsFiniteSet(X), NEW n \in Nat, NEW g, SumsTo(g, X, n)
  PROVE  \E h : SumsTo(h, X, n + 1)
<1> DEFINE one(s) == CHOOSE i \in s : TRUE
           h == [s \in SUBSET X |->
                   IF s = {} THEN 0 ELSE Discount(one(s)) + g[s \ {one(s)}]]
<1>1. \A s \in SUBSET X : Cardinality(s) <= n => h[s] = g[s]
  BY Zenon DEF SumsTo
<1>2. ASSUME NEW s \in SUBSET X, Cardinality(s) <= n + 1, s # {}
      PROVE  h[s] = Discount(one(s)) + h[s \ {one(s)}]
  <2>1. one(s) \in s
    BY <1>2
  <2>2. IsFiniteSet(s)
    BY FS_Subset
  <2>3. /\ s \ {one(s)} \in SUBSET X
        /\ Cardinality(s \ {one(s)}) = Cardinality(s) - 1 /\ Cardinality(s) \in Nat
    BY <2>1, <2>2, FS_RemoveElement, FS_CardinalityType
  <2>4. h[s] = Discount(one(s)) + g[s \ {one(s)}]
    BY <1>2
  <2>5. Cardinality(s \ {one(s)}) <= n
    BY <1>2, <2>3
  <2>6. h[s \ {one(s)}] = g[s \ {one(s)}]
    BY <1>1, <2>3, <2>5
  <2> QED
    BY <2>4, <2>6
<1>3. h[{}] = 0
  OBVIOUS
<1>4. h = [s \in SUBSET X |-> h[s]]
  OBVIOUS
<1> HIDE DEF h
<1>5. SumsTo(h, X, n + 1)
  BY <1>2, <1>3, <1>4, Zenon DEF SumsTo
<1> QED
  BY <1>5

LEMMA SumsExist ==
  ASSUME NEW X, IsFiniteSet(X)
  PROVE  \E g : Sums(g, X)
<1> DEFINE Q == {n \in Nat : \E g : SumsTo(g, X, n)}
<1>1. 0 \in Q
  <2> DEFINE g == [s \in SUBSET X |-> 0]
  <2>1. \A s \in SUBSET X : Cardinality(s) <= 0 => s = {}
    <3> TAKE s \in SUBSET X
    <3>1. IsFiniteSet(s) /\ Cardinality(s) \in Nat
      BY FS_Subset, FS_CardinalityType
    <3> QED
      BY <3>1, FS_EmptySet
  <2>2. g = [s \in SUBSET X |-> g[s]] /\ g[{}] = 0
    OBVIOUS
  <2> HIDE DEF g
  <2>3. SumsTo(g, X, 0)
    BY <2>1, <2>2 DEF SumsTo
  <2> QED
    BY <2>3
<1>2. \A n \in Nat : n \in Q => n + 1 \in Q
  BY SumsFurther
<1>3. Cardinality(X) \in Nat
  BY FS_CardinalityType
<1>4. Cardinality(X) \in Q
  <2> HIDE DEF Q
  <2> QED
    BY <1>1, <1>2, <1>3, AllNumbers
<1>5. PICK g : SumsTo(g, X, Cardinality(X))
  BY <1>4
<1>6. \A s \in SUBSET X : Cardinality(s) <= Cardinality(X)
  BY FS_Subset
<1>7. g = [s \in SUBSET X |->
             IF s = {} THEN 0
             ELSE Discount(CHOOSE i \in s : TRUE) + g[s \ {CHOOSE i \in s : TRUE}]]
  BY <1>5, <1>6 DEF SumsTo
<1> QED
  BY <1>7 DEF Sums

LEMMA SumsAreNumbers ==
  ASSUME NEW X, IsFiniteSet(X), NEW g, Sums(g, X),
         \A i \in X : Discount(i) \in Nat
  PROVE  \A s \in SUBSET X : g[s] \in Nat
<1> SUFFICES ASSUME NEW t \in SUBSET X PROVE g[t] \in Nat
  OBVIOUS
<1> DEFINE Q == {s \in SUBSET X : g[s] \in Nat}
<1>1. \A s \in SUBSET X :
        g[s] = IF s = {} THEN 0
               ELSE Discount(CHOOSE i \in s : TRUE) + g[s \ {CHOOSE i \in s : TRUE}]
  BY Zenon DEF Sums
<1>2. {} \in Q
  <2>1. {} \in SUBSET X
    OBVIOUS
  <2>2. g[{}] = 0
    BY <1>1, <2>1, Zenon
  <2> QED
    BY <2>1, <2>2
<1>3. ASSUME NEW s \in SUBSET t, s # {}, \A x \in s : s \ {x} \in Q PROVE s \in Q
  <2> DEFINE c == CHOOSE i \in s : TRUE
  <2>1. c \in s /\ s \in SUBSET X
    BY <1>3
  <2>2. g[s] = Discount(c) + g[s \ {c}]
    BY <1>1, <1>3, <2>1, Zenon
  <2> HIDE DEF c
  <2>3. g[s \ {c}] \in Nat /\ Discount(c) \in Nat
    BY <1>3, <2>1
  <2> QED
    BY <2>1, <2>2, <2>3
<1>4. t \in Q
  <2>1. IsFiniteSet(t)
    BY FS_Subset
  <2> HIDE DEF Q
  <2> QED
    BY <1>2, <1>3, <2>1, EverySubset
<1> QED
  BY <1>4

\* The order in which the ranks are chosen does not matter.
LEMMA SumsAdd ==
  ASSUME NEW X, IsFiniteSet(X), NEW g, Sums(g, X),
         \A i \in X : Discount(i) \in Nat
  PROVE  /\ g[X] \in Nat
         /\ \A x \in X : g[X] = Discount(x) + g[X \ {x}]
<1> DEFINE Q == {s \in SUBSET X : g[s] \in Nat /\ \A x \in s : g[s] = Discount(x) + g[s \ {x}]}
<1>1. \A s \in SUBSET X :
        g[s] = IF s = {} THEN 0
               ELSE Discount(CHOOSE i \in s : TRUE) + g[s \ {CHOOSE i \in s : TRUE}]
  BY Zenon DEF Sums
<1>2. {} \in Q
  <2>1. {} \in SUBSET X
    OBVIOUS
  <2>2. g[{}] = 0
    BY <1>1, <2>1, Zenon
  <2> QED
    BY <2>1, <2>2
<1>3. ASSUME NEW s \in SUBSET X, s # {}, \A x \in s : s \ {x} \in Q PROVE s \in Q
  <2> DEFINE c == CHOOSE i \in s : TRUE
  <2>1. c \in s
    BY <1>3
  <2>2. g[s] = Discount(c) + g[s \ {c}]
    BY <1>1, <1>3, Zenon
  <2> HIDE DEF c
  <2>3. g[s \ {c}] \in Nat /\ \A x \in s \ {c} : g[s \ {c}] = Discount(x) + g[(s \ {c}) \ {x}]
    BY <1>3, <2>1
  <2>4. g[s] \in Nat
    BY SumsAreNumbers
  <2>5. ASSUME NEW x \in s, x # c PROVE g[s] = Discount(x) + g[s \ {x}]
    <3>1. c \in s \ {x} /\ x \in s \ {c} /\ (s \ {x}) \ {c} = (s \ {c}) \ {x}
      BY <2>1, <2>5
    <3>2. g[s \ {x}] \in Nat /\ g[s \ {x}] = Discount(c) + g[(s \ {x}) \ {c}]
      BY <1>3, <3>1
    <3>3. g[s \ {c}] = Discount(x) + g[(s \ {c}) \ {x}]
      BY <2>3, <3>1
    <3>4. g[(s \ {c}) \ {x}] \in Nat /\ Discount(x) \in Nat /\ Discount(c) \in Nat
      BY <2>1, SumsAreNumbers
    <3> DEFINE lc == Discount(c)
               lx == Discount(x)
               rest == g[(s \ {c}) \ {x}]
    <3>5. rest \in Nat /\ lc \in Nat /\ lx \in Nat
      BY <3>4
    <3>6. g[s] = lc + g[s \ {c}] /\ g[s \ {c}] = lx + rest /\ g[s \ {x}] = lc + rest
      BY <2>2, <3>1, <3>2, <3>3
    <3> HIDE DEF lc, lx, rest
    <3>7. g[s] = lx + g[s \ {x}]
      BY <3>5, <3>6
    <3> QED
      BY <3>7 DEF lx
  <2> QED
    BY <2>2, <2>4, <2>5
<1>4. X \in Q
  <2> HIDE DEF Q
  <2> QED
    BY <1>2, <1>3, EverySubset
<1> QED
  BY <1>4

LEMMA SumsAgree ==
  ASSUME NEW X, NEW Y \in SUBSET X, IsFiniteSet(X),
         NEW g, Sums(g, X), NEW h, Sums(h, Y)
  PROVE  g[Y] = h[Y]
<1> DEFINE Q == {s \in SUBSET Y : g[s] = h[s]}
<1>1. \A s \in SUBSET X :
        g[s] = IF s = {} THEN 0
               ELSE Discount(CHOOSE i \in s : TRUE) + g[s \ {CHOOSE i \in s : TRUE}]
  BY Zenon DEF Sums
<1>2. \A s \in SUBSET Y :
        h[s] = IF s = {} THEN 0
               ELSE Discount(CHOOSE i \in s : TRUE) + h[s \ {CHOOSE i \in s : TRUE}]
  BY Zenon DEF Sums
<1>3. {} \in Q
  BY <1>1, <1>2
<1>4. ASSUME NEW s \in SUBSET Y, s # {}, \A x \in s : s \ {x} \in Q PROVE s \in Q
  <2> DEFINE c == CHOOSE i \in s : TRUE
  <2>1. c \in s /\ s \in SUBSET X
    BY <1>4
  <2>2. g[s] = Discount(c) + g[s \ {c}] /\ h[s] = Discount(c) + h[s \ {c}]
    BY <1>1, <1>2, <1>4, <2>1, Zenon
  <2> HIDE DEF c
  <2>3. g[s \ {c}] = h[s \ {c}]
    BY <1>4, <2>1
  <2> QED
    BY <2>2, <2>3
<1>5. Y \in Q
  <2>1. IsFiniteSet(Y)
    BY FS_Subset
  <2> HIDE DEF Q
  <2> QED
    BY <1>3, <1>4, <2>1, EverySubset
<1> QED
  BY <1>5

Total(X) == MapThenSumSet(Discount, X)

LEMMA TotalAdds ==
  ASSUME NEW X, IsFiniteSet(X), \A i \in X : Discount(i) \in Nat
  PROVE  /\ Total(X) \in Nat
         /\ X = {} => Total(X) = 0
         /\ \A x \in X : Total(X \ {x}) \in Nat /\ Total(X) = Discount(x) + Total(X \ {x})
<1> DEFINE g(Y) == CHOOSE h : Sums(h, Y)
<1>1. \A Y \in SUBSET X : Sums(g(Y), Y) /\ IsFiniteSet(Y)
  <2> TAKE Y \in SUBSET X
  <2>1. IsFiniteSet(Y)
    BY FS_Subset
  <2>2. \E h : Sums(h, Y)
    BY <2>1, SumsExist
  <2> QED
    BY <2>1, <2>2, Zenon
<1>2. \A Y \in SUBSET X : Total(Y) = g(Y)[Y]
  BY DEF Total, MapThenSumSet, MapThenFoldSet, Sums
<1> HIDE DEF g
<1>3. \A Y \in SUBSET X : Total(Y) \in Nat
  BY <1>1, <1>2, SumsAdd
<1>4. ASSUME X = {} PROVE Total(X) = 0
  <2>1. Sums(g(X), X)
    BY <1>1
  <2>2. g(X)[X] = 0
    BY <1>4, <2>1 DEF Sums
  <2> QED
    BY <1>2, <2>2
<1>5. ASSUME NEW x \in X PROVE Total(X) = Discount(x) + Total(X \ {x})
  <2> DEFINE Y == X \ {x}
             gx == g(X)
             gy == g(Y)
  <2>1. Y \in SUBSET X /\ Sums(gx, X) /\ Sums(gy, Y) /\ X \in SUBSET X
    BY <1>1
  <2>2. Total(X) = gx[X] /\ Total(Y) = gy[Y]
    BY <1>2, <2>1
  <2> HIDE DEF gx, gy
  <2>3. gx[X] = Discount(x) + gx[X \ {x}]
    BY <2>1, SumsAdd
  <2> HIDE DEF Y
  <2>4. gx[Y] = gy[Y]
    BY <2>1, SumsAgree
  <2> QED
    BY <2>2, <2>3, <2>4 DEF Y
<1> QED
  BY <1>3, <1>4, <1>5

\* Discounts fall with the rank.
LEMMA DiscountsFall ==
  ASSUME NEW a \in 1 .. Cardinality(Docs), NEW b \in 1 .. Cardinality(Docs), a <= b
  PROVE  /\ Discount(a) \in Nat /\ Discount(b) \in Nat
         /\ Discount(b) <= Discount(a) /\ Discount(a) > 0
<1>0. Cardinality(Docs) \in Nat
  BY ScoreAssumption, FS_CardinalityType
<1> DEFINE N == Cardinality(Docs)
<1>1. \A i \in 1 .. N : /\ Discount(i) \in Nat /\ Discount(i + 1) \in Nat
                        /\ Discount(i) >= Discount(i + 1) /\ Discount(i + 1) > 0
  BY BenchAssumption
<1> HIDE DEF N
<1> DEFINE Q == {n \in Nat : a + n \in 1 .. N => Discount(a + n) <= Discount(a)}
<1>2. 0 \in Q
  <2>1. a + 0 = a
    BY <1>0 DEF N
  <2> QED
    BY <1>1, <2>1 DEF N
<1>3. ASSUME NEW n \in Nat, n \in Q PROVE n + 1 \in Q
  <2> SUFFICES ASSUME a + (n + 1) \in 1 .. N PROVE Discount(a + (n + 1)) <= Discount(a)
    OBVIOUS
  <2> DEFINE i == a + n
  <2>1. i \in 1 .. N /\ a + (n + 1) = i + 1 /\ a \in 1 .. N
    BY <1>0 DEF N
  <2>2. Discount(i) <= Discount(a)
    BY <1>3, <2>1
  <2> HIDE DEF i
  <2>3. Discount(i + 1) <= Discount(i) /\ Discount(i) \in Nat /\ Discount(i + 1) \in Nat /\ Discount(a) \in Nat
    BY <1>1, <2>1
  <2>4. Discount(i + 1) <= Discount(a)
    BY <2>2, <2>3
  <2> QED
    BY <2>1, <2>4
<1> HIDE DEF Q
<1>4. \A n \in Nat : n \in Q
  BY <1>2, <1>3, AllNumbers
<1>5. b - a \in Nat /\ a + (b - a) = b /\ b \in 1 .. N
  BY <1>0 DEF N
<1>6. Discount(b) <= Discount(a)
  BY <1>4, <1>5 DEF Q
<1>7. Discount(a) >= Discount(a + 1) /\ Discount(a + 1) > 0 /\ Discount(a) \in Nat /\ Discount(a + 1) \in Nat
  BY <1>1 DEF N
<1> QED
  BY <1>1, <1>5, <1>6, <1>7 DEF N

\* No ranks are worth more than the first.
LEMMA FirstRanksAreBest ==
  ASSUME NEW L \in Nat, L <= Cardinality(Docs), NEW n \in Nat, n <= L,
         NEW F \in SUBSET (1 .. L), Cardinality(F) <= n
  PROVE  /\ Total(F) \in Nat /\ Total(1 .. n) \in Nat /\ Total(F) <= Total(1 .. n)
         /\ F = {} => Total(F) = 0
         /\ F # {} => Total(F) > 0
<1>0. Cardinality(Docs) \in Nat
  BY ScoreAssumption, FS_CardinalityType
<1>1. /\ \A i \in 1 .. L : Discount(i) \in Nat /\ Discount(i) > 0
      /\ \A i, j \in 1 .. L : i <= j => Discount(j) <= Discount(i)
  <2>1. \A i \in 1 .. L : i \in 1 .. Cardinality(Docs) /\ i <= i
    BY <1>0
  <2> QED
    BY <2>1, DiscountsFall
<1>2. ASSUME NEW G \in SUBSET (1 .. L)
      PROVE  /\ IsFiniteSet(G) /\ Total(G) \in Nat
             /\ G = {} => Total(G) = 0
             /\ \A x \in G : Total(G \ {x}) \in Nat /\ Total(G) = Discount(x) + Total(G \ {x})
  <2>0. IsFiniteSet(1 .. L)
    BY FS_Interval
  <2>1. IsFiniteSet(G)
    BY <2>0, FS_Subset
  <2> QED
    BY <1>1, <2>1, TotalAdds
<1> DEFINE Q == {m \in Nat : m <= L => \A G \in SUBSET (1 .. L) :
                                          Cardinality(G) <= m => Total(G) <= Total(1 .. m)}
<1>3. 0 \in Q
  <2> SUFFICES ASSUME NEW G \in SUBSET (1 .. L), Cardinality(G) <= 0
               PROVE  Total(G) <= Total(1 .. 0)
    OBVIOUS
  <2>1. IsFiniteSet(G)
    BY <1>2
  <2>2. G = {}
    BY <2>1, FS_CardinalityType, FS_EmptySet
  <2>3. 1 .. 0 = {}
    OBVIOUS
  <2>4. Total(G) = 0 /\ Total(1 .. 0) = 0
    BY <1>2, <2>2, <2>3
  <2> QED
    BY <2>4
<1>4. ASSUME NEW m \in Nat, m \in Q PROVE m + 1 \in Q
  <2> SUFFICES ASSUME m + 1 <= L, NEW G \in SUBSET (1 .. L), Cardinality(G) <= m + 1
               PROVE  Total(G) <= Total(1 .. (m + 1))
    OBVIOUS
  <2> DEFINE I == 1 .. (m + 1)
             J == 1 .. m
  <2>1. I \in SUBSET (1 .. L) /\ J \in SUBSET (1 .. L) /\ m + 1 \in I /\ I \ {m + 1} = J /\ m + 1 \in 1 .. L
    OBVIOUS
  <2> HIDE DEF I, J
  <2>2. Total(I) = Discount(m + 1) + Total(J) /\ Total(I) \in Nat /\ Total(J) \in Nat /\ Discount(m + 1) \in Nat
    BY <1>1, <1>2, <2>1
  <2>3. IsFiniteSet(G) /\ Cardinality(G) \in Nat
    BY <1>2, FS_CardinalityType
  <2>4. \A H \in SUBSET (1 .. L) : Cardinality(H) <= m => Total(H) <= Total(J)
    BY <1>4 DEF J
  <2>5. CASE Cardinality(G) <= m
    <3>1. Total(G) <= Total(J) /\ Total(G) \in Nat
      BY <1>2, <2>4, <2>5
    <3>2. Total(G) <= Total(I)
      BY <2>2, <3>1
    <3> QED
      BY <3>2 DEF I
  <2>6. CASE Cardinality(G) = m + 1
    <3> DEFINE x == Max(G)
    <3>1. G # {} /\ G \subseteq Nat
      BY <2>3, <2>6, FS_EmptySet
    <3>2. x \in G /\ \A y \in G : y <= x
      BY <2>3, <3>1, GreatestIn
    <3> HIDE DEF x
    <3>3. x \in 1 .. L /\ G \subseteq 1 .. x
      BY <3>2
    <3>4. m + 1 <= x
      <4>1. Cardinality(1 .. x) = x /\ IsFiniteSet(1 .. x)
        BY <3>3, FS_Interval
      <4> QED
        BY <2>6, <3>3, <4>1, FS_Subset
    <3>5. Discount(x) <= Discount(m + 1) /\ Discount(x) \in Nat
      BY <1>1, <2>1, <3>3, <3>4
    <3> DEFINE H == G \ {x}
    <3>6. H \in SUBSET (1 .. L) /\ Cardinality(H) = m
      <4>1. Cardinality(H) = Cardinality(G) - 1
        BY <2>3, <3>2, FS_RemoveElement
      <4>2. H \in SUBSET (1 .. L)
        OBVIOUS
      <4> HIDE DEF H
      <4>3. Cardinality(H) = m
        BY <2>6, <4>1
      <4> QED
        BY <4>2, <4>3
    <3>7. Total(G) = Discount(x) + Total(H) /\ Total(H) \in Nat
      BY <1>2, <3>2
    <3> HIDE DEF H
    <3>8. Total(H) <= Total(J)
      BY <2>4, <3>6
    <3>9. Total(G) <= Total(I)
      BY <2>2, <3>5, <3>7, <3>8
    <3> QED
      BY <3>9 DEF I
  <2> QED
    BY <2>3, <2>5, <2>6
<1>5. n \in Q
  <2> HIDE DEF Q
  <2> QED
    BY <1>3, <1>4, AllNumbers
<1>6. 1 .. n \in SUBSET (1 .. L)
  OBVIOUS
<1>7. ASSUME F # {} PROVE Total(F) > 0
  <2>1. PICK x \in F : TRUE
    BY <1>7
  <2>2. Total(F) = Discount(x) + Total(F \ {x}) /\ Total(F \ {x}) \in Nat /\ Discount(x) \in Nat /\ Discount(x) > 0
    BY <1>1, <1>2
  <2> QED
    BY <2>2
<1>8. Total(F) <= Total(1 .. n)
  BY <1>5
<1> QED
  BY <1>2, <1>6, <1>7, <1>8

\* What is found at the first k ranks.
LEMMA FoundType ==
  ASSUME NEW ranked \in Seq(Docs), IsInjective(ranked), NEW relevant \in SUBSET Docs, NEW k \in Nat
  PROVE  LET F == Found(ranked, relevant, k)
             L == Least(k, Len(ranked))
         IN  /\ F = {i \in 1 .. L : ranked[i] \in relevant} /\ F \in SUBSET (1 .. L)
             /\ L \in Nat /\ L <= k /\ L <= Len(ranked) /\ L <= Cardinality(Docs)
             /\ IsFiniteSet(F) /\ Cardinality(F) \in Nat /\ Cardinality(F) <= L
             /\ IsFiniteSet(relevant) /\ Cardinality(relevant) \in Nat
             /\ Cardinality(F) <= Cardinality(relevant \cap ToSet(ranked))
             /\ Cardinality(relevant \cap ToSet(ranked)) \in Nat
             /\ Cardinality(relevant \cap ToSet(ranked)) <= Cardinality(relevant)
<1> DEFINE F == Found(ranked, relevant, k)
           L == Least(k, Len(ranked))
           R == relevant \cap ToSet(ranked)
<1>1. /\ L \in Nat /\ L <= k /\ L <= Len(ranked) /\ DOMAIN Prefix(ranked, k) = 1 .. L
      /\ \A i \in 1 .. L : i \in DOMAIN ranked
  BY PrefixType
<1>2. F = {i \in 1 .. L : ranked[i] \in relevant}
  BY <1>1 DEF Found
<1> HIDE DEF L, F
<1>3. F \in SUBSET (1 .. L) /\ IsFiniteSet(F) /\ Cardinality(F) \in Nat /\ Cardinality(F) <= L
  <2>1. IsFiniteSet(1 .. L) /\ Cardinality(1 .. L) = L
    BY <1>1, FS_Interval
  <2>2. F \in SUBSET (1 .. L)
    BY <1>2
  <2> QED
    BY <2>1, <2>2, FS_Subset, FS_CardinalityType
<1>4. L <= Cardinality(Docs)
  <2> DEFINE g == [i \in 1 .. L |-> ranked[i]]
  <2>1. g \in Injection(1 .. L, Docs)
    <3>1. \A i \in 1 .. L : ranked[i] \in Docs
      BY <1>1
    <3> QED
      BY <1>1, <3>1 DEF Injection, IsInjective
  <2> HIDE DEF g
  <2>2. Cardinality(1 .. L) = L
    BY <1>1, FS_Interval
  <2> QED
    BY <2>1, <2>2, ScoreAssumption, FS_Injection
<1>5. /\ IsFiniteSet(relevant) /\ Cardinality(relevant) \in Nat
      /\ IsFiniteSet(R) /\ Cardinality(R) \in Nat /\ Cardinality(R) <= Cardinality(relevant)
  <2>1. IsFiniteSet(relevant)
    BY ScoreAssumption, FS_Subset
  <2>2. R \subseteq relevant
    OBVIOUS
  <2> HIDE DEF R
  <2> QED
    BY <2>1, <2>2, FS_Subset, FS_CardinalityType
<1>6. Cardinality(F) <= Cardinality(R)
  <2> DEFINE g == [i \in F |-> ranked[i]]
  <2>1. \A i \in F : ranked[i] \in R /\ i \in DOMAIN ranked
    BY <1>1, <1>2 DEF ToSet
  <2> HIDE DEF R
  <2>2. g \in Injection(F, R)
    BY <2>1 DEF Injection, IsInjective
  <2> HIDE DEF g
  <2> QED
    BY <1>5, <2>2, FS_Injection
<1> QED
  BY <1>1, <1>2, <1>3, <1>4, <1>5, <1>6 DEF F, L

-----------------------------------------------------------------------------
(* A cell of the sweep. *)

\* The best document is the one of the best hit.
LEMMA FirstOfUnique ==
  ASSUME NEW S, NEW s \in Seq(S), s # <<>>
  PROVE  Len(Unique(s)) >= 1 /\ Unique(s)[1] = s[1]
<1> DEFINE I == Firsts(s)
<1>1. Len(s) \in Nat /\ Len(s) > 0 /\ DOMAIN s = 1 .. Len(s)
  OBVIOUS
<1>2. 1 \in I /\ I \subseteq DOMAIN s
  BY <1>1 DEF Firsts
<1>3. Unique(s) = Selected(s, I)
  BY DEF Unique, Firsts
<1> HIDE DEF I
<1>4. /\ Selected(s, I) \in Seq(S)
      /\ \E k \in DOMAIN Selected(s, I) : k <= 1 /\ Selected(s, I)[k] = s[1]
  BY <1>2, SelectedType
<1> DEFINE u == Selected(s, I)
<1> HIDE DEF u
<1>5. u \in Seq(S) /\ \E k \in DOMAIN u : k <= 1 /\ u[k] = s[1]
  BY <1>4 DEF u
<1>6. PICK k \in DOMAIN u : k <= 1 /\ u[k] = s[1]
  BY <1>5
<1>7. k = 1 /\ Len(u) >= 1
  BY <1>5, <1>6
<1> QED
  BY <1>3, <1>6, <1>7 DEF u

LEMMA LowestOf ==
  ASSUME NEW S, S \subseteq Nat, S # {}
  PROVE  /\ Min(S) \in S /\ \A s \in S : Min(S) <= s
         /\ S \subseteq Nat \ {0} => (1 \in S <=> Min(S) = 1)
<1>1. PICK m \in S : \A s \in S : m <= s
  BY LeastIn
<1>2. Min(S) = m
  <2>1. \A x \in S : (\A y \in S : x <= y) => x = m
    BY <1>1
  <2> QED
    BY <1>1, <2>1 DEF Min
<1>3. S \subseteq Nat \ {0} => (1 \in S <=> m = 1)
  <2> SUFFICES ASSUME S \subseteq Nat \ {0} PROVE 1 \in S <=> m = 1
    OBVIOUS
  <2>1. m \in Nat \ {0} /\ (1 \in S => m <= 1)
    BY <1>1
  <2> QED
    BY <1>1, <2>1
<1> QED
  BY <1>1, <1>2, <1>3

LEMMA CellIsHonest ==
  ASSUME StoredInv, NEW q \in Questions, NEW hits \in Seq(Records)
  PROVE  LET rep == Cell(q, hits)
             hit == {rec[1] : rec \in ToSet(hits)}
         IN  /\ \A m \in {rep.ndcg, rep.mrr, rep.recallNear, rep.recallFar} :
                  0 <= m[1] /\ m[1] <= m[2]
             /\ (rep.ndcg[1] > 0) = (rep.recallNear[1] > 0)
             /\ (rep.mrr[1] > 0) = (rep.recallNear[1] > 0)
             /\ hits # <<>> => (rep.mrr = <<1, 1>>) = (hits[1][1] \in q.relevant)
             /\ rep.recallNear[1] <= rep.recallFar[1]
             /\ rep.recallFar[1] <= Cardinality(q.relevant \cap hit)
<1> DEFINE rel == q.relevant
           ranked == RankedDocs(hits)
           near == Found(ranked, rel, Near)
           far == Found(ranked, rel, Far)
           L == Least(Near, Len(ranked))
           M == Least(Far, Len(ranked))
           c == Cardinality(rel)
           n == Least(c, L)
           hit == {rec[1] : rec \in ToSet(hits)}
           rep == Cell(q, hits)
<1>1. /\ rel \in SUBSET Docs /\ rel # {} /\ Near \in Nat \ {0} /\ Far \in Nat \ {0}
      /\ Near <= Far /\ TopKReport \in Nat \ {0}
  BY BenchAssumption
<1>2. /\ rep.ndcg = Ndcg(ranked, rel, Near) /\ rep.mrr = Mrr(ranked, rel, Near)
      /\ rep.recallNear = <<Cardinality(near), c>> /\ rep.recallFar = <<Cardinality(far), c>>
  BY DEF Cell, Recall
<1>3. /\ rep.mrr = IF near = {} THEN <<0, 1>> ELSE <<1, Min(near)>>
      /\ rep.ndcg = IF near = {} THEN <<0, 1>> ELSE <<Total(near), Total(1 .. n)>>
  BY <1>2 DEF Mrr, Ndcg, Total
<1> HIDE DEF rep, rel
<1>4. /\ Ranked(hits) \in Seq(Docs) /\ IsInjective(Ranked(hits)) /\ ToSet(Ranked(hits)) = hit
      /\ DocsOf(hits) \in Seq(Docs) /\ Len(DocsOf(hits)) = Len(hits)
  BY DocsType
<1>5. /\ ranked \in Seq(Docs) /\ IsInjective(ranked) /\ ToSet(ranked) \subseteq hit
  <2> DEFINE all == Ranked(hits)
             l == Least(TopKReport, Len(all))
  <2>1. /\ ranked \in Seq(Docs) /\ IsInjective(ranked) /\ DOMAIN ranked = 1 .. l
        /\ \A i \in 1 .. l : i \in DOMAIN all /\ ranked[i] = all[i]
    BY <1>1, <1>4, PrefixType DEF RankedDocs
  <2> HIDE DEF ranked, all, l
  <2>2. ToSet(ranked) \subseteq ToSet(all)
    BY <2>1 DEF ToSet
  <2> QED
    BY <1>4, <2>1, <2>2 DEF all
<1>6. hits # <<>> => 1 \in DOMAIN ranked /\ ranked[1] = hits[1][1]
  <2> SUFFICES ASSUME hits # <<>> PROVE 1 \in DOMAIN ranked /\ ranked[1] = hits[1][1]
    OBVIOUS
  <2>1. DocsOf(hits) # <<>> /\ DocsOf(hits)[1] = hits[1][1]
    BY <1>4 DEF DocsOf
  <2>2. Len(Ranked(hits)) >= 1 /\ Ranked(hits)[1] = hits[1][1]
    BY <1>4, <2>1, FirstOfUnique DEF Ranked
  <2> DEFINE all == Ranked(hits)
             l == Least(TopKReport, Len(all))
  <2>3. DOMAIN ranked = 1 .. l /\ \A i \in 1 .. l : i \in DOMAIN all /\ ranked[i] = all[i]
    BY <1>1, <1>4, PrefixType DEF RankedDocs
  <2>4. l >= 1 /\ l \in Nat
    BY <1>1, <1>4, <2>2 DEF Least
  <2> HIDE DEF ranked, l, all
  <2> QED
    BY <2>2, <2>3, <2>4 DEF all
<1> HIDE DEF ranked, hit
<1>7. /\ near = {i \in 1 .. L : ranked[i] \in rel} /\ near \in SUBSET (1 .. L)
      /\ L \in Nat /\ L <= Near /\ L <= Len(ranked) /\ L <= Cardinality(Docs)
      /\ IsFiniteSet(near) /\ Cardinality(near) \in Nat /\ Cardinality(near) <= L
      /\ IsFiniteSet(rel) /\ c \in Nat
      /\ Cardinality(near) <= Cardinality(rel \cap ToSet(ranked))
      /\ Cardinality(rel \cap ToSet(ranked)) \in Nat
      /\ Cardinality(rel \cap ToSet(ranked)) <= c
  BY <1>1, <1>5, FoundType
<1>8. /\ far = {i \in 1 .. M : ranked[i] \in rel} /\ far \in SUBSET (1 .. M)
      /\ M \in Nat /\ M <= Far /\ M <= Len(ranked) /\ M <= Cardinality(Docs)
      /\ IsFiniteSet(far) /\ Cardinality(far) \in Nat /\ Cardinality(far) <= M
      /\ Cardinality(far) <= Cardinality(rel \cap ToSet(ranked))
  <2>1. Far \in Nat
    BY <1>1
  <2>2. rel \in SUBSET Docs /\ ranked \in Seq(Docs) /\ IsInjective(ranked)
    BY <1>1, <1>5
  <2> QED
    BY <2>1, <2>2, FoundType, Zenon
<1>9. L <= M /\ L = Least(Near, Len(ranked)) /\ Len(ranked) \in Nat
  <2>1. Len(ranked) \in Nat
    BY <1>5
  <2> QED
    BY <1>1, <2>1 DEF Least
<1> HIDE DEF near, far, L, M, c
<1>10. near \subseteq far /\ Cardinality(near) <= Cardinality(far)
  <2>1. near \subseteq far
    BY <1>7, <1>8, <1>9
  <2> QED
    BY <1>8, <2>1, FS_Subset
<1>11. Cardinality(far) <= Cardinality(rel \cap hit) /\ Cardinality(rel \cap hit) \in Nat
       /\ Cardinality(far) <= c /\ Cardinality(near) <= c
  <2> DEFINE A == rel \cap ToSet(ranked)
             B == rel \cap hit
  <2>1. A \subseteq B /\ B \subseteq rel
    BY <1>5
  <2>2. Cardinality(far) <= Cardinality(A) /\ Cardinality(A) \in Nat /\ Cardinality(A) <= c
        /\ Cardinality(near) <= Cardinality(A)
    BY <1>7, <1>8
  <2> HIDE DEF A, B
  <2>3. IsFiniteSet(B) /\ Cardinality(A) <= Cardinality(B) /\ Cardinality(B) \in Nat
    BY <1>7, <2>1, FS_Subset, FS_CardinalityType
  <2>4. Cardinality(far) <= Cardinality(B) /\ Cardinality(far) <= c /\ Cardinality(near) <= c
    BY <1>7, <1>8, <2>2, <2>3
  <2> QED
    BY <2>3, <2>4 DEF B
<1>12. n \in Nat /\ n <= L /\ n <= c /\ Cardinality(near) <= n
  <2>1. n \in Nat /\ n <= L /\ n <= c /\ n \in {c, L}
    BY <1>7, LeastType
  <2> HIDE DEF n
  <2> QED
    BY <1>7, <1>11, <2>1
<1> HIDE DEF n
<1>13. /\ Total(near) \in Nat /\ Total(1 .. n) \in Nat /\ Total(near) <= Total(1 .. n)
       /\ near # {} => Total(near) > 0
  BY <1>7, <1>12, FirstRanksAreBest
<1>14. near # {} => Min(near) \in Nat /\ Min(near) >= 1 /\ (1 \in near <=> Min(near) = 1)
  <2>1. near \subseteq Nat \ {0} /\ near \subseteq Nat
    BY <1>7
  <2>2. near # {} => Min(near) \in near /\ (1 \in near <=> Min(near) = 1)
    BY <2>1, LowestOf
  <2>3. \A x \in near : x \in Nat /\ x >= 1
    BY <2>1
  <2> QED
    BY <2>2, <2>3
<1>15. near = {} <=> Cardinality(near) = 0
  BY <1>7, FS_EmptySet
<1>16. hits # <<>> => (1 \in near <=> hits[1][1] \in rel)
  <2>1. 1 \in DOMAIN ranked => 1 \in 1 .. L
    BY <1>1, <1>5, <1>7, <1>9 DEF Least
  <2> QED
    BY <1>6, <1>7, <2>1
<1>17. \A m \in {rep.ndcg, rep.mrr, rep.recallNear, rep.recallFar} : 0 <= m[1] /\ m[1] <= m[2]
  <2>1. 0 <= rep.ndcg[1] /\ rep.ndcg[1] <= rep.ndcg[2]
    <3>1. CASE near = {}
      BY <1>3, <3>1
    <3>2. CASE near # {}
      BY <1>3, <1>13, <3>2
    <3> QED
      BY <3>1, <3>2
  <2>2. 0 <= rep.mrr[1] /\ rep.mrr[1] <= rep.mrr[2]
    <3>1. CASE near = {}
      BY <1>3, <3>1
    <3>2. CASE near # {}
      BY <1>3, <1>14, <3>2
    <3> QED
      BY <3>1, <3>2
  <2>3. 0 <= rep.recallNear[1] /\ rep.recallNear[1] <= rep.recallNear[2]
    BY <1>2, <1>7, <1>11 DEF c
  <2>4. 0 <= rep.recallFar[1] /\ rep.recallFar[1] <= rep.recallFar[2]
    BY <1>2, <1>8, <1>11 DEF c
  <2> QED
    BY <2>1, <2>2, <2>3, <2>4
<1>18. (rep.ndcg[1] > 0) = (rep.recallNear[1] > 0) /\ (rep.mrr[1] > 0) = (rep.recallNear[1] > 0)
  <2>1. CASE near = {}
    <3>1. rep.ndcg[1] = 0 /\ rep.mrr[1] = 0 /\ rep.recallNear[1] = 0
      BY <1>2, <1>3, <1>15, <2>1
    <3> QED
      BY <3>1
  <2>2. CASE near # {}
    <3>1. rep.ndcg[1] = Total(near) /\ rep.mrr[1] = 1 /\ rep.recallNear[1] = Cardinality(near)
      BY <1>2, <1>3, <2>2
    <3>2. Total(near) > 0 /\ Cardinality(near) > 0
      BY <1>7, <1>13, <1>15, <2>2
    <3> QED
      BY <3>1, <3>2
  <2> QED
    BY <2>1, <2>2
<1>19. hits # <<>> => (rep.mrr = <<1, 1>>) = (hits[1][1] \in rel)
  <2> SUFFICES ASSUME hits # <<>> PROVE (rep.mrr = <<1, 1>>) <=> hits[1][1] \in rel
    OBVIOUS
  <2>1. CASE near = {}
    <3>1. rep.mrr = <<0, 1>> /\ 1 \notin near
      BY <1>3, <2>1
    <3>2. <<0, 1>> # <<1, 1>>
      OBVIOUS
    <3> QED
      BY <1>16, <3>1, <3>2
  <2>2. CASE near # {}
    <3>1. rep.mrr = <<1, Min(near)>>
      BY <1>3, <2>2
    <3>2. (<<1, Min(near)>> = <<1, 1>>) <=> Min(near) = 1
      OBVIOUS
    <3> QED
      BY <1>14, <1>16, <2>2, <3>1, <3>2
  <2> QED
    BY <2>1, <2>2
<1>20. rep.recallNear[1] <= rep.recallFar[1] /\ rep.recallFar[1] <= Cardinality(rel \cap hit)
  BY <1>2, <1>10, <1>11
<1> QED
  BY <1>17, <1>18, <1>19, <1>20 DEF rep, rel, hit

CellRight(rep) ==
  LET hit == {rec[1] : rec \in ToSet(rep.hits)}
  IN  /\ \A m \in {rep.ndcg, rep.mrr, rep.recallNear, rep.recallFar} :
           0 <= m[1] /\ m[1] <= m[2]
      /\ (rep.ndcg[1] > 0) = (rep.recallNear[1] > 0)
      /\ (rep.mrr[1] > 0) = (rep.recallNear[1] > 0)
      /\ rep.hits # <<>> => (rep.mrr = <<1, 1>>) = (rep.hits[1][1] \in rep.question.relevant)
      /\ rep.recallNear[1] <= rep.recallFar[1]
      /\ rep.recallFar[1] <= Cardinality(rep.question.relevant \cap hit)

\* The metrics of a report that appears are right.
LEMMA CellStep ==
  ASSUME StoredInv, BenchNext, report' # NoReport, report'.tool = "runner"
  PROVE  CellRight(report')
<1>1. PICK q \in Questions :
        \E hits : Scored(q, hits) \/ (hits \in Answers(Question(q)) /\ Evaluated(q, hits))
  BY ReportMade
<1>2. PICK hits : Scored(q, hits) \/ (hits \in Answers(Question(q)) /\ Evaluated(q, hits))
  BY <1>1
<1>3. Scored(q, hits)
  BY <1>2, Tools
<1>4. hits \in Seq(Records) /\ report' = Cell(q, hits)
  BY <1>3, AnswerIsList DEF Scored
<1> DEFINE rep == Cell(q, hits)
<1>5. rep.hits = hits /\ rep.question = q
  BY DEF Cell
<1>6. CellRight(rep)
  <2> DEFINE P == CellRight(rep)
  <2>1. P <=> LET hit == {rec[1] : rec \in ToSet(hits)}
              IN  /\ \A m \in {rep.ndcg, rep.mrr, rep.recallNear, rep.recallFar} :
                       0 <= m[1] /\ m[1] <= m[2]
                  /\ (rep.ndcg[1] > 0) = (rep.recallNear[1] > 0)
                  /\ (rep.mrr[1] > 0) = (rep.recallNear[1] > 0)
                  /\ hits # <<>> => (rep.mrr = <<1, 1>>) = (hits[1][1] \in q.relevant)
                  /\ rep.recallNear[1] <= rep.recallFar[1]
                  /\ rep.recallFar[1] <= Cardinality(q.relevant \cap hit)
    <3> HIDE DEF rep
    <3> QED
      BY <1>5 DEF CellRight
  <2> QED
    BY <1>4, <2>1, CellIsHonest
<1> QED
  BY <1>4, <1>6

\* Of whatever is found, no metric exceeds one, all agree on whether anything
\* relevant was found, and none counts what was not hit.
THEOREM CellsAreHonest == BenchSpec => []CellsHonest
<1>1. BenchInit => CellsHonest
  BY DEF BenchInit, CellsHonest
<1>2. SearchInv /\ CellsHonest /\ [BenchNext]_benchVars => CellsHonest'
  <2> SUFFICES ASSUME SearchInv, CellsHonest, [BenchNext]_benchVars,
                      report' # NoReport, report'.tool = "runner"
               PROVE  CellsHonest'
    BY DEF CellsHonest
  <2>1. CASE UNCHANGED benchVars
    BY <2>1 DEF CellsHonest, benchVars, vars
  <2>2. CASE BenchNext
    <3>1. CellRight(report')
      BY <2>2, CellStep DEF SearchInv
    <3> QED
      BY <3>1 DEF CellRight, CellsHonest
  <2> QED
    BY <2>1, <2>2
<1> QED
  BY <1>1, <1>2, SearchInvariant, BenchesOnlyRead, PTL DEF BenchSpec, Spec

-----------------------------------------------------------------------------
(* The band of dates. *)

\* Unique takes what stands at the first places.
LEMMA UniquePlaces ==
  ASSUME NEW S, NEW s \in Seq(S)
  PROVE  \E o : Picks(o, s, Firsts(s)) /\ Unique(s) = Selected(s, Firsts(s))
                /\ Firsts(s) \subseteq DOMAIN s /\ IsFiniteSet(Firsts(s))
<1>1. DOMAIN s = 1 .. Len(s) /\ Len(s) \in Nat
  OBVIOUS
<1>2. Firsts(s) \in SUBSET (1 .. Len(s))
  BY <1>1 DEF Firsts
<1>3. IsFiniteSet(1 .. Len(s))
  BY <1>1, FS_Interval
<1>4. IsFiniteSet(Firsts(s)) /\ Firsts(s) \subseteq Nat /\ Firsts(s) \subseteq DOMAIN s
  BY <1>1, <1>2, <1>3, FS_Subset
<1>5. Unique(s) = Selected(s, Firsts(s))
  BY DEF Unique, Firsts
<1> QED
  BY <1>4, <1>5, SelectedPlaces

\* t is what s holds at the places I.
Keeps(t, s, I) == \E p : Lists(p, I) /\ t = [k \in 1 .. Cardinality(I) |-> s[p[k]]]

\* What is kept is found no later, when other things are filtered out.
LEMMA KeptIsEarlier ==
  ASSUME NEW S, NEW s \in Seq(S), NEW I, I \subseteq DOMAIN s,
         NEW t, Keeps(t, s, I),
         NEW i \in DOMAIN Unique(s), \A a \in DOMAIN s : s[a] = Unique(s)[i] => a \in I
  PROVE  \E j \in DOMAIN Unique(t) : j <= i /\ Unique(t)[j] = Unique(s)[i]
<1> DEFINE m == Cardinality(I)
           g == Unique(s)[i]
<1>1. PICK p : Lists(p, I) /\ t = [k \in 1 .. m |-> s[p[k]]]
  BY DEF Keeps
<1>2. DOMAIN s = 1 .. Len(s) /\ Len(s) \in Nat
  OBVIOUS
<1>3. /\ m \in Nat
      /\ \A k \in 1 .. m : p[k] \in I /\ p[k] \in DOMAIN s /\ p[k] \in Nat
      /\ \A k, l \in 1 .. m : k < l => p[k] < p[l]
      /\ \A a \in I : \E k \in 1 .. m : p[k] = a
  BY <1>1, <1>2 DEF Picks, Lists, Increasing
<1> HIDE DEF m
<1>4. t \in Seq(S) /\ DOMAIN t = 1 .. m /\ \A k \in 1 .. m : t[k] = s[p[k]]
  <2>1. \A k \in 1 .. m : s[p[k]] \in S
    BY <1>3
  <2> QED
    BY <1>1, <1>3, <2>1
<1> DEFINE n == Cardinality(Firsts(s))
           r == Cardinality(Firsts(t))
<1>5. PICK o : Picks(o, s, Firsts(s)) /\ Unique(s) = Selected(s, Firsts(s))
               /\ Firsts(s) \subseteq DOMAIN s
  BY UniquePlaces
<1>6. /\ n \in Nat
      /\ \A k \in 1 .. n : o[k] \in Firsts(s) /\ o[k] \in DOMAIN s /\ o[k] \in Nat
      /\ \A k, l \in 1 .. n : k < l => o[k] < o[l]
      /\ \A a \in Firsts(s) : \E k \in 1 .. n : o[k] = a
      /\ Unique(s) = [k \in 1 .. n |-> s[o[k]]]
  <2> DEFINE F == Firsts(s)
  <2>1. Picks(o, s, F) /\ Unique(s) = Selected(s, F) /\ F \subseteq DOMAIN s
    BY <1>5
  <2> HIDE DEF F
  <2>2. /\ Cardinality(F) \in Nat /\ o \in [1 .. Cardinality(F) -> F]
        /\ \A k, l \in 1 .. Cardinality(F) : k < l => o[k] < o[l]
        /\ \A a \in F : \E k \in 1 .. Cardinality(F) : o[k] = a
        /\ Unique(s) = [k \in 1 .. Cardinality(F) |-> s[o[k]]]
    BY <2>1 DEF Picks, Lists, Increasing
  <2>3. \A k \in 1 .. Cardinality(F) : o[k] \in F /\ o[k] \in DOMAIN s /\ o[k] \in Nat
    BY <1>2, <2>1, <2>2
  <2> QED
    BY <2>2, <2>3 DEF F
<1>7. PICK w : Picks(w, t, Firsts(t)) /\ Unique(t) = Selected(t, Firsts(t))
               /\ Firsts(t) \subseteq DOMAIN t
  BY <1>4, UniquePlaces
<1>8. /\ r \in Nat
      /\ \A k \in 1 .. r : w[k] \in Firsts(t) /\ w[k] \in 1 .. m /\ w[k] \in Nat
      /\ \A k, l \in 1 .. r : k < l => w[k] < w[l]
      /\ \A a \in Firsts(t) : \E k \in 1 .. r : w[k] = a
      /\ Unique(t) = [k \in 1 .. r |-> t[w[k]]]
  <2> DEFINE F == Firsts(t)
  <2>1. Picks(w, t, F) /\ Unique(t) = Selected(t, F) /\ F \subseteq 1 .. m
    BY <1>4, <1>7
  <2> HIDE DEF F
  <2>2. /\ Cardinality(F) \in Nat /\ w \in [1 .. Cardinality(F) -> F]
        /\ \A k, l \in 1 .. Cardinality(F) : k < l => w[k] < w[l]
        /\ \A a \in F : \E k \in 1 .. Cardinality(F) : w[k] = a
        /\ Unique(t) = [k \in 1 .. Cardinality(F) |-> t[w[k]]]
    BY <2>1 DEF Picks, Lists, Increasing
  <2>0. m \in Nat
    BY <1>3
  <2>3. \A a \in F : a \in 1 .. m /\ a \in Nat
    BY <2>0, <2>1
  <2>4. \A k \in 1 .. Cardinality(F) : w[k] \in F /\ w[k] \in 1 .. m /\ w[k] \in Nat
    BY <2>2, <2>3
  <2> QED
    BY <2>2, <2>4 DEF F
<1> HIDE DEF n, r
<1> DEFINE u == [k \in 1 .. n |-> s[o[k]]]
           v == [k \in 1 .. r |-> t[w[k]]]
<1>9. i \in 1 .. n /\ g = s[o[i]] /\ o[i] \in I
  <2>1. i \in 1 .. n /\ g = s[o[i]]
    BY <1>6
  <2> QED
    BY <1>6, <2>1
<1> HIDE DEF g
<1>10. PICK b \in 1 .. m : p[b] = o[i]
  BY <1>3, <1>9
<1>11. b \in Firsts(t)
  <2>1. ASSUME NEW c \in 1 .. (b - 1) PROVE t[c] # t[b]
    <3>1. c \in 1 .. m /\ c < b
      BY <1>3
    <3>2. p[c] < o[i] /\ p[c] \in Nat /\ p[c] \in 1 .. (o[i] - 1)
      <4>1. p[c] < p[b] /\ p[c] \in Nat /\ p[c] >= 1
        BY <1>2, <1>3, <3>1
      <4> QED
        BY <1>6, <1>9, <1>10, <4>1
    <3>3. s[p[c]] # s[o[i]]
      BY <1>6, <1>9, <3>2 DEF Firsts
    <3> QED
      BY <1>4, <1>10, <3>1, <3>3
  <2> QED
    BY <1>4, <2>1 DEF Firsts
<1>12. PICK j \in 1 .. r : w[j] = b
  BY <1>8, <1>11
<1>13. v[j] = g
  BY <1>4, <1>9, <1>10, <1>12
<1> DEFINE h == [l \in 1 .. j |-> CHOOSE k \in 1 .. i : u[k] = v[l]]
<1>14. ASSUME NEW l \in 1 .. j PROVE \E k \in 1 .. i : u[k] = v[l]
  <2>1. l \in 1 .. r /\ (l < j \/ l = j)
    BY <1>8
  <2>2. w[l] \in 1 .. m /\ w[l] \in Nat /\ (w[l] < b \/ w[l] = b)
    BY <1>8, <1>12, <2>1
  <2>3. p[w[l]] \in Nat /\ p[w[l]] \in DOMAIN s /\ (p[w[l]] < o[i] \/ p[w[l]] = o[i])
    BY <1>3, <1>10, <2>2
  <2> DEFINE a == p[w[l]]
  <2>4. a \in Nat /\ a \in DOMAIN s /\ a <= o[i] /\ v[l] = s[a]
    BY <1>4, <1>6, <1>9, <2>1, <2>2, <2>3
  <2> HIDE DEF a
  <2>5. PICK c \in Firsts(s) : c <= a /\ s[c] = s[a]
    BY <2>4, FirstFound
  <2>6. PICK k \in 1 .. n : o[k] = c
    BY <1>6, <2>5
  <2>7. o[k] <= o[i] /\ u[k] = v[l]
    BY <1>6, <1>9, <2>4, <2>5, <2>6
  <2>8. ~(i < k)
    BY <1>6, <1>9, <2>7
  <2>9. k \in 1 .. i
    BY <1>6, <1>9, <2>8
  <2> QED
    BY <2>7, <2>9
<1>15. \A l \in 1 .. j : h[l] \in 1 .. i /\ u[h[l]] = v[l]
  <2> TAKE l \in 1 .. j
  <2>1. h[l] = CHOOSE k \in 1 .. i : u[k] = v[l]
    OBVIOUS
  <2> HIDE DEF u, v, h
  <2>2. \E k \in 1 .. i : u[k] = v[l]
    BY <1>14
  <2> QED
    BY <2>1, <2>2, Zenon
<1>16. \A k, l \in 1 .. j : v[k] = v[l] => k = l
  <2>1. IsInjective(Unique(t))
    BY <1>4, UniqueType
  <2>2. \A k \in 1 .. j : k \in DOMAIN v
    BY <1>8
  <2> HIDE DEF v
  <2> QED
    BY <1>8, <2>1, <2>2 DEF IsInjective, v
<1> HIDE DEF u, v
<1>17. h \in Injection(1 .. j, 1 .. i)
  <2>1. h \in [1 .. j -> 1 .. i]
    BY <1>15
  <2>2. \A k, l \in 1 .. j : h[k] = h[l] => k = l
    <3> HIDE DEF h
    <3> QED
      BY <1>15, <1>16
  <2> HIDE DEF h
  <2> QED
    BY <2>1, <2>2 DEF Injection, IsInjective
<1>18. j <= i
  <2>1. j \in Nat /\ i \in Nat
    BY <1>6, <1>8, <1>9
  <2>2. \A x \in Nat : Cardinality(1 .. x) = x /\ IsFiniteSet(1 .. x)
    BY FS_Interval
  <2> HIDE DEF h
  <2>3. Cardinality(1 .. j) <= Cardinality(1 .. i)
    BY <1>17, <2>1, <2>2, FS_Injection
  <2> QED
    BY <2>1, <2>2, <2>3
<1>19. j \in DOMAIN Unique(t) /\ Unique(t)[j] = g
  BY <1>8, <1>13 DEF v
<1> QED
  BY <1>18, <1>19 DEF g

\* A session of the gold is in the band, if all of them have dates.
LEMMA GoldInBand ==
  ASSUME NEW q \in Questions, \A g \in q.gold : DateOf(g) # NoDate, NEW s \in q.gold
  PROVE  InBand(s, q.gold)
<1> DEFINE dates == {DateOf(g) : g \in q.gold} \ {NoDate}
           f == [g \in q.gold |-> DateOf(g)]
<1>1. /\ Slack \in Nat /\ IsFiniteSet(q.gold)
      /\ \A g \in q.gold : DateOf(g) \in Nat
  <2>1. \A g \in q.gold : DateOf(g) \in Nat \cup {NoDate}
    BY ConditionsAssumption, Zenon
  <2> QED
    BY <2>1, ConditionsAssumption
<1>2. dates = {f[g] : g \in q.gold} /\ dates \subseteq Nat /\ DateOf(s) \in dates
  BY <1>1
<1> HIDE DEF f
<1>3. IsFiniteSet({f[g] : g \in q.gold})
  BY <1>1, FiniteImage
<1> HIDE DEF dates
<1>4. Min(dates) \in dates /\ Min(dates) <= DateOf(s)
  BY <1>2, LowestOf
<1>5. Max(dates) \in dates /\ DateOf(s) <= Max(dates)
  BY <1>2, <1>3, GreatestIn
<1> DEFINE lo == Min(dates)
           hi == Max(dates)
           date == DateOf(s)
<1>6. lo \in Nat /\ hi \in Nat /\ date \in Nat /\ lo <= date /\ date <= hi
  BY <1>2, <1>4, <1>5
<1>7. date # NoDate
  OBVIOUS
<1> HIDE DEF lo, hi, date
<1>8. lo - Slack <= date /\ date <= hi + Slack
  BY <1>1, <1>6
<1> QED
  BY <1>7, <1>8 DEF InBand, dates, lo, hi, date

SessionList(hits) == [i \in DOMAIN hits |-> SessionOf(hits[i][1])]

\* The sessions of the gold keep their ranks, or gain some, in the band.
LEMMA GoldKept ==
  ASSUME StoredInv, NEW hits \in Seq(Records), NEW q \in Questions,
         \A g \in q.gold : DateOf(g) # NoDate,
         NEW i \in DOMAIN SessionsOf(hits), SessionsOf(hits)[i] \in q.gold
  PROVE  \E j \in DOMAIN SessionsOf(BandHits(q, hits)) :
           j <= i /\ SessionsOf(BandHits(q, hits))[j] = SessionsOf(hits)[i]
<1> DEFINE S == {SessionOf(d) : d \in Docs}
           s == SessionList(hits)
           I == {a \in DOMAIN hits : InBand(SessionOf(hits[a][1]), q.gold)}
           band == BandHits(q, hits)
           t == SessionList(band)
           m == Cardinality(I)
<1>1. DOMAIN hits = 1 .. Len(hits) /\ Len(hits) \in Nat
  OBVIOUS
<1>2. s \in Seq(S) /\ DOMAIN s = DOMAIN hits /\ \A a \in DOMAIN hits : s[a] = SessionOf(hits[a][1])
  <2>1. \A a \in DOMAIN hits : hits[a][1] \in Docs
    BY RecordType
  <2>2. \A a \in DOMAIN hits : SessionOf(hits[a][1]) \in S
    BY <2>1
  <2> HIDE DEF S
  <2> QED
    BY <1>1, <2>2 DEF SessionList
<1>3. I \subseteq DOMAIN s /\ I \subseteq Nat /\ IsFiniteSet(I)
  <2>1. I \in SUBSET (1 .. Len(hits))
    BY <1>1
  <2>2. IsFiniteSet(1 .. Len(hits))
    BY <1>1, FS_Interval
  <2>3. DOMAIN s = 1 .. Len(hits)
    BY <1>1, <1>2
  <2> HIDE DEF I, s
  <2>4. IsFiniteSet(I)
    BY <2>1, <2>2, FS_Subset
  <2>5. \A a \in 1 .. Len(hits) : a \in Nat
    BY <1>1
  <2> QED
    BY <2>1, <2>3, <2>4, <2>5
<1>4. \A a \in DOMAIN s : s[a] \in q.gold => a \in I
  BY <1>2, GoldInBand
<1>5. band = Selected(hits, I)
  BY DEF BandHits
<1> HIDE DEF I, S, band
<1>6. PICK p : Picks(p, hits, I)
  BY <1>3, SelectedPlaces
<1>7. /\ m \in Nat /\ Increasing(p, I) /\ \A k \in 1 .. m : p[k] \in I
      /\ \A a \in I : \E k \in 1 .. m : p[k] = a
      /\ band = [k \in 1 .. m |-> hits[p[k]]]
  BY <1>5, <1>6 DEF Picks, Lists, Increasing
<1> HIDE DEF m
<1>8. t = [k \in 1 .. m |-> s[p[k]]]
  <2>1. DOMAIN band = 1 .. m /\ \A k \in 1 .. m : band[k] = hits[p[k]]
    BY <1>7
  <2>2. \A k \in 1 .. m : SessionOf(band[k][1]) = s[p[k]]
    <3>1. \A k \in 1 .. m : p[k] \in DOMAIN hits
      BY <1>2, <1>3, <1>7
    <3> QED
      BY <1>2, <2>1, <3>1
  <2> HIDE DEF s
  <2> QED
    BY <2>1, <2>2 DEF SessionList
<1>9. SessionsOf(hits) = Unique(s) /\ SessionsOf(band) = Unique(t)
  BY DEF SessionsOf, SessionList
<1> HIDE DEF s, t
<1>10. Lists(p, I)
  BY <1>6 DEF Picks
<1>11. t = [k \in 1 .. Cardinality(I) |-> s[p[k]]]
  BY <1>8 DEF m
<1>12. i \in DOMAIN Unique(s) /\ Unique(s)[i] \in q.gold
  BY <1>9
<1>13. \E j \in DOMAIN Unique(t) : j <= i /\ Unique(t)[j] = Unique(s)[i]
  <2>1. \A a \in DOMAIN s : s[a] = Unique(s)[i] => a \in I
    BY <1>4, <1>12
  <2>2. Keeps(t, s, I)
    BY <1>10, <1>11 DEF Keeps
  <2>3. s \in Seq(S) /\ I \subseteq DOMAIN s /\ i \in DOMAIN Unique(s)
    BY <1>2, <1>3, <1>12
  <2> QED
    BY <2>1, <2>2, <2>3, KeptIsEarlier
<1> QED
  BY <1>9, <1>13 DEF band

\* The band scores no less than all hits.
LEMMA BandBounds ==
  ASSUME StoredInv, NEW hits \in Seq(Records), NEW q \in Questions, NEW k \in Nat,
         \A g \in q.gold : DateOf(g) # NoDate
  PROVE  LET all == Score(SessionsOf(hits), q.gold, k)
             band == Score(SessionsOf(BandHits(q, hits)), q.gold, k)
         IN  /\ all.first > 0 => band.first \in 1 .. all.first
             /\ band.covered >= all.covered
<1> DEFINE u == SessionsOf(hits)
           v == SessionsOf(BandHits(q, hits))
           A == {i \in DOMAIN u : u[i] \in q.gold}
           B == {i \in DOMAIN v : v[i] \in q.gold}
           all == Score(u, q.gold, k)
           band == Score(v, q.gold, k)
<1>1. /\ u \in Seq({SessionOf(d) : d \in Docs}) /\ IsInjective(u)
      /\ v \in Seq({SessionOf(d) : d \in Docs})
  <2>1. \A h \in Seq(Records) : SessionsOf(h) \in Seq({SessionOf(d) : d \in Docs})
                                /\ IsInjective(SessionsOf(h))
    <3> TAKE h \in Seq(Records)
    <3> DEFINE S == {SessionOf(d) : d \in Docs}
               s == [i \in DOMAIN h |-> SessionOf(h[i][1])]
    <3>1. \A a \in DOMAIN h : h[a][1] \in Docs
      BY RecordType
    <3>2. \A a \in DOMAIN h : SessionOf(h[a][1]) \in S
      BY <3>1
    <3> HIDE DEF S
    <3>3. s \in Seq(S)
      BY <3>2
    <3> HIDE DEF s
    <3> QED
      BY <3>3, UniqueType DEF SessionsOf, s, S
  <2>2. BandHits(q, hits) \in Seq(Records)
    <3> DEFINE I == {i \in DOMAIN hits : InBand(SessionOf(hits[i][1]), q.gold)}
    <3>1. I \subseteq DOMAIN hits
      OBVIOUS
    <3> HIDE DEF I
    <3> QED
      BY <3>1, SelectedType DEF BandHits, I
  <2> QED
    BY <2>1, <2>2
<1>2. \A i \in A : \E j \in B : j <= i /\ v[j] = u[i]
  <2> TAKE i \in A
  <2>1. PICK j \in DOMAIN v : j <= i /\ v[j] = u[i]
    BY GoldKept
  <2> QED
    BY <2>1
<1>3. /\ all.first = (IF A = {} THEN 0 ELSE Min(A))
      /\ band.first = (IF B = {} THEN 0 ELSE Min(B))
      /\ all.covered = Cardinality({i \in A : i <= k})
      /\ band.covered = Cardinality({i \in B : i <= k})
  BY DEF Score
<1>4. \A i \in A : i \in Nat \ {0} /\ i \in DOMAIN u
  BY <1>1
<1>5. B \in SUBSET (1 .. Len(v)) /\ Len(v) \in Nat /\ B \subseteq Nat \ {0}
  BY <1>1
<1> HIDE DEF u, v, A, B, all, band
<1>6. ASSUME all.first > 0 PROVE band.first \in 1 .. all.first
  <2>1. A # {} /\ all.first = Min(A)
    BY <1>3, <1>6
  <2>2. Min(A) \in A
    <3>1. A \subseteq Nat
      BY <1>4
    <3> QED
      BY <2>1, <3>1, LowestOf
  <2>3. PICK j \in B : j <= Min(A)
    BY <1>2, <2>2
  <2>4. Min(B) \in B /\ Min(B) <= j
    <3>1. B \subseteq Nat /\ B # {}
      BY <1>5
    <3> QED
      BY <3>1, LowestOf
  <2>5. band.first = Min(B)
    BY <1>3, <2>3
  <2> DEFINE a == Min(A)
             b == Min(B)
  <2>6. a \in Nat \ {0} /\ b \in Nat \ {0} /\ j \in Nat /\ j <= a /\ b <= j
    BY <1>4, <1>5, <2>2, <2>3, <2>4
  <2> HIDE DEF a, b
  <2>7. b \in 1 .. a
    BY <2>6
  <2> QED
    BY <2>1, <2>5, <2>7 DEF a, b
<1>7. band.covered >= all.covered
  <2> DEFINE Ak == {i \in A : i <= k}
             Bk == {i \in B : i <= k}
             f == [i \in Ak |-> CHOOSE j \in Bk : v[j] = u[i]]
  <2>1. \A i \in Ak : \E j \in Bk : v[j] = u[i]
    <3> TAKE i \in Ak
    <3>1. PICK j \in B : j <= i /\ v[j] = u[i]
      BY <1>2
    <3>2. j \in Nat /\ i \in Nat /\ i <= k
      BY <1>4, <1>5
    <3>3. j <= k
      BY <3>1, <3>2
    <3> QED
      BY <3>1, <3>3
  <2>2. \A i \in Ak : i \in DOMAIN u
    BY <1>4
  <2>3. IsFiniteSet(Bk) /\ IsFiniteSet(B)
    <3>1. IsFiniteSet(1 .. Len(v))
      BY <1>5, FS_Interval
    <3>2. Bk \in SUBSET (1 .. Len(v))
      BY <1>5
    <3> QED
      BY <1>5, <3>1, <3>2, FS_Subset
  <2>4. all.covered = Cardinality(Ak) /\ band.covered = Cardinality(Bk)
    BY <1>3
  <2> HIDE DEF Ak, Bk
  <2>5. \A i \in Ak : f[i] \in Bk /\ v[f[i]] = u[i]
    <3> TAKE i \in Ak
    <3>1. f[i] = CHOOSE j \in Bk : v[j] = u[i]
      OBVIOUS
    <3> HIDE DEF f
    <3>2. \E j \in Bk : v[j] = u[i]
      BY <2>1
    <3> QED
      BY <3>1, <3>2, Zenon
  <2>6. f \in [Ak -> Bk]
    BY <2>5
  <2> HIDE DEF f
  <2>7. \A i, j \in Ak : f[i] = f[j] => i = j
    BY <1>1, <2>2, <2>5 DEF IsInjective
  <2>8. f \in Injection(Ak, Bk)
    BY <2>6, <2>7 DEF Injection, IsInjective
  <2>9. Cardinality(Ak) <= Cardinality(Bk) /\ Cardinality(Bk) \in Nat /\ IsFiniteSet(Ak)
    BY <2>3, <2>8, FS_Injection, FS_CardinalityType
  <2>10. Cardinality(Ak) \in Nat
    BY <2>9, FS_CardinalityType
  <2> QED
    BY <2>4, <2>9, <2>10
<1> QED
  BY <1>6, <1>7 DEF all, band, u, v

-----------------------------------------------------------------------------
(* Sorting. *)

\* A finite set of places can be listed along a strict order without a tie.
LEMMA ListingExists ==
  ASSUME NEW D, IsFiniteSet(D), NEW R,
         \A a \in D : <<a, a>> \notin R,
         \A a, b, c \in D : <<a, b>> \in R /\ <<b, c>> \in R => <<a, c>> \in R,
         \A a, b \in D : a # b => <<a, b>> \in R \/ <<b, a>> \in R
  PROVE  \E o \in [1 .. Cardinality(D) -> D] :
           \A i, j \in 1 .. Cardinality(D) : i < j => <<o[i], o[j]>> \in R
<1> DEFINE listed(J) == \E o \in [1 .. Cardinality(J) -> J] :
                          \A i, j \in 1 .. Cardinality(J) : i < j => <<o[i], o[j]>> \in R
           Q == {J \in SUBSET D : listed(J)}
<1>1. {} \in Q
  <2> DEFINE o == [i \in {} |-> i]
  <2>1. 1 .. Cardinality({}) = {}
    BY FS_EmptySet
  <2>2. o \in [1 .. Cardinality({}) -> {}]
    BY <2>1
  <2>3. \A i \in 1 .. Cardinality({}) : FALSE
    BY <2>1
  <2> HIDE DEF o
  <2>4. listed({})
    BY <2>2, <2>3
  <2> QED
    BY <2>4
<1>2. ASSUME NEW J \in SUBSET D, J # {}, \A x \in J : J \ {x} \in Q PROVE J \in Q
  <2> DEFINE above(a) == {b \in J : <<a, b>> \in R}
             T == {above(a) : a \in J}
  <2>0. IsFiniteSet(J)
    BY FS_Subset
  <2>1. IsWellFoundedOn(StrictSubsetOrdering(J), SUBSET J)
    <3>1. IsWellFoundedOn(StrictSubsetOrdering(J), FiniteSubsetsOf(J))
      BY FS_StrictSubsetOrderingWellFounded
    <3>2. FiniteSubsetsOf(J) = SUBSET J
      BY <2>0, FS_Subset DEF FiniteSubsetsOf
    <3> QED
      BY <3>1, <3>2
  <2>2. T \subseteq SUBSET J /\ T # {}
    <3>1. \A a \in J : above(a) \in SUBSET J
      OBVIOUS
    <3> HIDE DEF above
    <3> QED
      BY <1>2, <3>1
  <2> HIDE DEF T
  <2>3. PICK t \in T : \A s \in T : ~ (<<s, t>> \in StrictSubsetOrdering(J))
    BY <2>1, <2>2, WFMin
  <2>4. PICK m \in J : t = above(m)
    BY DEF T
  <2>5. ASSUME NEW a \in J, <<m, a>> \in R PROVE FALSE
    <3>1. above(a) \subseteq above(m)
      BY <2>5
    <3>2. a \in above(m) /\ a \notin above(a)
      BY <2>5
    <3>3. above(a) \in T /\ above(a) \in SUBSET J /\ above(m) \in SUBSET J
      BY DEF T
    <3> HIDE DEF above
    <3>4. <<above(a), above(m)>> \in StrictSubsetOrdering(J)
      BY <3>1, <3>2, <3>3 DEF StrictSubsetOrdering
    <3> QED
      BY <2>3, <2>4, <3>3, <3>4
  <2> DEFINE rest == J \ {m}
             n == Cardinality(rest)
  <2>6. \A a \in rest : <<a, m>> \in R /\ a \in J
    BY <2>5
  <2>7. /\ n \in Nat /\ Cardinality(J) = n + 1
    <3>1. IsFiniteSet(rest) /\ n = Cardinality(J) - 1 /\ Cardinality(J) \in Nat
      BY <2>0, FS_RemoveElement, FS_CardinalityType
    <3>2. n \in Nat
      BY <3>1, FS_CardinalityType
    <3> QED
      BY <3>1, <3>2
  <2>8. PICK r \in [1 .. n -> rest] : \A i, j \in 1 .. n : i < j => <<r[i], r[j]>> \in R
    BY <1>2
  <2> HIDE DEF rest, n
  <2> DEFINE o == [i \in 1 .. (n + 1) |-> IF i = n + 1 THEN m ELSE r[i]]
  <2>9. \A i \in 1 .. (n + 1) : i # n + 1 => i \in 1 .. n /\ o[i] = r[i] /\ r[i] \in rest
    BY <2>7, <2>8
  <2>10. o \in [1 .. (n + 1) -> J] /\ (n + 1 \in 1 .. (n + 1) => o[n + 1] = m)
    BY <2>6, <2>9
  <2> HIDE DEF o
  <2>11. ASSUME NEW i \in 1 .. (n + 1), NEW j \in 1 .. (n + 1), i < j
         PROVE  <<o[i], o[j]>> \in R
    <3>1. i \in 1 .. n /\ o[i] = r[i] /\ r[i] \in rest
      <4>1. i # n + 1
        BY <2>7, <2>11
      <4> QED
        BY <2>9, <4>1
    <3>2. CASE j = n + 1
      BY <2>6, <2>10, <3>1, <3>2
    <3>3. CASE j # n + 1
      <4>1. j \in 1 .. n /\ o[j] = r[j]
        BY <2>9, <3>3
      <4> QED
        BY <2>8, <2>11, <3>1, <4>1
    <3> QED
      BY <3>2, <3>3
  <2>12. listed(J)
    BY <2>7, <2>10, <2>11
  <2> QED
    BY <2>12
<1>3. D \in Q
  <2> HIDE DEF Q
  <2> QED
    BY <1>1, <1>2, EverySubset
<1> QED
  BY <1>3

Ahead(o, a, b) == \E i, j \in DOMAIN o : i < j /\ o[i] = a /\ o[j] = b

\* Sorting keeps everything, and whatever is ahead of something of no higher score.
LEMMA ResortedType ==
  ASSUME NEW S, NEW hits \in Seq(S), NEW score, \A rec \in ToSet(hits) : score[rec] \in Nat
  PROVE  LET sorted == Resorted(hits, score)
         IN  /\ sorted \in Seq(S) /\ Len(sorted) = Len(hits) /\ ToSet(sorted) = ToSet(hits)
             /\ \A i, j \in DOMAIN hits :
                  i < j /\ score[hits[i]] >= score[hits[j]] => Ahead(sorted, hits[i], hits[j])
<1> DEFINE D == DOMAIN hits
           L == Len(hits)
           before(i, j) ==
             score[hits[i]] > score[hits[j]] \/ (score[hits[i]] = score[hits[j]] /\ i < j)
           R == {e \in D \X D : before(e[1], e[2])}
           order == CHOOSE o \in SetToSeqs(D) : \A i, j \in D : i < j => before(o[i], o[j])
           sorted == Resorted(hits, score)
<1>1. L \in Nat /\ D = 1 .. L /\ \A i \in D : i \in Nat /\ hits[i] \in S
  OBVIOUS
<1>2. IsFiniteSet(D) /\ Cardinality(D) = L
  BY <1>1, FS_Interval
<1>3. \A i \in D : score[hits[i]] \in Nat
  BY DEF ToSet
<1>4. sorted = [i \in D |-> hits[order[i]]]
  BY DEF Resorted
<1>5. \A i, j \in D : <<i, j>> \in R <=> before(i, j)
  OBVIOUS
<1> HIDE DEF R, D, L, sorted
<1>6. /\ \A a \in D : ~before(a, a)
      /\ \A a, b, c \in D : before(a, b) /\ before(b, c) => before(a, c)
      /\ \A a, b \in D : a # b => before(a, b) \/ before(b, a)
      /\ \A a, b \in D : ~(before(a, b) /\ before(b, a))
  <2> DEFINE g == [i \in D |-> score[hits[i]]]
  <2>1. \A i \in D : g[i] = score[hits[i]] /\ g[i] \in Nat /\ i \in Nat
    BY <1>1, <1>3
  <2> HIDE DEF g
  <2>2. \A a, b \in D : before(a, b) <=> g[a] > g[b] \/ (g[a] = g[b] /\ a < b)
    BY <2>1
  <2> HIDE DEF before
  <2>3. ASSUME NEW a \in D, NEW b \in D, NEW c \in D, before(a, b), before(b, c) PROVE before(a, c)
    <3>1. g[a] > g[b] \/ (g[a] = g[b] /\ a < b)
      BY <2>2, <2>3
    <3>2. g[b] > g[c] \/ (g[b] = g[c] /\ b < c)
      BY <2>2, <2>3
    <3>3. g[a] > g[c] \/ (g[a] = g[c] /\ a < c)
      BY <2>1, <3>1, <3>2
    <3> QED
      BY <2>2, <3>3
  <2>4. ASSUME NEW a \in D, NEW b \in D
        PROVE  /\ ~before(a, a) /\ ~(before(a, b) /\ before(b, a))
               /\ a # b => before(a, b) \/ before(b, a)
    BY <2>1, <2>2
  <2> QED
    BY <2>3, <2>4
<1> HIDE DEF before
<1>7. PICK o \in [1 .. Cardinality(D) -> D] :
           \A i, j \in 1 .. Cardinality(D) : i < j => <<o[i], o[j]>> \in R
  <2>1. /\ \A a \in D : <<a, a>> \notin R
        /\ \A a, b, c \in D : <<a, b>> \in R /\ <<b, c>> \in R => <<a, c>> \in R
        /\ \A a, b \in D : a # b => <<a, b>> \in R \/ <<b, a>> \in R
    BY <1>5, <1>6
  <2> QED
    BY <1>2, <2>1, ListingExists
<1>8. o \in [D -> D] /\ \A i, j \in D : i < j => before(o[i], o[j])
  BY <1>1, <1>2, <1>5, <1>7
<1>9. \A p \in [D -> D] : (\A i, j \in D : i < j => before(p[i], p[j])) => p \in SetToSeqs(D)
  <2> TAKE p \in [D -> D]
  <2> SUFFICES ASSUME \A i, j \in D : i < j => before(p[i], p[j]) PROVE p \in SetToSeqs(D)
    OBVIOUS
  <2>1. ASSUME NEW i \in D, NEW j \in D, i # j PROVE p[i] # p[j]
    <3>1. i < j \/ j < i
      BY <1>1, <2>1
    <3>2. before(p[i], p[j]) \/ before(p[j], p[i])
      BY <3>1
    <3> QED
      BY <1>6, <3>2
  <2> QED
    BY <1>1, <1>2, <2>1 DEF SetToSeqs
<1>10. order \in SetToSeqs(D) /\ \A i, j \in D : i < j => before(order[i], order[j])
  <2>1. \E p \in SetToSeqs(D) : \A i, j \in D : i < j => before(p[i], p[j])
    BY <1>8, <1>9
  <2> QED
    BY <2>1, Zenon
<1> HIDE DEF order
<1>11. order \in [D -> D] /\ order \in Injection(D, D)
  <2>1. order \in [D -> D] /\ \A i, j \in D : i # j => order[i] # order[j]
    BY <1>1, <1>2, <1>10 DEF SetToSeqs
  <2> QED
    BY <2>1 DEF Injection, IsInjective
<1>12. order \in Surjection(D, D)
  BY <1>2, <1>11, FS_Injection
<1>13. /\ sorted \in Seq(S) /\ Len(sorted) = Len(hits) /\ DOMAIN sorted = D
       /\ \A i \in D : sorted[i] = hits[order[i]]
  <2>1. \A i \in D : hits[order[i]] \in S
    BY <1>1, <1>11
  <2> QED
    BY <1>1, <1>4, <2>1 DEF L
<1>14. ToSet(sorted) = ToSet(hits)
  <2>1. \A j \in D : \E i \in D : order[i] = j
    BY <1>12 DEF Surjection
  <2>2. \A i \in D : order[i] \in D
    BY <1>11
  <2>3. ToSet(sorted) = {hits[order[i]] : i \in D}
    BY <1>13 DEF ToSet
  <2>4. ToSet(hits) = {hits[i] : i \in D}
    BY DEF ToSet, D
  <2> QED
    BY <2>1, <2>2, <2>3, <2>4
<1>15. ASSUME NEW i \in D, NEW j \in D, i < j, score[hits[i]] >= score[hits[j]]
       PROVE  Ahead(sorted, hits[i], hits[j])
  <2>1. before(i, j) /\ ~before(j, i)
    <3>1. before(i, j)
      BY <1>3, <1>15 DEF before
    <3> QED
      BY <1>6, <3>1
  <2>2. PICK a \in D : order[a] = i
    BY <1>12 DEF Surjection
  <2>3. PICK b \in D : order[b] = j
    BY <1>12 DEF Surjection
  <2>4. a < b
    <3>1. a # b /\ ~(b < a)
      BY <1>1, <1>10, <1>15, <2>1, <2>2, <2>3
    <3> QED
      BY <1>1, <3>1
  <2> QED
    BY <1>13, <2>2, <2>3, <2>4 DEF Ahead
<1> QED
  BY <1>13, <1>14, <1>15 DEF sorted, D

-----------------------------------------------------------------------------
(* Recency, and the dense rerank. *)

\* Powers of two grow: they count the subsets of an interval.
LEMMA PowersGrow ==
  ASSUME NEW a \in Nat, NEW b \in Nat, a <= b
  PROVE  2 ^ a \in Nat /\ 2 ^ b \in Nat /\ 2 ^ a <= 2 ^ b
<1>1. \A n \in Nat : IsFiniteSet(1 .. n) /\ Cardinality(1 .. n) = n
  BY FS_Interval
<1>2. \A n \in Nat : IsFiniteSet(SUBSET (1 .. n)) /\ Cardinality(SUBSET (1 .. n)) = 2 ^ n
  <2> TAKE n \in Nat
  <2> DEFINE I == 1 .. n
  <2>1. IsFiniteSet(I) /\ Cardinality(I) = n
    BY <1>1
  <2> HIDE DEF I
  <2>2. IsFiniteSet(SUBSET I) /\ Cardinality(SUBSET I) = 2 ^ Cardinality(I)
    BY <2>1, FS_SUBSET
  <2> QED
    BY <2>1, <2>2 DEF I
<1>3. SUBSET (1 .. a) \subseteq SUBSET (1 .. b)
  <2>1. 1 .. a \subseteq 1 .. b
    OBVIOUS
  <2> QED
    BY <2>1
<1> DEFINE A == SUBSET (1 .. a)
           B == SUBSET (1 .. b)
<1>4. IsFiniteSet(A) /\ IsFiniteSet(B) /\ A \subseteq B /\ Cardinality(A) = 2 ^ a /\ Cardinality(B) = 2 ^ b
  BY <1>2, <1>3
<1> HIDE DEF A, B
<1>5. Cardinality(A) <= Cardinality(B) /\ Cardinality(A) \in Nat /\ Cardinality(B) \in Nat
  BY <1>4, FS_Subset, FS_CardinalityType
<1> QED
  BY <1>4, <1>5

LEMMA PriorFalls ==
  ASSUME NEW a \in Nat, NEW b \in Nat, a <= b, b <= Lives
  PROVE  Prior(a) \in Nat /\ Prior(b) \in Nat /\ Prior(b) <= Prior(a)
<1>1. Lives \in Nat
  BY ConditionsAssumption
<1> DEFINE x == Lives - a
           y == Lives - b
           px == 2 ^ x
           py == 2 ^ y
           p == 2 ^ Lives
<1>2. x \in Nat /\ y \in Nat /\ y <= x
  BY <1>1
<1> HIDE DEF x, y
<1>3. px \in Nat /\ py \in Nat /\ py <= px /\ p \in Nat
  BY <1>1, <1>2, PowersGrow
<1>4. Prior(a) = p + 4 * px /\ Prior(b) = p + 4 * py
  BY DEF Prior, x, y
<1> HIDE DEF px, py, p
<1>5. p + 4 * px \in Nat /\ p + 4 * py \in Nat /\ p + 4 * py <= p + 4 * px
  BY <1>3
<1> QED
  BY <1>4, <1>5

LEMMA AgeType ==
  ASSUME NEW q \in Questions, NEW rec, rec[1] \in Docs
  PROVE  Age(q, rec) \in Nat /\ Age(q, rec) <= Lives
<1> DEFINE date == DateOf(SessionOf(rec[1]))
<1>1. /\ Lives \in Nat /\ q.date \in Nat \cup {NoDate} /\ date \in Nat \cup {NoDate}
      /\ q.date # NoDate /\ date # NoDate => q.date - date <= Lives
  <2>1. SessionOf(rec[1]) \in {SessionOf(d) : d \in Docs} \cup UNION {p.gold : p \in Questions}
    OBVIOUS
  <2> DEFINE s == SessionOf(rec[1])
             sessions == {SessionOf(d) : d \in Docs} \cup UNION {p.gold : p \in Questions}
  <2>2. s \in sessions
    BY <2>1
  <2> HIDE DEF s
  <2>3. Lives \in Nat /\ q.date \in Nat \cup {NoDate} /\ DateOf(s) \in Nat \cup {NoDate}
        /\ (q.date # NoDate /\ DateOf(s) # NoDate => q.date - DateOf(s) <= Lives)
    BY <2>2, ConditionsAssumption
  <2> QED
    BY <2>3 DEF s
<1>2. Age(q, rec) = IF q.date = NoDate \/ date = NoDate THEN 0 ELSE Most(0, q.date - date)
  BY DEF Age
<1> DEFINE asked == q.date
<1> HIDE DEF date, asked
<1>3. CASE q.date = NoDate \/ date = NoDate
  BY <1>1, <1>2, <1>3
<1>4. CASE ~(q.date = NoDate \/ date = NoDate)
  <2>1. asked \in Nat /\ date \in Nat /\ asked - date <= Lives /\ Age(q, rec) = Most(0, asked - date)
    BY <1>1, <1>2, <1>4 DEF asked
  <2> QED
    BY <1>1, <2>1 DEF Most
<1> QED
  BY <1>3, <1>4

\* The hits of a question, with their scores.
LEMMA HitsType ==
  ASSUME StoredInv, NEW q \in Questions, NEW hits \in Answers(Question(q))
  PROVE  /\ hits \in Seq(Records) /\ IsInjective(hits)
         /\ \A i \in DOMAIN hits : /\ hits[i] \in ToSet(hits) /\ hits[i][1] \in Docs
                                   /\ stored[hits[i][1]].text \in Texts
                                   /\ RawScore(q.query, hits[i]) \in Nat
         /\ \A i, j \in DOMAIN hits : i < j => RawScore(q.query, hits[i]) >= RawScore(q.query, hits[j])
<1> DEFINE r == Question(q)
<1>1. r.query = q.query /\ r.alpha = NoAlpha
  BY DEF Question
<1>2. ~Dense(r)
  BY <1>1 DEF Dense
<1> HIDE DEF r
<1>3. /\ hits \in Seq(Records) /\ IsInjective(hits)
      /\ \A i, j \in DOMAIN hits : i < j => RawOf(r)[hits[i]] >= RawOf(r)[hits[j]]
      /\ \A rec \in ToSet(hits) : rec \in Matching(r.query)
  BY <1>2, AnswerIsList DEF r
<1>4. \A i \in DOMAIN hits : /\ hits[i] \in ToSet(hits) /\ hits[i] \in Matching(q.query)
                             /\ RawOf(r)[hits[i]] = RawScore(q.query, hits[i])
  <2>1. \A i \in DOMAIN hits : hits[i] \in ToSet(hits)
    BY DEF ToSet
  <2> QED
    BY <1>1, <1>3, <2>1 DEF RawOf
<1>5. ASSUME NEW i \in DOMAIN hits
      PROVE  /\ hits[i][1] \in Docs /\ stored[hits[i][1]].text \in Texts
             /\ RawScore(q.query, hits[i]) \in Nat
  <2> DEFINE rec == hits[i]
             d == rec[1]
  <2>1. rec \in Records
    BY <1>3
  <2>2. d \in Docs /\ stored[d] \in Entries /\ rec[2] \in 0 .. Len(ChunksOf(d))
    BY <2>1, RecordType
  <2>3. stored[d].text \in Texts /\ stored[d].setup \in Setups
    BY <2>2 DEF Entries
  <2>4. rec[2] # Sentinel => Raw(q.query, ChunksOf(d)[rec[2]]) \in Nat
    <3>1. Len(ChunksOf(d)) \in Nat
      BY <2>3, ScoreAssumption DEF ChunksOf
    <3>2. rec[2] # Sentinel => rec[2] \in 1 .. Len(ChunksOf(d))
      BY <2>2, <3>1 DEF Sentinel
    <3> HIDE DEF rec, d
    <3> QED
      BY <2>3, <3>2, ConditionsAssumption DEF ChunksOf
  <2>5. RawScore(q.query, rec) \in Nat
    BY <2>4 DEF RawScore
  <2> QED
    BY <2>2, <2>3, <2>5
<1> QED
  BY <1>3, <1>4, <1>5

LEMMA RecencyKeeps ==
  ASSUME StoredInv, NEW q \in Questions, NEW hits \in Answers(Question(q))
  PROVE  LET recency == RecencyHits(q, hits)
         IN  /\ ToSet(recency) = ToSet(hits) /\ Len(recency) = Len(hits)
             /\ \A i, j \in DOMAIN hits :
                  i < j /\ Age(q, hits[i]) <= Age(q, hits[j]) => Ahead(recency, hits[i], hits[j])
<1> DEFINE score == [rec \in ToSet(hits) |-> RawScore(q.query, rec) * Prior(Age(q, rec))]
           recency == RecencyHits(q, hits)
<1>1. /\ hits \in Seq(Records)
      /\ \A i \in DOMAIN hits : /\ hits[i] \in ToSet(hits) /\ hits[i][1] \in Docs
                                /\ RawScore(q.query, hits[i]) \in Nat
      /\ \A i, j \in DOMAIN hits : i < j => RawScore(q.query, hits[i]) >= RawScore(q.query, hits[j])
  BY HitsType
<1>2. \A i \in DOMAIN hits : Age(q, hits[i]) \in Nat /\ Age(q, hits[i]) <= Lives /\ Prior(Age(q, hits[i])) \in Nat
  BY <1>1, AgeType, PriorFalls
<1>3. \A i \in DOMAIN hits : score[hits[i]] = RawScore(q.query, hits[i]) * Prior(Age(q, hits[i]))
  BY <1>1
<1>4. recency = Resorted(hits, score)
  BY DEF RecencyHits
<1> HIDE DEF score, recency
<1>5. \A a, b \in Nat : a * b \in Nat
  OBVIOUS
<1>6. \A rec \in ToSet(hits) : score[rec] \in Nat
  BY <1>1, <1>2, <1>3, <1>5 DEF ToSet
<1>7. ASSUME NEW i \in DOMAIN hits, NEW j \in DOMAIN hits, i < j, Age(q, hits[i]) <= Age(q, hits[j])
      PROVE  score[hits[i]] >= score[hits[j]]
  <2> DEFINE ri == RawScore(q.query, hits[i])
             rj == RawScore(q.query, hits[j])
             pi == Prior(Age(q, hits[i]))
             pj == Prior(Age(q, hits[j]))
  <2>1. ri \in Nat /\ rj \in Nat /\ ri >= rj
    BY <1>1, <1>7
  <2>2. pi \in Nat /\ pj \in Nat /\ pj <= pi
    BY <1>2, <1>7, PriorFalls
  <2>3. score[hits[i]] = ri * pi /\ score[hits[j]] = rj * pj
    BY <1>3
  <2> HIDE DEF ri, rj, pi, pj
  <2>4. \A x, y, z \in Nat : x <= y => z * x <= z * y /\ z * x = x * z /\ z * y = y * z
    OBVIOUS
  <2>5. rj * pj <= rj * pi /\ pi * rj <= pi * ri /\ pi * rj = rj * pi /\ pi * ri = ri * pi
    BY <2>1, <2>2, <2>4
  <2>6. rj * pj \in Nat /\ rj * pi \in Nat /\ ri * pi \in Nat
    BY <1>5, <2>1, <2>2
  <2> QED
    BY <2>3, <2>5, <2>6
<1> QED
  BY <1>1, <1>4, <1>6, <1>7, ResortedType DEF recency

\* The mix of a keyword score and a cosine, none of them the lesser.
LEMMA MixedSum ==
  ASSUME NEW u \in Nat, NEW alpha \in 0 .. u, NEW m \in Nat, NEW low \in Nat,
         NEW ra \in Nat, NEW rb \in Nat, low <= rb, rb <= ra,
         NEW ca \in Nat, NEW cb \in Nat, cb <= ca
  PROVE  /\ alpha * (ra - low) * u + (u - alpha) * ca * m \in Nat
         /\ alpha * (rb - low) * u + (u - alpha) * cb * m <=
              alpha * (ra - low) * u + (u - alpha) * ca * m
<1> DEFINE w == u - alpha
           x == ra - low
           y == rb - low
<1>1. w \in Nat /\ alpha \in Nat /\ x \in Nat /\ y \in Nat /\ y <= x
  OBVIOUS
<1>2. \A a, b, c \in Nat : a <= b => c * a <= c * b /\ a * c <= b * c
  OBVIOUS
<1>3. \A a, b \in Nat : a * b \in Nat
  OBVIOUS
<1> HIDE DEF w, x, y
<1> DEFINE p == alpha * x
           o == alpha * y
           s == w * ca
           t == w * cb
<1>4. p \in Nat /\ o \in Nat /\ s \in Nat /\ t \in Nat /\ o <= p /\ t <= s
  BY <1>1, <1>2, <1>3
<1> HIDE DEF p, o, s, t
<1>5. /\ p * u \in Nat /\ o * u \in Nat /\ s * m \in Nat /\ t * m \in Nat
      /\ o * u <= p * u /\ t * m <= s * m
  BY <1>2, <1>3, <1>4
<1>6. p * u + s * m \in Nat /\ o * u + t * m <= p * u + s * m
  BY <1>5
<1> QED
  BY <1>6 DEF p, o, s, t, w, x, y

LEMMA DenseKeeps ==
  ASSUME StoredInv, NEW q \in Questions, NEW hits \in Answers(Question(q)), NEW alpha \in Alphas
  PROVE  LET dense == DenseHits(q, alpha, hits)
             text(rec) == TextCosine(q.query, stored[rec[1]].text)
         IN  /\ ToSet(dense) = ToSet(Prefix(hits, DenseTop))
             /\ \A i, j \in DOMAIN Prefix(hits, DenseTop) :
                  i < j /\ text(hits[i]) >= text(hits[j]) => Ahead(dense, hits[i], hits[j])
<1> DEFINE dense == DenseHits(q, alpha, hits)
           text(rec) == TextCosine(q.query, stored[rec[1]].text)
           pool == Prefix(hits, DenseTop)
           raw(rec) == RawScore(q.query, rec)
           raws == {raw(rec) : rec \in ToSet(pool)}
           span == Max(raws) - Min(raws)
           score == [rec \in ToSet(pool) |->
                       alpha * (raw(rec) - Min(raws)) * Unit + (Unit - alpha) * text(rec) * Most(span, 1)]
<1>1. /\ hits \in Seq(Records)
      /\ \A i \in DOMAIN hits : /\ hits[i] \in ToSet(hits) /\ hits[i][1] \in Docs
                                /\ stored[hits[i][1]].text \in Texts
                                /\ raw(hits[i]) \in Nat
      /\ \A i, j \in DOMAIN hits : i < j => raw(hits[i]) >= raw(hits[j])
  BY HitsType
<1>2. DenseTop \in Nat /\ Unit \in Nat /\ alpha \in 0 .. Unit
  BY ConditionsAssumption, RetrievalAssumption, BenchAssumption
<1>3. pool \in Seq(Records) /\ \A i \in DOMAIN pool : i \in DOMAIN hits /\ pool[i] = hits[i]
  BY <1>1, <1>2, PrefixType
<1>4. dense = IF pool = <<>> THEN <<>> ELSE Resorted(pool, score)
  BY DEF DenseHits
<1> HIDE DEF dense, pool
<1>5. \A i \in DOMAIN pool : /\ pool[i] \in ToSet(pool) /\ raw(pool[i]) \in Nat /\ text(pool[i]) \in Nat
                             /\ raw(pool[i]) \in raws
  <2> TAKE i \in DOMAIN pool
  <2>1. pool[i] \in ToSet(pool)
    BY DEF ToSet
  <2>2. raw(pool[i]) \in Nat /\ stored[pool[i][1]].text \in Texts
    BY <1>1, <1>3
  <2>3. text(pool[i]) \in Nat
    BY <2>2, ConditionsAssumption
  <2> QED
    BY <2>1, <2>2, <2>3
<1>6. CASE pool = <<>>
  <2>1. dense = <<>> /\ DOMAIN pool = {}
    BY <1>4, <1>6
  <2>2. ToSet(dense) = ToSet(pool)
    BY <1>6, <2>1
  <2> QED
    BY <2>1, <2>2 DEF dense, pool
<1>7. CASE pool # <<>>
  <2>1. raws \subseteq Nat /\ raws # {}
    <3>1. \A rec \in ToSet(pool) : raw(rec) \in Nat
      BY <1>5 DEF ToSet
    <3>2. 1 \in DOMAIN pool
      BY <1>3, <1>7
    <3>3. raw(pool[1]) \in raws
      BY <1>5, <3>2
    <3> HIDE DEF raw
    <3> QED
      BY <3>1, <3>3
  <2>2. IsFiniteSet(raws)
    <3> DEFINE f == [i \in DOMAIN pool |-> raw(pool[i])]
    <3>1. raws = {f[i] : i \in DOMAIN pool}
      BY DEF ToSet
    <3>2. IsFiniteSet(DOMAIN pool)
      <4>1. DOMAIN pool = 1 .. Len(pool) /\ Len(pool) \in Nat
        BY <1>3
      <4> QED
        BY <4>1, FS_Interval
    <3> HIDE DEF f, raws
    <3> QED
      BY <3>1, <3>2, FiniteImage
  <2> DEFINE low == Min(raws)
             high == Max(raws)
             m == Most(span, 1)
  <2>3. low \in Nat /\ high \in Nat /\ \A x \in raws : low <= x
    <3> HIDE DEF raws
    <3> QED
      BY <2>1, <2>2, LowestOf, GreatestIn
  <2>4. m \in Nat
    <3> DEFINE l == low
               h == high
    <3>1. l \in Nat /\ h \in Nat
      BY <2>3
    <3> HIDE DEF l, h
    <3>2. Most(h - l, 1) \in Nat
      BY <3>1 DEF Most
    <3> QED
      BY <3>2 DEF l, h
  <2>5. \A i \in DOMAIN pool : score[pool[i]] =
          alpha * (raw(pool[i]) - low) * Unit + (Unit - alpha) * text(pool[i]) * m
    BY <1>5
  <2>6. dense = Resorted(pool, score)
    BY <1>4, <1>7
  <2>7. \A i \in DOMAIN pool : low <= raw(pool[i])
    BY <1>5, <2>3
  <2> HIDE DEF score, low, m, raws, raw, text
  <2>8. ASSUME NEW i \in DOMAIN pool, NEW j \in DOMAIN pool,
               raw(pool[i]) >= raw(pool[j]), text(pool[i]) >= text(pool[j])
        PROVE  score[pool[i]] \in Nat /\ score[pool[j]] <= score[pool[i]]
    <3> DEFINE ra == raw(pool[i])
               rb == raw(pool[j])
               ca == text(pool[i])
               cb == text(pool[j])
    <3>1. ra \in Nat /\ rb \in Nat /\ ca \in Nat /\ cb \in Nat /\ low <= rb /\ rb <= ra /\ cb <= ca
      BY <1>5, <2>7, <2>8
    <3>2. /\ score[pool[i]] = alpha * (ra - low) * Unit + (Unit - alpha) * ca * m
          /\ score[pool[j]] = alpha * (rb - low) * Unit + (Unit - alpha) * cb * m
      BY <2>5
    <3> HIDE DEF ra, rb, ca, cb
    <3>3. /\ alpha * (ra - low) * Unit + (Unit - alpha) * ca * m \in Nat
          /\ alpha * (rb - low) * Unit + (Unit - alpha) * cb * m <=
               alpha * (ra - low) * Unit + (Unit - alpha) * ca * m
      BY <1>2, <2>3, <2>4, <3>1, MixedSum
    <3> QED
      BY <3>2, <3>3
  <2>9. \A rec \in ToSet(pool) : score[rec] \in Nat
    <3>1. \A i \in DOMAIN pool : score[pool[i]] \in Nat
      <4> TAKE i \in DOMAIN pool
      <4>1. raw(pool[i]) >= raw(pool[i]) /\ text(pool[i]) >= text(pool[i])
        BY <1>5
      <4> QED
        BY <2>8, <4>1
    <3> QED
      BY <3>1 DEF ToSet
  <2>10. /\ ToSet(dense) = ToSet(pool)
         /\ \A i, j \in DOMAIN pool :
              i < j /\ score[pool[i]] >= score[pool[j]] => Ahead(dense, pool[i], pool[j])
    BY <1>3, <2>6, <2>9, ResortedType
  <2>11. ASSUME NEW i \in DOMAIN pool, NEW j \in DOMAIN pool, i < j, text(hits[i]) >= text(hits[j])
         PROVE  Ahead(dense, hits[i], hits[j])
    <3>1. pool[i] = hits[i] /\ pool[j] = hits[j] /\ raw(pool[i]) >= raw(pool[j])
      BY <1>1, <1>3, <2>11
    <3>2. score[pool[i]] \in Nat /\ score[pool[j]] \in Nat /\ score[pool[j]] <= score[pool[i]]
      BY <2>8, <2>9, <2>11, <3>1, <1>5
    <3>3. score[pool[i]] >= score[pool[j]]
      BY <3>2
    <3> QED
      BY <2>10, <2>11, <3>1, <3>3
  <2> QED
    BY <2>10, <2>11 DEF dense, pool, text
<1> QED
  BY <1>6, <1>7

ConditionsRight(rep) ==
  LET q == rep.question
      hits == rep.hits
      text(rec) == TextCosine(q.query, stored[rec[1]].text)
  IN  /\ (\A g \in q.gold : DateOf(g) # NoDate) =>
           /\ rep.bm25.first > 0 => rep.band.first \in 1 .. rep.bm25.first
           /\ rep.band.covered >= rep.bm25.covered
      /\ ToSet(rep.recency) = ToSet(hits) /\ Len(rep.recency) = Len(hits)
      /\ \A i, j \in DOMAIN hits :
           i < j /\ Age(q, hits[i]) <= Age(q, hits[j]) => Ahead(rep.recency, hits[i], hits[j])
      /\ ToSet(rep.dense) = ToSet(Prefix(hits, DenseTop))
      /\ \A i, j \in DOMAIN Prefix(hits, DenseTop) :
           i < j /\ text(hits[i]) >= text(hits[j]) => Ahead(rep.dense, hits[i], hits[j])

\* The conditions of a report that appears are right.
LEMMA ConditionsStep ==
  ASSUME StoredInv, BenchNext, report' # NoReport, report'.tool = "conditions"
  PROVE  ConditionsRight(report')
<1>1. PICK q \in Questions :
        \E hits : Scored(q, hits) \/ (hits \in Answers(Question(q)) /\ Evaluated(q, hits))
  BY ReportMade
<1>2. PICK hits : Scored(q, hits) \/ (hits \in Answers(Question(q)) /\ Evaluated(q, hits))
  BY <1>1
<1>3. hits \in Answers(Question(q)) /\ Evaluated(q, hits)
  BY <1>2, Tools
<1>4. PICK k \in TopKs, alpha \in Alphas : report' = Conditions(k, alpha, q, hits)
  BY <1>3, Tools
<1>5. hits \in Seq(Records) /\ k \in Nat
  BY <1>3, AnswerIsList, BenchAssumption
<1> DEFINE rep == Conditions(k, alpha, q, hits)
<1>6. /\ rep.hits = hits /\ rep.question = q
      /\ rep.bm25 = Score(SessionsOf(hits), q.gold, k)
      /\ rep.band = Score(SessionsOf(BandHits(q, hits)), q.gold, k)
      /\ rep.recency = RecencyHits(q, hits)
      /\ rep.dense = DenseHits(q, alpha, hits)
  BY DEF Conditions
<1> HIDE DEF rep
<1>7. (\A g \in q.gold : DateOf(g) # NoDate) =>
        /\ rep.bm25.first > 0 => rep.band.first \in 1 .. rep.bm25.first
        /\ rep.band.covered >= rep.bm25.covered
  BY <1>5, <1>6, BandBounds
<1>8. /\ ToSet(rep.recency) = ToSet(hits) /\ Len(rep.recency) = Len(hits)
      /\ \A i, j \in DOMAIN hits :
           i < j /\ Age(q, hits[i]) <= Age(q, hits[j]) => Ahead(rep.recency, hits[i], hits[j])
  BY <1>3, <1>6, RecencyKeeps
<1>9. /\ ToSet(rep.dense) = ToSet(Prefix(hits, DenseTop))
      /\ \A i, j \in DOMAIN Prefix(hits, DenseTop) :
           i < j /\ TextCosine(q.query, stored[hits[i][1]].text) >= TextCosine(q.query, stored[hits[j][1]].text)
             => Ahead(rep.dense, hits[i], hits[j])
  BY <1>3, <1>6, DenseKeeps
<1>10. ConditionsRight(rep)
  BY <1>6, <1>7, <1>8, <1>9 DEF ConditionsRight
<1> QED
  BY <1>4, <1>10 DEF rep

\* Whatever is found: the band of dates bounds the plain search from above, the
\* recency prior keeps every hit, and neither it nor the dense rerank puts a hit
\* behind one that is in no way better.
THEOREM ConditionsAreHonest == BenchSpec => []ConditionsHonest
<1>1. BenchInit => ConditionsHonest
  BY DEF BenchInit, ConditionsHonest
<1>2. SearchInv /\ ConditionsHonest /\ [BenchNext]_benchVars => ConditionsHonest'
  <2> SUFFICES ASSUME SearchInv, ConditionsHonest, [BenchNext]_benchVars,
                      report' # NoReport, report'.tool = "conditions"
               PROVE  ConditionsHonest'
    BY DEF ConditionsHonest
  <2>1. CASE UNCHANGED benchVars
    BY <2>1 DEF ConditionsHonest, benchVars, vars
  <2>2. CASE BenchNext
    <3>1. ConditionsRight(report') /\ stored' = stored
      BY <2>2, ConditionsStep, ReportMade DEF SearchInv, vars
    <3> QED
      BY <3>1 DEF ConditionsRight, ConditionsHonest, Ahead
  <2> QED
    BY <2>1, <2>2
<1> QED
  BY <1>1, <1>2, SearchInvariant, BenchesOnlyRead, PTL DEF BenchSpec, Spec

-----------------------------------------------------------------------------
(* What a context holds. *)

\* x stands in c after the first i places.
StandsAt(c, x, i) == i + Len(x) <= Len(c) /\ \A j \in 1 .. Len(x) : c[i + j] = x[j]

LEMMA HoldsIn ==
  ASSUME NEW S, NEW c \in Seq(S), NEW x \in Seq(S)
  PROVE  Holds(c, x) <=> \E i \in Nat : StandsAt(c, x, i)
<1> DEFINE n == Len(x)
           m == Len(c)
<1>0. n \in Nat /\ m \in Nat /\ DOMAIN x = 1 .. n
  OBVIOUS
<1>1. ASSUME NEW k \in 1 .. (m - n + 1)
      PROVE  SubSeq(c, k, k + n - 1) = x <=> StandsAt(c, x, k - 1)
  <2>1. k \in Nat /\ k >= 1 /\ k + n - 1 <= m /\ (k + n - 1) - k + 1 = n /\ (k - 1) + n <= m
    BY <1>0
  <2>2. k + n - 1 \in Int
    BY <1>0
  <2> DEFINE s == SubSeq(c, k, k + n - 1)
  <2>3. /\ s = [j \in 1 .. n |-> c[k + j - 1]]
    BY <1>0, <2>1, <2>2
  <2>4. \A j \in 1 .. n : k + j - 1 = (k - 1) + j
    BY <2>1
  <2>5. x = [j \in 1 .. n |-> x[j]]
    OBVIOUS
  <2> HIDE DEF s
  <2>6. s = x <=> \A j \in 1 .. n : c[k + j - 1] = x[j]
    BY <2>3, <2>5, <1>0
  <2>7. (\A j \in 1 .. n : c[k + j - 1] = x[j]) <=> \A j \in 1 .. n : c[(k - 1) + j] = x[j]
    BY <2>4
  <2> QED
    BY <2>1, <2>6, <2>7 DEF StandsAt, s
<1>2. ASSUME Holds(c, x) PROVE \E i \in Nat : StandsAt(c, x, i)
  <2>1. PICK k \in 1 .. (m - n + 1) : SubSeq(c, k, k + n - 1) = x
    BY <1>2 DEF Holds
  <2>2. k - 1 \in Nat /\ StandsAt(c, x, k - 1)
    BY <1>0, <1>1, <2>1
  <2> QED
    BY <2>2
<1>3. ASSUME NEW i \in Nat, StandsAt(c, x, i) PROVE Holds(c, x)
  <2>1. i + n <= m
    BY <1>3 DEF StandsAt
  <2>2. i + 1 \in 1 .. (m - n + 1) /\ (i + 1) - 1 = i
    BY <1>0, <2>1
  <2>3. SubSeq(c, i + 1, (i + 1) + n - 1) = x
    BY <1>1, <1>3, <2>2
  <2> QED
    BY <2>2, <2>3 DEF Holds
<1> QED
  BY <1>2, <1>3

\* What is held stays held when something comes before or after.
LEMMA HoldsMore ==
  ASSUME NEW S, NEW a \in Seq(S), NEW b \in Seq(S), NEW x \in Seq(S), Holds(a, x) \/ Holds(b, x)
  PROVE  Holds(a \o b, x)
<1> DEFINE c == a \o b
<1>0. /\ c \in Seq(S) /\ Len(a) \in Nat /\ Len(b) \in Nat /\ Len(x) \in Nat
      /\ Len(c) = Len(a) + Len(b)
      /\ \A i \in 1 .. Len(a) : c[i] = a[i]
      /\ \A i \in 1 .. Len(b) : c[Len(a) + i] = b[i]
  OBVIOUS
<1> HIDE DEF c
<1>1. CASE Holds(a, x)
  <2>1. PICK i \in Nat : StandsAt(a, x, i)
    BY <1>1, HoldsIn
  <2>2. i + Len(x) <= Len(a) /\ \A j \in 1 .. Len(x) : i + j \in 1 .. Len(a) /\ a[i + j] = x[j]
    BY <1>0, <2>1 DEF StandsAt
  <2>3. i + Len(x) <= Len(c) /\ \A j \in 1 .. Len(x) : c[i + j] = x[j]
    BY <1>0, <2>2
  <2> QED
    BY <1>0, <2>3, HoldsIn DEF StandsAt, c
<1>2. CASE Holds(b, x)
  <2>1. PICK i \in Nat : StandsAt(b, x, i)
    BY <1>2, HoldsIn
  <2>2. i + Len(x) <= Len(b) /\ \A j \in 1 .. Len(x) : i + j \in 1 .. Len(b) /\ b[i + j] = x[j]
    BY <1>0, <2>1 DEF StandsAt
  <2>3. /\ Len(a) + i \in Nat /\ (Len(a) + i) + Len(x) <= Len(c)
        /\ \A j \in 1 .. Len(x) : (Len(a) + i) + j = Len(a) + (i + j)
    BY <1>0, <2>2
  <2>4. \A j \in 1 .. Len(x) : c[(Len(a) + i) + j] = x[j]
    BY <1>0, <2>2, <2>3
  <2> QED
    BY <1>0, <2>3, <2>4, HoldsIn DEF StandsAt, c
<1> QED
  BY <1>1, <1>2

\* A word without blanks does not reach over a blank.
LEMMA HoldsSplit ==
  ASSUME NEW S, NEW a \in Seq(S), NEW b \in Seq(S), NEW x \in Seq(S),
         x # <<>>, Blanks \notin ToSet(x), Holds(a \o b, x),
         (a # <<>> => a[Len(a)] = Blanks) \/ (b # <<>> => b[1] = Blanks)
  PROVE  Holds(a, x) \/ Holds(b, x)
<1> DEFINE c == a \o b
           n == Len(x)
           la == Len(a)
           lb == Len(b)
<1>0. /\ c \in Seq(S) /\ la \in Nat /\ lb \in Nat /\ n \in Nat /\ n # 0
      /\ Len(c) = la + lb
      /\ \A i \in 1 .. la : c[i] = a[i]
      /\ \A i \in 1 .. lb : c[la + i] = b[i]
  OBVIOUS
<1>1. \A j \in 1 .. n : x[j] # Blanks
  BY DEF ToSet
<1>2. (la # 0 => a[la] = Blanks) \/ (lb # 0 => b[1] = Blanks)
  OBVIOUS
<1>3. PICK i \in Nat : StandsAt(c, x, i)
  BY <1>0, HoldsIn
<1> HIDE DEF c
<1>4. i + n <= la + lb /\ \A j \in 1 .. n : c[i + j] = x[j]
  BY <1>0, <1>3 DEF StandsAt
<1>5. CASE i + n <= la
  <2>1. \A j \in 1 .. n : i + j \in 1 .. la
    BY <1>0, <1>5
  <2>2. \A j \in 1 .. n : a[i + j] = x[j]
    BY <1>0, <1>4, <2>1
  <2>3. StandsAt(a, x, i)
    BY <1>5, <2>2 DEF StandsAt
  <2> QED
    BY <2>3, HoldsIn
<1>6. CASE i >= la
  <2>1. i - la \in Nat /\ (i - la) + n <= lb
    BY <1>0, <1>4, <1>6
  <2>2. \A j \in 1 .. n : (i - la) + j \in 1 .. lb /\ la + ((i - la) + j) = i + j
    BY <1>0, <1>4, <1>6
  <2>3. \A j \in 1 .. n : b[(i - la) + j] = x[j]
    BY <1>0, <1>4, <2>2
  <2>4. StandsAt(b, x, i - la)
    BY <2>1, <2>3 DEF StandsAt
  <2> QED
    BY <2>1, <2>4, HoldsIn
<1>7. CASE i < la /\ la < i + n
  <2>1. /\ la - i \in 1 .. n /\ i + (la - i) = la /\ la \in 1 .. la
        /\ (la - i) + 1 \in 1 .. n /\ i + ((la - i) + 1) = la + 1 /\ 1 \in 1 .. lb
        /\ la # 0 /\ lb # 0
    BY <1>0, <1>4, <1>7
  <2>2. a[la] = x[la - i] /\ b[1] = x[(la - i) + 1]
    BY <1>0, <1>4, <2>1
  <2> QED
    BY <1>1, <1>2, <2>1, <2>2
<1> QED
  BY <1>0, <1>5, <1>6, <1>7

-----------------------------------------------------------------------------
(* Texts. *)

Marks == Letters \cup {Blanks}

LEMMA WordMarks ==
  ASSUME NEW S, NEW T, S \subseteq T
  PROVE  Seq(S) \subseteq Seq(T) /\ Seq(Seq(S)) \subseteq Seq(Seq(T))
<1>1. ASSUME NEW A, NEW B, A \subseteq B, NEW s \in Seq(A) PROVE s \in Seq(B)
  <2>1. Len(s) \in Nat /\ s \in [1 .. Len(s) -> A]
    OBVIOUS
  <2>2. s \in [1 .. Len(s) -> B]
    BY <1>1, <2>1
  <2> QED
    BY <2>1, <2>2, SeqDef
<1>2. Seq(S) \subseteq Seq(T)
  BY <1>1
<1> QED
  BY <1>1, <1>2

\* A text holds a word without blanks if and only if one of its words does.
LEMMA SpelledHolds ==
  ASSUME NEW S, Blanks \in S, NEW text \in Seq(Seq(S))
  PROVE  /\ Spelled(text) \in Seq(S)
         /\ \A x \in Seq(S) :
              x # <<>> /\ Blanks \notin ToSet(x) =>
                (Holds(Spelled(text), x) <=> \E i \in 1 .. Len(text) : Holds(text[i], x))
<1> DEFINE n == Len(text)
           p == [i \in DOMAIN text |-> IF i = 1 THEN text[i] ELSE <<Blanks>> \o text[i]]
<1>0. n \in Nat /\ DOMAIN text = 1 .. n /\ \A i \in 1 .. n : text[i] \in Seq(S)
  OBVIOUS
<1>1. p \in Seq(Seq(S)) /\ Len(p) = n
  <2>1. \A i \in 1 .. n : <<Blanks>> \o text[i] \in Seq(S)
    BY <1>0
  <2>2. p \in [1 .. n -> Seq(S)]
    BY <1>0, <2>1
  <2> HIDE DEF p
  <2>3. p \in UNION {[1 .. m -> Seq(S)] : m \in Nat}
    BY <1>0, <2>2
  <2>4. p \in Seq(Seq(S))
    BY <2>3, SeqDef
  <2> QED
    BY <1>0, <2>2, <2>4, LenProperties
<1>2. \A i \in 1 .. n : p[i] = IF i = 1 THEN text[i] ELSE <<Blanks>> \o text[i]
  BY <1>0
<1>3. Spelled(text) = FlattenSeq(p)
  BY DEF Spelled
<1> HIDE DEF p
<1>4. Spelled(text) \in Seq(S)
  BY <1>1, <1>3, FlatHolds
<1> SUFFICES ASSUME NEW x \in Seq(S), x # <<>>, Blanks \notin ToSet(x)
             PROVE  Holds(Spelled(text), x) <=> \E i \in 1 .. n : Holds(text[i], x)
  BY <1>4
<1>5. CASE n = 0
  <2>1. FlattenSeq(p) = <<>>
    <3>1. p = <<>>
      BY <1>1, <1>5
    <3> QED
      BY <3>1 DEF FlattenSeq
  <2>2. ~ Holds(<<>>, x)
    <3>1. <<>> \in Seq(S) /\ Len(<<>>) = 0 /\ Len(x) \in Nat /\ Len(x) # 0
      OBVIOUS
    <3>2. \A i \in Nat : ~ StandsAt(<<>>, x, i)
      BY <3>1 DEF StandsAt
    <3> QED
      BY <3>1, <3>2, HoldsIn
  <2> QED
    BY <1>3, <1>5, <2>1, <2>2
<1>6. CASE n # 0
  <2>1. PICK f : Flattens(f, p, S)
    BY <1>1, <1>6, FlatSteps
  <2>2. /\ f[1] = text[1]
        /\ \A i \in 2 .. n : i - 1 \in 1 .. n /\ f[i] = f[i - 1] \o (<<Blanks>> \o text[i])
        /\ \A i \in 1 .. n : f[i] \in Seq(S)
        /\ FlattenSeq(p) = f[n]
    <3>1. 1 \in 1 .. n /\ \A i \in 2 .. n : i \in 1 .. n /\ i # 1
      BY <1>0, <1>6
    <3> QED
      BY <1>1, <1>2, <2>1, <3>1 DEF Flattens
  <2> HIDE DEF n
  <2> DEFINE Q == {k \in Nat : k + 1 <= n => (Holds(f[k + 1], x) <=> \E i \in 1 .. (k + 1) : Holds(text[i], x))}
  <2>3. 0 \in Q
    <3>1. \A i \in 1 .. (0 + 1) : i = 1
      OBVIOUS
    <3>2. 1 \in 1 .. (0 + 1) /\ 0 + 1 = 1
      OBVIOUS
    <3> QED
      BY <2>2, <3>1, <3>2
  <2>4. ASSUME NEW k \in Nat, k \in Q PROVE k + 1 \in Q
    <3> SUFFICES ASSUME (k + 1) + 1 <= n
                 PROVE  Holds(f[(k + 1) + 1], x) <=> \E i \in 1 .. ((k + 1) + 1) : Holds(text[i], x)
      OBVIOUS
    <3> DEFINE m == (k + 1) + 1
               a == f[k + 1]
               b == text[m]
    <3>1. /\ m \in 2 .. n /\ m \in 1 .. n /\ m - 1 = k + 1 /\ k + 1 <= n /\ k + 1 \in 1 .. n
          /\ 1 .. m = 1 .. (k + 1) \cup {m}
      BY <1>0
    <3> HIDE DEF m
    <3>2. f[m] = a \o (<<Blanks>> \o b) /\ a \in Seq(S) /\ b \in Seq(S)
      BY <1>0, <2>2, <3>1
    <3>3. Holds(a, x) <=> \E i \in 1 .. (k + 1) : Holds(text[i], x)
      BY <2>4, <3>1
    <3> HIDE DEF a, b
    <3>4. /\ <<Blanks>> \in Seq(S) /\ <<Blanks>> \o b \in Seq(S) /\ <<Blanks>> # <<>>
          /\ <<Blanks>>[Len(<<Blanks>>)] = Blanks /\ (<<Blanks>> \o b)[1] = Blanks
      BY <3>2
    <3>5. Holds(a, x) \/ Holds(b, x) => Holds(f[m], x)
      <4>1. Holds(b, x) => Holds(<<Blanks>> \o b, x)
        BY <3>2, <3>4, HoldsMore
      <4> DEFINE e == <<Blanks>> \o b
      <4>2. e \in Seq(S) /\ f[m] = a \o e
        BY <3>2, <3>4
      <4>3. Holds(b, x) => Holds(e, x)
        BY <4>1
      <4> HIDE DEF e
      <4>4. Holds(a, x) \/ Holds(e, x) => Holds(a \o e, x)
        BY <3>2, <4>2, HoldsMore
      <4> QED
        BY <4>2, <4>3, <4>4
    <3>6. ASSUME Holds(f[m], x) PROVE Holds(a, x) \/ Holds(b, x)
      <4> DEFINE e == <<Blanks>> \o b
      <4>1. e \in Seq(S) /\ f[m] = a \o e /\ e[1] = Blanks
        BY <3>2, <3>4
      <4> HIDE DEF e
      <4>2. Holds(a \o e, x)
        BY <3>6, <4>1
      <4>3. Holds(a, x) \/ Holds(e, x)
        BY <3>2, <4>1, <4>2, HoldsSplit
      <4> DEFINE o == <<Blanks>>
      <4>4. o \in Seq(S) /\ o # <<>> /\ o[Len(o)] = Blanks /\ e = o \o b
        BY <3>4 DEF e
      <4>5. ~ Holds(o, x)
        <5>1. Len(o) = 1 /\ o[1] = Blanks /\ Len(x) \in Nat /\ Len(x) # 0
          OBVIOUS
        <5>2. 1 \in 1 .. Len(x) /\ x[1] # Blanks
          BY <5>1 DEF ToSet
        <5> HIDE DEF o
        <5>3. ASSUME NEW i \in Nat, StandsAt(o, x, i) PROVE FALSE
          <6>1. i + Len(x) <= 1 /\ o[i + 1] = x[1]
            BY <5>1, <5>2, <5>3 DEF StandsAt
          <6>2. i = 0
            BY <5>1, <6>1
          <6> QED
            BY <5>1, <5>2, <6>1, <6>2
        <5> QED
          BY <4>4, <5>3, HoldsIn
      <4> HIDE DEF o
      <4>6. Holds(e, x) => Holds(b, x)
        BY <3>2, <4>4, <4>5, HoldsSplit
      <4> QED
        BY <4>3, <4>6
    <3>7. (\E i \in 1 .. m : Holds(text[i], x)) <=> ((\E i \in 1 .. (k + 1) : Holds(text[i], x)) \/ Holds(b, x))
      BY <3>1 DEF b
    <3> QED
      BY <3>3, <3>5, <3>6, <3>7 DEF m
  <2>5. n - 1 \in Q
    <3>1. n - 1 \in Nat
      BY <1>0, <1>6
    <3> HIDE DEF Q
    <3> QED
      BY <2>3, <2>4, <3>1, AllNumbers
  <2>6. (n - 1) + 1 = n /\ n <= n
    BY <1>0
  <2> QED
    BY <1>3, <2>2, <2>5, <2>6
<1> QED
  BY <1>5, <1>6

-----------------------------------------------------------------------------
(* Contexts: the fold of AppendBounded. *)

\* g is what the fold computes over the first k texts.
Fills(g, cfg, texts, k) ==
  g = [s \in SUBSET (1..k) |->
         IF s = {} THEN <<>> ELSE AppendBounded(cfg, g[s \ {Max(s)}], texts[Max(s)])]

LEMMA FillExtends ==
  ASSUME NEW cfg, NEW texts, NEW k \in Nat, NEW g, Fills(g, cfg, texts, k)
  PROVE  \E h : Fills(h, cfg, texts, k + 1)
<1> DEFINE h == [s \in SUBSET (1..(k + 1)) |->
                   IF k + 1 \in s THEN AppendBounded(cfg, g[s \ {k + 1}], texts[k + 1]) ELSE g[s]]
           step(s) == IF s = {} THEN <<>> ELSE AppendBounded(cfg, h[s \ {Max(s)}], texts[Max(s)])
<1>1. ASSUME NEW s \in SUBSET (1..(k + 1)), k + 1 \in s PROVE h[s] = step(s)
  <2>0. s \subseteq Nat /\ \A e \in s : e <= k + 1
    BY <1>1
  <2>1. Max(s) = k + 1
    BY <1>1, <2>0, MaxOf
  <2>2. s \ {k + 1} \in SUBSET (1..(k + 1)) /\ k + 1 \notin s \ {k + 1}
    OBVIOUS
  <2>3. h[s \ {k + 1}] = g[s \ {k + 1}]
    BY <2>2
  <2> QED
    BY <1>1, <2>1, <2>3
<1>2. ASSUME NEW s \in SUBSET (1..(k + 1)), k + 1 \notin s PROVE h[s] = step(s)
  <2>0. \A e \in s : e \in 1..k
    BY <1>2
  <2>1. s \in SUBSET (1..k) /\ s \ {Max(s)} \in SUBSET (1..(k + 1))
    BY <2>0
  <2>2. g[s] = IF s = {} THEN <<>> ELSE AppendBounded(cfg, g[s \ {Max(s)}], texts[Max(s)])
    BY <2>1, Zenon DEF Fills
  <2>3. h[s \ {Max(s)}] = g[s \ {Max(s)}]
    BY <1>2, <2>1
  <2> QED
    BY <1>2, <2>2, <2>3
<1>3. h = [s \in SUBSET (1..(k + 1)) |-> step(s)]
  BY <1>1, <1>2
<1> QED
  BY <1>3, Zenon DEF Fills

LEMMA FillExists == \A cfg, texts : \A k \in Nat : \E g : Fills(g, cfg, texts, k)
<1> TAKE cfg, texts
<1> DEFINE S == {k \in Nat : \E g : Fills(g, cfg, texts, k)}
<1>1. 0 \in S
  <2> DEFINE g == [s \in SUBSET (1..0) |-> <<>>]
  <2>1. \A s \in SUBSET (1..0) : s = {}
    OBVIOUS
  <2>2. Fills(g, cfg, texts, 0)
    BY <2>1 DEF Fills
  <2> QED
    BY <2>2
<1>2. \A k \in Nat : k \in S => k + 1 \in S
  BY FillExtends
<1> HIDE DEF S
<1>3. \A k \in Nat : k \in S
  BY <1>1, <1>2, AllNumbers
<1> QED
  BY <1>3 DEF S

\* acc[i] is the context after the first i texts.
Contexts(acc, cfg, texts) ==
  /\ acc[0] = <<>>
  /\ \A i \in 1 .. Len(texts) : acc[i] = AppendBounded(cfg, acc[i - 1], texts[i])
  /\ Context(cfg, texts) = acc[Len(texts)]

LEMMA ContextSteps ==
  ASSUME NEW S, NEW cfg, NEW texts \in Seq(S)
  PROVE  \E acc : Contexts(acc, cfg, texts)
<1> DEFINE n == Len(texts)
           g == CHOOSE h : Fills(h, cfg, texts, n)
           acc == [i \in 0..n |-> g[1..i]]
<1>1. n \in Nat /\ DOMAIN texts = 1..n
  OBVIOUS
<1>2. Fills(g, cfg, texts, n)
  BY <1>1, FillExists
<1>3. Context(cfg, texts) = g[1..n]
  BY <1>1 DEF Context, FoldLeft, MapThenFoldSet, Fills
<1> HIDE DEF g
<1>4. acc[0] = <<>>
  <2>1. 1..0 = {} /\ {} \in SUBSET (1..n)
    OBVIOUS
  <2>2. g[{}] = <<>>
    BY <1>2, <2>1 DEF Fills
  <2> QED
    BY <1>1, <2>1, <2>2
<1>5. ASSUME NEW i \in 1..n PROVE acc[i] = AppendBounded(cfg, acc[i - 1], texts[i])
  <2>0. i \in 1..i /\ 1..i \subseteq Nat /\ \A e \in 1..i : e <= i
    OBVIOUS
  <2>1. 1..i \in SUBSET (1..n) /\ 1..i # {}
    BY <1>1
  <2>4. (1..i) \ {i} = 1..(i - 1) /\ i - 1 \in 0..n /\ i \in 0..n
    BY <1>1
  <2>2. Max(1..i) = i
    BY <2>0, MaxOf
  <2>3. g[1..i] = AppendBounded(cfg, g[(1..i) \ {Max(1..i)}], texts[Max(1..i)])
    BY <1>2, <2>1, Zenon DEF Fills
  <2> QED
    BY <2>1, <2>2, <2>3, <2>4
<1>7. acc[n] = g[1..n]
  BY <1>1
<1> HIDE DEF acc
<1>6. Contexts(acc, cfg, texts)
  BY <1>3, <1>4, <1>5, <1>7 DEF Contexts
<1> QED
  BY <1>6

LEMMA LeastOf == \A a, b \in Nat : Least(a, b) \in Nat /\ Least(a, b) <= a /\ Least(a, b) <= b
                                  /\ Least(a, b) \in {a, b}
BY DEF Least

\* A text that is appended is kept within the budget, and ends with a blank.
LEMMA Appended ==
  ASSUME NEW S, Blanks \in S, NEW cfg \in GateConfigs, NEW ctx \in Seq(S), NEW text \in Seq(S),
         Len(ctx) <= cfg.budget + 1, ctx # <<>> => ctx[Len(ctx)] = Blanks
  PROVE  LET new == AppendBounded(cfg, ctx, text)
         IN  /\ new \in Seq(S) /\ Len(new) <= cfg.budget + 1
             /\ new # <<>> => new[Len(new)] = Blanks
             /\ \A x \in Seq(S) : x # <<>> /\ Blanks \notin ToSet(x) /\ Holds(new, x) =>
                                    Holds(ctx, x) \/ Holds(text, x)
             /\ Len(ctx) + Len(text) < cfg.budget /\ Len(text) <= cfg.perDoc =>
                  new = ctx \o (text \o <<Blanks>>)
<1> DEFINE new == AppendBounded(cfg, ctx, text)
           room == Least(Least(cfg.budget - Len(ctx), cfg.perDoc), Len(text))
           part == SubSeq(text, 1, room)
           blank == <<Blanks>>
<1>0. cfg.budget \in Nat /\ cfg.perDoc \in Nat /\ Len(ctx) \in Nat /\ Len(text) \in Nat
  BY WordsAssumption
<1>1. CASE Len(ctx) >= cfg.budget
  <2>1. new = ctx
    BY <1>1 DEF AppendBounded
  <2> QED
    BY <1>0, <1>1, <2>1
<1>2. CASE ~ (Len(ctx) >= cfg.budget)
  <2>1. new = ctx \o part \o blank
    BY <1>2 DEF AppendBounded
  <2> DEFINE left == cfg.budget - Len(ctx)
             most == Least(left, cfg.perDoc)
  <2>2. left \in Nat /\ Len(ctx) + left = cfg.budget
    BY <1>0, <1>2
  <2> HIDE DEF left
  <2>3. most \in Nat /\ most <= left /\ most \in {left, cfg.perDoc}
    BY <1>0, <2>2, LeastOf
  <2> HIDE DEF most
  <2>4. Least(most, Len(text)) \in Nat /\ Least(most, Len(text)) <= most /\ Least(most, Len(text)) <= Len(text)
        /\ Least(most, Len(text)) \in {most, Len(text)}
    BY <1>0, <2>3, LeastOf
  <2>5. room \in Nat /\ room <= left /\ room <= Len(text) /\ room \in {left, cfg.perDoc, Len(text)}
    <3>1. room = Least(most, Len(text))
      BY DEF most, left
    <3> HIDE DEF room
    <3> QED
      BY <1>0, <2>2, <2>3, <2>4, <3>1
  <2> HIDE DEF room
  <2>6. part \in Seq(S) /\ Len(part) = room /\ \A i \in 1 .. room : part[i] = text[i]
    BY <1>0, <2>5
  <2>7. blank \in Seq(S) /\ Len(blank) = 1 /\ blank[1] = Blanks
    OBVIOUS
  <2>8. room = Len(text) => part = text
    BY <1>0, SubSeqFull
  <2> HIDE DEF part, blank, new
  <2> DEFINE both == ctx \o part
  <2>9. /\ both \in Seq(S) /\ Len(both) = Len(ctx) + room
        /\ new = both \o blank /\ new \in Seq(S) /\ Len(new) = Len(both) + 1
        /\ new[Len(new)] = Blanks
    <3>1. both \in Seq(S) /\ Len(both) = Len(ctx) + room
      BY <2>6, ConcatProperties
    <3>2. new = both \o blank
      BY <2>1
    <3> HIDE DEF both
    <3>3. /\ new \in Seq(S) /\ Len(new) = Len(both) + 1 /\ Len(both) \in Nat
          /\ new[Len(both) + 1] = blank[1]
      <4>1. /\ new \in Seq(S) /\ Len(new) = Len(both) + 1
            /\ \A i \in 1 .. Len(both) + 1 :
                 new[i] = IF i <= Len(both) THEN both[i] ELSE blank[i - Len(both)]
        <5>1. /\ both \o blank \in Seq(S) /\ Len(both \o blank) = Len(both) + Len(blank)
              /\ \A i \in 1 .. Len(both) + Len(blank) :
                   (both \o blank)[i] = IF i <= Len(both) THEN both[i] ELSE blank[i - Len(both)]
          BY <2>7, <3>1, ConcatProperties
        <5> QED
          BY <2>7, <3>2, <5>1
      <4>2. Len(both) \in Nat
        BY <3>1
      <4>3. /\ Len(both) + 1 \in 1 .. Len(both) + 1 /\ ~ (Len(both) + 1 <= Len(both))
            /\ (Len(both) + 1) - Len(both) = 1
        BY <4>2
      <4> QED
        BY <4>1, <4>2, <4>3
    <3> QED
      BY <2>7, <3>1, <3>2, <3>3
  <2>10. Len(new) <= cfg.budget + 1
    BY <1>0, <2>2, <2>5, <2>9
  <2>11. ASSUME NEW x \in Seq(S), x # <<>>, Blanks \notin ToSet(x), Holds(new, x)
         PROVE  Holds(ctx, x) \/ Holds(text, x)
    <3> HIDE DEF both
    <3>1. Holds(both, x) \/ Holds(blank, x)
      BY <2>7, <2>9, <2>11, HoldsSplit
    <3>2. ~ Holds(blank, x)
      <4>1. Len(x) \in Nat /\ Len(x) # 0
        BY <2>11
      <4>2. 1 \in 1 .. Len(x) /\ x[1] # Blanks
        BY <2>11, <4>1 DEF ToSet
      <4>3. ASSUME NEW i \in Nat, StandsAt(blank, x, i) PROVE FALSE
        <5>1. i + Len(x) <= 1 /\ blank[i + 1] = x[1]
          BY <2>7, <4>2, <4>3 DEF StandsAt
        <5>2. i = 0
          BY <4>1, <5>1
        <5> QED
          BY <2>7, <4>2, <5>1, <5>2
      <4> QED
        BY <2>7, <4>3, HoldsIn
    <3>3. Holds(ctx, x) \/ Holds(part, x)
      <4>1. Holds(ctx \o part, x)
        BY <3>1, <3>2 DEF both
      <4> QED
        BY <2>6, <2>11, <4>1, HoldsSplit
    <3>4. ASSUME Holds(part, x) PROVE Holds(text, x)
      <4>1. PICK i \in Nat : StandsAt(part, x, i)
        BY <2>6, <3>4, HoldsIn
      <4>2. i + Len(x) <= room /\ \A j \in 1 .. Len(x) : i + j \in 1 .. room /\ part[i + j] = x[j]
        BY <2>5, <2>6, <4>1 DEF StandsAt
      <4>3. i + Len(x) <= Len(text) /\ \A j \in 1 .. Len(x) : text[i + j] = x[j]
        BY <1>0, <2>5, <2>6, <4>2
      <4> QED
        BY <4>3, HoldsIn DEF StandsAt
    <3> QED
      BY <3>3, <3>4
  <2>12. ASSUME Len(ctx) + Len(text) < cfg.budget, Len(text) <= cfg.perDoc
         PROVE  new = ctx \o (text \o blank)
    <3>1. Len(text) < left
      BY <1>0, <2>2, <2>12
    <3>2. room = Len(text)
      <4>1. room \in {cfg.perDoc, Len(text)}
        BY <1>0, <2>2, <2>5, <3>1
      <4> QED
        BY <1>0, <2>5, <2>12, <4>1
    <3>3. part = text
      BY <2>8, <3>2
    <3>4. (ctx \o text) \o blank = ctx \o (text \o blank)
      BY <2>7, ConcatAssociative
    <3> QED
      BY <2>1, <3>3, <3>4
  <2> QED
    BY <2>9, <2>10, <2>11, <2>12 DEF new, blank
<1> QED
  BY <1>1, <1>2

LEMMA AppendedWhole ==
  ASSUME NEW S, Blanks \in S, NEW cfg \in GateConfigs, NEW ctx \in Seq(S), NEW text \in Seq(S),
         Len(ctx) <= cfg.budget + 1, ctx # <<>> => ctx[Len(ctx)] = Blanks,
         Len(ctx) + Len(text) < cfg.budget, Len(text) <= cfg.perDoc
  PROVE  AppendBounded(cfg, ctx, text) = ctx \o (text \o <<Blanks>>)
BY Appended

\* What a context is after i texts: within its budget, ended by a blank, and
\* made of no other words.
Fair(c, cfg, texts, S, i) ==
  /\ c \in Seq(S) /\ Len(c) <= cfg.budget + 1
  /\ c # <<>> => c[Len(c)] = Blanks
  /\ \A x \in Seq(S) :
       x # <<>> /\ Blanks \notin ToSet(x) /\ Holds(c, x) => \E j \in 1 .. i : Holds(texts[j], x)

LEMMA ContextsAreFair ==
  ASSUME NEW S, Blanks \in S, NEW cfg \in GateConfigs, NEW texts \in Seq(Seq(S)), NEW acc,
         Contexts(acc, cfg, texts)
  PROVE  \A i \in 0 .. Len(texts) : Fair(acc[i], cfg, texts, S, i)
<1> DEFINE n == Len(texts)
           Q == {k \in Nat : k <= n => Fair(acc[k], cfg, texts, S, k)}
<1>0. /\ n \in Nat /\ \A i \in 1 .. n : texts[i] \in Seq(S)
      /\ cfg.budget \in Nat
  BY WordsAssumption
<1>1. 0 \in Q
  <2>1. acc[0] = <<>> /\ <<>> \in Seq(S) /\ Len(<<>>) = 0
    BY DEF Contexts
  <2>2. ASSUME NEW x \in Seq(S), x # <<>> PROVE ~ Holds(<<>>, x)
    <3>1. Len(x) \in Nat /\ Len(x) # 0
      BY <2>2
    <3>2. \A i \in Nat : ~ StandsAt(<<>>, x, i)
      BY <2>1, <3>1 DEF StandsAt
    <3> QED
      BY <2>1, <3>2, HoldsIn
  <2>3. 0 \in Nat /\ 0 <= cfg.budget + 1
    BY <1>0
  <2> DEFINE c == acc[0]
  <2>4. c = <<>> /\ c \in Seq(S) /\ Len(c) <= cfg.budget + 1
    BY <2>1, <2>3
  <2> HIDE DEF c
  <2>5. Fair(c, cfg, texts, S, 0)
    BY <2>2, <2>4 DEF Fair
  <2> QED
    BY <2>5 DEF c
<1>2. ASSUME NEW k \in Nat, k \in Q PROVE k + 1 \in Q
  <2> SUFFICES ASSUME k + 1 <= n PROVE Fair(acc[k + 1], cfg, texts, S, k + 1)
    OBVIOUS
  <2> DEFINE ctx == acc[k]
             text == texts[k + 1]
             new == AppendBounded(cfg, ctx, text)
  <2>1. k + 1 \in 1 .. n /\ (k + 1) - 1 = k /\ k <= n /\ k + 1 \in 1 .. (k + 1)
        /\ \A j \in 1 .. k : j \in 1 .. (k + 1)
    BY <1>0
  <2>2. acc[k + 1] = new
    BY <2>1 DEF Contexts
  <2>3. text \in Seq(S) /\ Fair(ctx, cfg, texts, S, k)
    BY <1>0, <1>2, <2>1
  <2> HIDE DEF ctx, text
  <2>4. ctx \in Seq(S) /\ Len(ctx) <= cfg.budget + 1 /\ (ctx # <<>> => ctx[Len(ctx)] = Blanks)
    BY <2>3 DEF Fair
  <2>5. /\ new \in Seq(S) /\ Len(new) <= cfg.budget + 1
        /\ new # <<>> => new[Len(new)] = Blanks
        /\ \A x \in Seq(S) : x # <<>> /\ Blanks \notin ToSet(x) /\ Holds(new, x) =>
                               Holds(ctx, x) \/ Holds(text, x)
    BY <2>3, <2>4, Appended
  <2> HIDE DEF new
  <2>6. ASSUME NEW x \in Seq(S), x # <<>>, Blanks \notin ToSet(x), Holds(new, x)
        PROVE  \E j \in 1 .. (k + 1) : Holds(texts[j], x)
    <3>1. CASE Holds(ctx, x)
      <4>1. \E j \in 1 .. k : Holds(texts[j], x)
        BY <2>3, <2>6, <3>1 DEF Fair
      <4> QED
        BY <2>1, <4>1
    <3>2. CASE Holds(text, x)
      BY <2>1, <3>2 DEF text
    <3> QED
      BY <2>5, <2>6, <3>1, <3>2
  <2> QED
    BY <2>2, <2>5, <2>6 DEF Fair
<1> HIDE DEF Q
<1>3. \A k \in Nat : k \in Q
  BY <1>1, <1>2, AllNumbers
<1>4. \A i \in 0 .. n : i \in Nat /\ i <= n
  BY <1>0
<1> QED
  BY <1>3, <1>4 DEF Q

\* Flattening only adds.
LEMMA FlatGrows ==
  ASSUME NEW S, NEW seqs \in Seq(Seq(S)), NEW f, Flattens(f, seqs, S)
  PROVE  \A k \in 1 .. Len(seqs) : Len(f[k]) <= Len(f[Len(seqs)])
<1> DEFINE n == Len(seqs)
<1>0. n \in Nat /\ \A i \in 1 .. n : seqs[i] \in Seq(S) /\ f[i] \in Seq(S)
  BY DEF Flattens
<1>1. \A i \in 2 .. n : f[i] = f[i - 1] \o seqs[i]
  BY DEF Flattens
<1> SUFFICES ASSUME NEW k \in 1 .. n PROVE Len(f[k]) <= Len(f[n])
  OBVIOUS
<1> HIDE DEF n
<1> DEFINE Q == {m \in Nat : k + m <= n => Len(f[k]) <= Len(f[k + m])}
<1>2. 0 \in Q
  <2>1. k + 0 = k /\ Len(f[k]) \in Nat
    BY <1>0
  <2> QED
    BY <2>1
<1>3. ASSUME NEW m \in Nat, m \in Q PROVE m + 1 \in Q
  <2> SUFFICES ASSUME k + (m + 1) <= n PROVE Len(f[k]) <= Len(f[k + (m + 1)])
    OBVIOUS
  <2> DEFINE i == k + (m + 1)
             a == f[k + m]
             b == seqs[i]
  <2>1. i \in 2 .. n /\ i \in 1 .. n /\ i - 1 = k + m /\ k + m <= n /\ k + m \in 1 .. n
    BY <1>0
  <2> HIDE DEF i
  <2>2. f[i] = a \o b /\ a \in Seq(S) /\ b \in Seq(S)
    BY <1>0, <1>1, <2>1
  <2>3. Len(f[k]) <= Len(a) /\ Len(f[k]) \in Nat
    BY <1>0, <1>3, <2>1
  <2> HIDE DEF a, b
  <2>4. Len(a \o b) = Len(a) + Len(b) /\ Len(a) \in Nat /\ Len(b) \in Nat
    BY <2>2
  <2>5. Len(f[k]) <= Len(f[i])
    BY <2>2, <2>3, <2>4
  <2> QED
    BY <2>5 DEF i
<1> HIDE DEF Q
<1>4. \A m \in Nat : m \in Q
  BY <1>2, <1>3, AllNumbers
<1>5. n - k \in Nat /\ k + (n - k) = n /\ n <= n
  BY <1>0
<1>6. n - k \in Q
  BY <1>4, <1>5
<1> QED
  BY <1>5, <1>6 DEF Q

\* Texts that fit are in the context as they are.
LEMMA ContextIsWhole ==
  ASSUME NEW S, Blanks \in S, NEW cfg \in GateConfigs, NEW texts \in Seq(Seq(S)), NEW acc,
         Contexts(acc, cfg, texts),
         \A i \in 1 .. Len(texts) : Len(texts[i]) <= cfg.perDoc,
         Len(FlattenSeq([i \in DOMAIN texts |-> texts[i] \o <<Blanks>>])) <= cfg.budget
  PROVE  \A x \in Seq(S) : \A i \in 1 .. Len(texts) :
           Holds(texts[i], x) => Holds(Context(cfg, texts), x)
<1> DEFINE n == Len(texts)
           p == [i \in DOMAIN texts |-> texts[i] \o <<Blanks>>]
<1>0. /\ n \in Nat /\ DOMAIN texts = 1 .. n /\ \A i \in 1 .. n : texts[i] \in Seq(S)
      /\ cfg.budget \in Nat /\ cfg.perDoc \in Nat
  BY WordsAssumption
<1>1. p \in Seq(Seq(S)) /\ Len(p) = n
  <2>1. \A i \in 1 .. n : texts[i] \o <<Blanks>> \in Seq(S)
    BY <1>0
  <2>2. p \in [1 .. n -> Seq(S)]
    BY <1>0, <2>1
  <2> HIDE DEF p
  <2>3. p \in UNION {[1 .. m -> Seq(S)] : m \in Nat}
    BY <1>0, <2>2
  <2>4. p \in Seq(Seq(S))
    BY <2>3, SeqDef
  <2> QED
    BY <1>0, <2>2, <2>4, LenProperties
<1>2. \A i \in 1 .. n : p[i] = texts[i] \o <<Blanks>>
  BY <1>0
<1>3. Len(FlattenSeq(p)) <= cfg.budget
  OBVIOUS
<1> HIDE DEF p
<1> SUFFICES ASSUME NEW x \in Seq(S), NEW here \in 1 .. n, Holds(texts[here], x)
             PROVE  Holds(Context(cfg, texts), x)
  OBVIOUS
<1>4. n # 0
  BY <1>0
<1>5. PICK f : Flattens(f, p, S)
  BY <1>1, <1>4, FlatSteps
<1>6. /\ f[1] = p[1]
      /\ \A i \in 2 .. n : i - 1 \in 1 .. n /\ f[i] = f[i - 1] \o p[i]
      /\ \A i \in 1 .. n : f[i] \in Seq(S)
      /\ FlattenSeq(p) = f[n]
  BY <1>1, <1>5 DEF Flattens
<1>7. \A i \in 1 .. n : Len(f[i]) <= cfg.budget
  <2>1. ASSUME NEW i \in 1 .. n PROVE Len(f[i]) <= cfg.budget
    <3>1. Len(f[i]) <= Len(f[n]) /\ n \in 1 .. n
      BY <1>0, <1>1, <1>4, <1>5, FlatGrows
    <3>2. Len(f[i]) \in Nat /\ Len(f[n]) \in Nat
      BY <1>6, <3>1
    <3> QED
      BY <1>0, <1>3, <1>6, <3>1, <3>2
  <2> QED
    BY <2>1
<1>8. \A i \in 0 .. n : Fair(acc[i], cfg, texts, S, i)
  BY ContextsAreFair
<1>9. /\ acc[0] = <<>> /\ \A i \in 1 .. n : acc[i] = AppendBounded(cfg, acc[i - 1], texts[i])
      /\ Context(cfg, texts) = acc[n]
  BY DEF Contexts
<1>10. \A i \in 1 .. n : Len(texts[i]) <= cfg.perDoc
  OBVIOUS
<1> HIDE DEF n
\* A text that fits behind what is there is appended whole.
<1>11. ASSUME NEW i \in 1 .. n, acc[i - 1] \in Seq(S), Len(acc[i - 1] \o p[i]) <= cfg.budget
       PROVE  acc[i] = acc[i - 1] \o p[i]
  <2> DEFINE ctx == acc[i - 1]
             text == texts[i]
  <2>0. i - 1 \in 0 .. n
    BY <1>0
  <2>1. ctx \in Seq(S) /\ text \in Seq(S) /\ p[i] = text \o <<Blanks>>
        /\ acc[i] = AppendBounded(cfg, ctx, text) /\ Len(text) <= cfg.perDoc
        /\ Len(ctx \o p[i]) <= cfg.budget
    BY <1>0, <1>2, <1>9, <1>10, <1>11
  <2>2. Len(ctx) <= cfg.budget + 1 /\ (ctx # <<>> => ctx[Len(ctx)] = Blanks)
    BY <1>8, <2>0 DEF Fair
  <2> HIDE DEF ctx, text
  <2>3. Len(ctx \o p[i]) = Len(ctx) + (Len(text) + 1) /\ Len(ctx) \in Nat /\ Len(text) \in Nat
    <3>1. <<Blanks>> \in Seq(S) /\ Len(<<Blanks>>) = 1
      OBVIOUS
    <3>2. p[i] \in Seq(S) /\ Len(p[i]) = Len(text) + 1
      BY <2>1, <3>1, ConcatProperties
    <3>3. Len(ctx \o p[i]) = Len(ctx) + Len(p[i])
      BY <2>1, <3>2, ConcatProperties
    <3> QED
      BY <2>1, <3>2, <3>3
  <2>4. Len(ctx) + Len(text) < cfg.budget
    BY <1>0, <2>1, <2>3
  <2> DEFINE new == AppendBounded(cfg, ctx, text)
  <2>5. new = ctx \o (text \o <<Blanks>>)
    <3>1. ctx \in Seq(S) /\ text \in Seq(S) /\ Len(text) <= cfg.perDoc
      BY <2>1
    <3> QED
      BY <2>2, <2>4, <3>1, AppendedWhole
  <2> QED
    BY <2>1, <2>5 DEF ctx
<1> DEFINE Q == {k \in Nat : k + 1 <= n => acc[k + 1] = f[k + 1] /\ (here <= k + 1 => Holds(f[k + 1], x))}
<1>12. ASSUME NEW i \in 1 .. n PROVE p[i] \in Seq(S) /\ (here = i => Holds(p[i], x))
  <2> DEFINE text == texts[i]
             blank == <<Blanks>>
  <2>1. text \in Seq(S) /\ p[i] = text \o blank /\ (here = i => Holds(text, x))
    BY <1>0, <1>2
  <2>2. blank \in Seq(S)
    OBVIOUS
  <2> HIDE DEF text, blank
  <2>3. text \o blank \in Seq(S)
    BY <2>1, <2>2
  <2>4. Holds(text, x) => Holds(text \o blank, x)
    BY <2>1, <2>2, HoldsMore
  <2> QED
    BY <2>1, <2>3, <2>4
<1>13. 0 \in Q
  <2>0. 1 \in 1 .. n /\ 0 + 1 = 1 /\ 1 - 1 = 0 /\ (here <= 1 => here = 1)
    BY <1>0, <1>4
  <2>1. acc[0] \in Seq(S) /\ acc[0] \o p[1] = p[1]
    BY <1>9, <1>12, <2>0
  <2>2. Len(acc[0] \o p[1]) <= cfg.budget
    BY <1>6, <1>7, <2>0, <2>1
  <2>3. acc[1] = p[1]
    BY <1>11, <2>0, <2>1, <2>2
  <2> QED
    BY <1>6, <1>12, <2>0, <2>3
<1>14. ASSUME NEW k \in Nat, k \in Q PROVE k + 1 \in Q
  <2> SUFFICES ASSUME (k + 1) + 1 <= n
               PROVE  acc[(k + 1) + 1] = f[(k + 1) + 1] /\ (here <= (k + 1) + 1 => Holds(f[(k + 1) + 1], x))
    OBVIOUS
  <2> DEFINE m == (k + 1) + 1
  <2>1. /\ m \in 2 .. n /\ m \in 1 .. n /\ m - 1 = k + 1 /\ k + 1 <= n /\ k + 1 \in 1 .. n
        /\ (here <= m => here = m \/ here <= k + 1)
    BY <1>0
  <2> HIDE DEF m
  <2>2. acc[k + 1] = f[k + 1] /\ (here <= k + 1 => Holds(f[k + 1], x))
    BY <1>14, <2>1
  <2>3. f[m] = f[k + 1] \o p[m] /\ f[k + 1] \in Seq(S) /\ Len(f[m]) <= cfg.budget
    BY <1>6, <1>7, <2>1
  <2>4. acc[m] = acc[m - 1] \o p[m]
    BY <1>11, <2>1, <2>2, <2>3
  <2>5. acc[m] = f[m]
    BY <2>1, <2>2, <2>3, <2>4
  <2>6. here <= m => Holds(f[m], x)
    <3>1. p[m] \in Seq(S) /\ (here = m => Holds(p[m], x))
      BY <1>12, <2>1
    <3>2. Holds(f[k + 1], x) \/ Holds(p[m], x) => Holds(f[k + 1] \o p[m], x)
      BY <2>3, <3>1, HoldsMore
    <3> QED
      BY <2>1, <2>2, <2>3, <3>1, <3>2
  <2> QED
    BY <2>5, <2>6 DEF m
<1>15. n - 1 \in Q
  <2>1. n - 1 \in Nat
    BY <1>0, <1>4
  <2> HIDE DEF Q
  <2> QED
    BY <1>13, <1>14, <2>1, AllNumbers
<1>16. (n - 1) + 1 = n /\ n <= n /\ here <= n
  BY <1>0
<1>17. acc[n] = f[n] /\ Holds(f[n], x)
  BY <1>15, <1>16
<1> QED
  BY <1>9, <1>17

-----------------------------------------------------------------------------
(* The gate. *)

\* The words of a document, and of each of its chunks.
WordsOf(d) == FlattenSeq([i \in DOMAIN ChunksOf(d) |-> Words(ChunksOf(d)[i])])

LEMMA ChunkWords ==
  ASSUME NEW d \in Docs, stored[d] \in Entries
  PROVE  /\ DOMAIN ChunksOf(d) = 1 .. Len(ChunksOf(d)) /\ Len(ChunksOf(d)) \in Nat
         /\ \A i \in 1 .. Len(ChunksOf(d)) : Words(ChunksOf(d)[i]) \in Seq(Seq(Marks))
         /\ WordsOf(d) \in Seq(Seq(Marks))
         /\ \A i \in 1 .. Len(ChunksOf(d)) :
              ToSet(Words(ChunksOf(d)[i])) \subseteq ToSet(WordsOf(d))
<1>0. stored[d].text \in Texts /\ stored[d].setup \in Setups
  BY DEF Entries
<1> DEFINE chunks == ChunksOf(d)
           n == Len(chunks)
           seqs == [i \in DOMAIN chunks |-> Words(chunks[i])]
<1>1. DOMAIN chunks = 1 .. n /\ n \in Nat /\ \A i \in 1 .. n : Words(chunks[i]) \in Seq(Seq(Letters))
  BY <1>0, WordsAssumption, ScoreAssumption DEF ChunksOf
<1>2. Seq(Seq(Letters)) \subseteq Seq(Seq(Marks))
  BY WordMarks DEF Marks
<1>3. \A i \in 1 .. n : Words(chunks[i]) \in Seq(Seq(Marks))
  BY <1>1, <1>2
<1>4. WordsOf(d) = FlattenSeq(seqs)
  BY DEF WordsOf
<1> HIDE DEF chunks
<1>5. seqs \in [1 .. n -> Seq(Seq(Marks))] /\ \A i \in 1 .. n : seqs[i] = Words(chunks[i])
  BY <1>1, <1>3
<1> HIDE DEF seqs
<1>6. seqs \in UNION {[1 .. m -> Seq(Seq(Marks))] : m \in Nat}
  BY <1>1, <1>5
<1>7. seqs \in Seq(Seq(Seq(Marks))) /\ DOMAIN seqs = 1 .. n
  BY <1>5, <1>6, SeqDef
<1>8. /\ FlattenSeq(seqs) \in Seq(Seq(Marks))
      /\ \A i \in DOMAIN seqs : ToSet(seqs[i]) \subseteq ToSet(FlattenSeq(seqs))
  BY <1>7, FlatHolds
<1> QED
  BY <1>1, <1>3, <1>4, <1>5, <1>7, <1>8 DEF chunks

\* A word that a snippet of a document holds is in its full text.
LEMMA SnippetsAreOfTexts ==
  ASSUME NEW d \in Docs, stored[d] \in Entries
  PROVE  /\ FullText(d) \in Seq(Marks)
         /\ \A i \in 1 .. Len(ChunksOf(d)) :
              /\ Snippet(<<d, i>>) \in Seq(Marks)
              /\ \A x \in Seq(Marks) :
                   x # <<>> /\ Blanks \notin ToSet(x) /\ Holds(Snippet(<<d, i>>), x) =>
                     Holds(FullText(d), x)
<1>0. Blanks \in Marks
  BY DEF Marks
<1> DEFINE all == WordsOf(d)
<1>1. all \in Seq(Seq(Marks)) /\ FullText(d) = Spelled(all)
  BY ChunkWords DEF FullText, WordsOf
<1> HIDE DEF all
<1>2. /\ Spelled(all) \in Seq(Marks)
      /\ \A x \in Seq(Marks) :
           x # <<>> /\ Blanks \notin ToSet(x) =>
             (Holds(Spelled(all), x) <=> \E j \in 1 .. Len(all) : Holds(all[j], x))
  BY <1>0, <1>1, SpelledHolds
<1>3. ASSUME NEW i \in 1 .. Len(ChunksOf(d))
      PROVE  /\ Snippet(<<d, i>>) \in Seq(Marks)
             /\ \A x \in Seq(Marks) :
                  x # <<>> /\ Blanks \notin ToSet(x) /\ Holds(Snippet(<<d, i>>), x) =>
                    Holds(FullText(d), x)
  <2> DEFINE some == Words(ChunksOf(d)[i])
  <2>1. /\ some \in Seq(Seq(Marks)) /\ ToSet(some) \subseteq ToSet(all)
        /\ Snippet(<<d, i>>) = Spelled(some)
    BY ChunkWords DEF Snippet, all
  <2> HIDE DEF some
  <2>2. /\ Spelled(some) \in Seq(Marks)
        /\ \A x \in Seq(Marks) :
             x # <<>> /\ Blanks \notin ToSet(x) =>
               (Holds(Spelled(some), x) <=> \E j \in 1 .. Len(some) : Holds(some[j], x))
    BY <1>0, <2>1, SpelledHolds
  <2>3. ASSUME NEW x \in Seq(Marks), x # <<>>, Blanks \notin ToSet(x), Holds(Spelled(some), x)
        PROVE  Holds(Spelled(all), x)
    <3>1. PICK j \in 1 .. Len(some) : Holds(some[j], x)
      BY <2>2, <2>3
    <3>2. some[j] \in ToSet(some)
      BY <2>1 DEF ToSet
    <3>3. PICK k \in DOMAIN all : all[k] = some[j]
      BY <2>1, <3>2 DEF ToSet
    <3>4. k \in 1 .. Len(all) /\ Holds(all[k], x)
      BY <1>1, <3>1, <3>3
    <3> QED
      BY <1>2, <2>3, <3>4
  <2> QED
    BY <1>1, <2>1, <2>2, <2>3
<1> QED
  BY <1>1, <1>2, <1>3

GateRight(rep) ==
  LET answer == Spelled(rep.question.answer)
      texts == {FullText(d) : d \in ToSet(Ranked(rep.hits))}
      fits == /\ \A text \in texts : Len(text) <= rep.cfg.perDoc
              /\ Len(FlattenSeq([i \in DOMAIN Ranked(rep.hits) |->
                                   FullText(Ranked(rep.hits)[i]) \o <<Blanks>>])) <= rep.cfg.budget
  IN  /\ Len(rep.ctxC) <= rep.cfg.budget + 1 /\ Len(rep.ctxD) <= rep.cfg.budget + 1
      /\ Blanks \notin ToSet(answer) /\ (Holds(rep.ctxC, answer) \/ Holds(rep.ctxD, answer))
           => rep.oracle
      /\ fits /\ rep.oracle => Holds(rep.ctxC, answer)

\* What both contexts are made of.
LEMMA GateTexts ==
  ASSUME StoredInv, Dataset, NEW q \in Questions, NEW hits \in Answers(Question(q))
  PROVE  /\ [i \in DOMAIN Ranked(hits) |-> FullText(Ranked(hits)[i])] \in Seq(Seq(Marks))
         /\ Len([i \in DOMAIN Ranked(hits) |-> FullText(Ranked(hits)[i])]) = Len(Ranked(hits))
         /\ Len(Ranked(hits)) \in Nat /\ DOMAIN Ranked(hits) = 1 .. Len(Ranked(hits))
         /\ [i \in DOMAIN hits |-> Snippet(hits[i])] \in Seq(Seq(Marks))
         /\ Len([i \in DOMAIN hits |-> Snippet(hits[i])]) = Len(hits)
         /\ \A x \in Seq(Marks) : \A i \in 1 .. Len(hits) :
              x # <<>> /\ Blanks \notin ToSet(x) /\ Holds(Snippet(hits[i]), x) =>
                \E d \in ToSet(Ranked(hits)) : Holds(FullText(d), x)
<1> DEFINE docs == Ranked(hits)
<1>1. hits \in Seq(Records) /\ \A rec \in ToSet(hits) : rec[2] # Sentinel
  BY AnswerIsList
<1>2. docs \in Seq(Docs) /\ ToSet(docs) = {rec[1] : rec \in ToSet(hits)}
  BY <1>1, DocsType
<1>3. \A d \in Docs : stored[d] \in Entries
  BY DEF StoredInv, Dataset
<1>4. ASSUME NEW i \in 1 .. Len(hits)
      PROVE  \E d \in ToSet(docs) : \E k \in 1 .. Len(ChunksOf(d)) : d \in Docs /\ hits[i] = <<d, k>>
  <2> DEFINE rec == hits[i]
  <2>1. rec \in Records /\ rec \in ToSet(hits)
    BY <1>1 DEF ToSet
  <2> HIDE DEF rec
  <2>2. rec[1] \in Docs /\ rec = <<rec[1], rec[2]>> /\ rec[2] \in 0 .. Len(ChunksOf(rec[1])) /\ rec[2] # 0
    BY <1>1, <2>1, RecordType DEF Sentinel
  <2>3. rec[1] \in ToSet(docs) /\ Len(ChunksOf(rec[1])) \in Nat
    BY <1>2, <1>3, <2>1, <2>2, ChunkWords
  <2>4. rec[2] \in 1 .. Len(ChunksOf(rec[1]))
    BY <2>2, <2>3
  <2> QED
    BY <2>2, <2>3, <2>4 DEF rec
<1>5. Len(hits) \in Nat /\ DOMAIN hits = 1 .. Len(hits)
  BY <1>1
<1>6. Len(docs) \in Nat /\ DOMAIN docs = 1 .. Len(docs) /\ \A i \in 1 .. Len(docs) : docs[i] \in Docs
  BY <1>2
<1> HIDE DEF docs
<1>7. ASSUME NEW n \in Nat, NEW s, s \in [1 .. n -> Seq(Marks)]
      PROVE  s \in Seq(Seq(Marks)) /\ Len(s) = n
  <2>1. s \in UNION {[1 .. m -> Seq(Marks)] : m \in Nat}
    BY <1>7
  <2>2. s \in Seq(Seq(Marks)) /\ DOMAIN s = 1 .. n
    BY <1>7, <2>1, SeqDef
  <2> QED
    BY <1>7, <2>2, LenProperties
<1>8. [i \in DOMAIN docs |-> FullText(docs[i])] \in [1 .. Len(docs) -> Seq(Marks)]
  <2>1. \A i \in 1 .. Len(docs) : FullText(docs[i]) \in Seq(Marks)
    BY <1>3, <1>6, SnippetsAreOfTexts
  <2> QED
    BY <1>6, <2>1
<1>9. ASSUME NEW i \in 1 .. Len(hits)
      PROVE  /\ Snippet(hits[i]) \in Seq(Marks)
             /\ \A x \in Seq(Marks) :
                  x # <<>> /\ Blanks \notin ToSet(x) /\ Holds(Snippet(hits[i]), x) =>
                    \E d \in ToSet(docs) : Holds(FullText(d), x)
  <2>1. PICK d \in ToSet(docs) : \E k \in 1 .. Len(ChunksOf(d)) : d \in Docs /\ hits[i] = <<d, k>>
    BY <1>4
  <2>2. PICK k \in 1 .. Len(ChunksOf(d)) : d \in Docs /\ hits[i] = <<d, k>>
    BY <2>1
  <2>3. /\ Snippet(<<d, k>>) \in Seq(Marks)
        /\ \A x \in Seq(Marks) :
             x # <<>> /\ Blanks \notin ToSet(x) /\ Holds(Snippet(<<d, k>>), x) => Holds(FullText(d), x)
    BY <1>3, <2>2, SnippetsAreOfTexts
  <2> QED
    BY <2>2, <2>3
<1>10. [i \in DOMAIN hits |-> Snippet(hits[i])] \in [1 .. Len(hits) -> Seq(Marks)]
  BY <1>5, <1>9
<1>11. /\ [i \in DOMAIN docs |-> FullText(docs[i])] \in Seq(Seq(Marks))
       /\ Len([i \in DOMAIN docs |-> FullText(docs[i])]) = Len(docs)
  BY <1>6, <1>7, <1>8
<1>12. /\ [i \in DOMAIN hits |-> Snippet(hits[i])] \in Seq(Seq(Marks))
       /\ Len([i \in DOMAIN hits |-> Snippet(hits[i])]) = Len(hits)
  BY <1>5, <1>7, <1>10
<1> QED
  BY <1>6, <1>9, <1>11, <1>12 DEF docs

LEMMA GateIsHonest ==
  ASSUME StoredInv, Dataset, NEW q \in Questions, Extractive(q), NEW cfg \in GateConfigs,
         NEW hits \in Answers(Question(q))
  PROVE  GateRight(Gate(cfg, q, hits))
<1> DEFINE docs == Ranked(hits)
           full == [i \in DOMAIN docs |-> FullText(docs[i])]
           parts == [i \in DOMAIN hits |-> Snippet(hits[i])]
           answer == Spelled(q.answer)
           rep == Gate(cfg, q, hits)
<1>1. /\ rep.question = q /\ rep.hits = hits /\ rep.cfg = cfg
      /\ rep.ctxC = Context(cfg, full) /\ rep.ctxD = Context(cfg, parts)
      /\ rep.oracle = \E d \in ToSet(docs) : Holds(FullText(d), answer)
  BY DEF Gate, ContextC, ContextD, Oracle
<1>2. /\ full \in Seq(Seq(Marks)) /\ Len(full) = Len(docs)
      /\ Len(docs) \in Nat /\ DOMAIN docs = 1 .. Len(docs)
      /\ parts \in Seq(Seq(Marks)) /\ Len(parts) = Len(hits)
      /\ \A x \in Seq(Marks) : \A i \in 1 .. Len(hits) :
           x # <<>> /\ Blanks \notin ToSet(x) /\ Holds(Snippet(hits[i]), x) =>
             \E d \in ToSet(docs) : Holds(FullText(d), x)
  BY GateTexts
<1>3. Blanks \in Marks
  BY DEF Marks
<1>4. answer \in Seq(Marks) /\ answer # <<>>
  <2>1. q.answer \in Seq(Seq(Letters)) /\ answer # <<>>
    BY WordsAssumption DEF Extractive
  <2>2. q.answer \in Seq(Seq(Marks))
    BY <2>1, WordMarks DEF Marks
  <2> QED
    BY <1>3, <2>1, <2>2, SpelledHolds
<1>5. \A i \in 1 .. Len(docs) : full[i] = FullText(docs[i]) /\ docs[i] \in ToSet(docs)
  BY <1>2 DEF ToSet
<1>6. DOMAIN hits = 1 .. Len(hits) /\ Len(hits) \in Nat
  BY AnswerIsList
<1>7. \A i \in 1 .. Len(hits) : parts[i] = Snippet(hits[i])
  BY <1>6
<1>8. DOMAIN full = DOMAIN docs
  OBVIOUS
<1> HIDE DEF docs, full, parts, answer, rep
<1>9. PICK accC : Contexts(accC, cfg, full)
  BY <1>2, ContextSteps
<1>10. PICK accD : Contexts(accD, cfg, parts)
  BY <1>2, ContextSteps
<1>11. Fair(rep.ctxC, cfg, full, Marks, Len(full))
  <2>1. Len(full) \in 0 .. Len(full) /\ Context(cfg, full) = accC[Len(full)]
    BY <1>2, <1>9 DEF Contexts
  <2> QED
    BY <1>1, <1>2, <1>3, <1>9, <2>1, ContextsAreFair
<1>12. Fair(rep.ctxD, cfg, parts, Marks, Len(parts))
  <2>1. Len(parts) \in 0 .. Len(parts) /\ Context(cfg, parts) = accD[Len(parts)]
    BY <1>2, <1>6, <1>10 DEF Contexts
  <2> QED
    BY <1>1, <1>2, <1>3, <1>10, <2>1, ContextsAreFair
<1>13. Len(rep.ctxC) <= rep.cfg.budget + 1 /\ Len(rep.ctxD) <= rep.cfg.budget + 1
  BY <1>1, <1>11, <1>12 DEF Fair
<1>14. ASSUME Blanks \notin ToSet(answer), Holds(rep.ctxC, answer) \/ Holds(rep.ctxD, answer)
       PROVE  \E d \in ToSet(docs) : Holds(FullText(d), answer)
  <2>1. CASE Holds(rep.ctxC, answer)
    <3>1. PICK i \in 1 .. Len(docs) : Holds(full[i], answer)
      BY <1>2, <1>4, <1>11, <1>14, <2>1 DEF Fair
    <3> QED
      BY <1>5, <3>1
  <2>2. CASE Holds(rep.ctxD, answer)
    <3>1. PICK i \in 1 .. Len(hits) : Holds(parts[i], answer)
      BY <1>2, <1>4, <1>12, <1>14, <2>2 DEF Fair
    <3> QED
      BY <1>2, <1>4, <1>7, <1>14, <3>1
  <2> QED
    BY <1>14, <2>1, <2>2
<1>15. ASSUME \A text \in {FullText(d) : d \in ToSet(docs)} : Len(text) <= cfg.perDoc,
              Len(FlattenSeq([i \in DOMAIN docs |-> FullText(docs[i]) \o <<Blanks>>])) <= cfg.budget,
              NEW d \in ToSet(docs), Holds(FullText(d), answer)
       PROVE  Holds(rep.ctxC, answer)
  <2>1. \A i \in 1 .. Len(full) : Len(full[i]) <= cfg.perDoc
    BY <1>2, <1>5, <1>15
  <2>2. [i \in DOMAIN docs |-> FullText(docs[i]) \o <<Blanks>>] = [i \in DOMAIN full |-> full[i] \o <<Blanks>>]
    BY <1>2, <1>5, <1>8
  <2>3. Len(FlattenSeq([i \in DOMAIN full |-> full[i] \o <<Blanks>>])) <= cfg.budget
    BY <1>15, <2>2
  <2>4. PICK i \in 1 .. Len(docs) : docs[i] = d
    BY <1>2, <1>15 DEF ToSet
  <2>5. i \in 1 .. Len(full) /\ Holds(full[i], answer)
    BY <1>2, <1>5, <1>15, <2>4
  <2> QED
    BY <1>1, <1>2, <1>3, <1>4, <1>9, <2>1, <2>3, <2>5, ContextIsWhole
<1> HIDE DEF GateRight
<1> QED
  <2>1. GateRight(rep) <=>
          /\ Len(rep.ctxC) <= rep.cfg.budget + 1 /\ Len(rep.ctxD) <= rep.cfg.budget + 1
          /\ Blanks \notin ToSet(answer) /\ (Holds(rep.ctxC, answer) \/ Holds(rep.ctxD, answer))
               => rep.oracle
          /\ (/\ \A text \in {FullText(d) : d \in ToSet(docs)} : Len(text) <= cfg.perDoc
              /\ Len(FlattenSeq([i \in DOMAIN docs |-> FullText(docs[i]) \o <<Blanks>>])) <= cfg.budget)
             /\ rep.oracle => Holds(rep.ctxC, answer)
    BY <1>1, Zenon DEF GateRight, answer, docs
  <2>2. rep.oracle <=> \E d \in ToSet(docs) : Holds(FullText(d), answer)
    BY <1>1
  <2> QED
    BY <1>13, <1>14, <1>15, <2>1, <2>2 DEF rep

\* The contexts of a report that appears are right.
LEMMA GateStep ==
  ASSUME StoredInv, BenchNext, report' # NoReport, report'.tool = "gate"
  PROVE  GateRight(report')
<1>1. PICK q \in Questions :
        \E hits : Scored(q, hits) \/ (hits \in Answers(Question(q)) /\ Evaluated(q, hits))
  BY ReportMade
<1>2. PICK hits : Scored(q, hits) \/ (hits \in Answers(Question(q)) /\ Evaluated(q, hits))
  BY <1>1
<1>3. hits \in Answers(Question(q)) /\ Evaluated(q, hits)
  BY <1>2, Tools
<1>4. Extractive(q) /\ \E cfg \in GateConfigs : report' = Gate(cfg, q, hits)
  BY <1>3, Tools
<1>5. PICK cfg \in GateConfigs : report' = Gate(cfg, q, hits)
  BY <1>4
<1>6. GateRight(Gate(cfg, q, hits))
  BY <1>3, <1>4, ReportMade, GateIsHonest
<1> QED
  BY <1>5, <1>6

\* Whatever is found and however little fits: both contexts keep to the budget (but
\* for the last separator), a word that is in one of them is in a document found,
\* and whole texts that fit hold every answer in reach.
THEOREM GatesAreHonest == BenchSpec => []GateHonest
<1>1. BenchInit => GateHonest
  BY DEF BenchInit, GateHonest
<1>2. SearchInv /\ GateHonest /\ [BenchNext]_benchVars => GateHonest'
  <2> SUFFICES ASSUME SearchInv, GateHonest, [BenchNext]_benchVars,
                      report' # NoReport, report'.tool = "gate"
               PROVE  GateHonest'
    BY DEF GateHonest
  <2>1. CASE UNCHANGED benchVars
    <3>1. stored' = stored /\ report' = report
      BY <2>1 DEF benchVars, vars
    <3> QED
      BY <3>1 DEF GateHonest, FullText, ChunksOf
  <2>2. CASE BenchNext
    <3>1. GateRight(report') /\ stored' = stored
      BY <2>2, GateStep, ReportMade DEF SearchInv, vars
    <3> QED
      BY <3>1 DEF GateRight, GateHonest, FullText, ChunksOf
  <2> QED
    BY <2>1, <2>2
<1> QED
  BY <1>1, <1>2, SearchInvariant, BenchesOnlyRead, PTL DEF BenchSpec, Spec
====
