------------------------- MODULE QueryBuilderProofs -------------------------
(***************************************************************************)
(* What the database reads is what the author asked for: theorems about    *)
(* QueryBuilder for any columns, values, atoms, depth of nesting, limits   *)
(* and number of calls.                                                    *)
(*                                                                         *)
(* A statement is taken apart in two ways.  A condition: the text of an    *)
(* expression is closed, it has no AND and no OR outside of parentheses,   *)
(* so that the database finds the operands where to_sql has put them; by   *)
(* induction over the depth of the expression.  The rest: a text is made   *)
(* of clauses, each with a keyword of its own and a parameter for each     *)
(* placeholder, so that the database finds each clause, and counts up to   *)
(* its placeholders, wherever it stands.                                   *)
(***************************************************************************)
EXTENDS QueryBuilder, FiniteSetTheorems, WellFoundedInduction, TLAPS

-----------------------------------------------------------------------------
(* Natural numbers, and functions defined by recursion on them. *)

\* A set of natural numbers that has an element has a least one.
LEMMA LeastNumber ==
  ASSUME NEW T, T \subseteq Nat, T # {}
  PROVE  \E n \in T : \A m \in T : n <= m
<1> DEFINE R == StrictSubsetOrdering(Nat)
           U == {1 .. n : n \in T}
<1>1. IsWellFoundedOn(R, FiniteSubsetsOf(Nat))
  BY FS_StrictSubsetOrderingWellFounded
<1>2. ASSUME NEW n \in T
      PROVE  1 .. n \in FiniteSubsetsOf(Nat)
  <2>1. IsFiniteSet(1 .. n)
    BY FS_Interval
  <2>2. 1 .. n \in SUBSET Nat
    OBVIOUS
  <2> QED
    BY <2>1, <2>2 DEF FiniteSubsetsOf
<1>3. U \subseteq FiniteSubsetsOf(Nat) /\ U # {}
  BY <1>2
<1>4. PICK X \in U : \A Y \in U : ~ (<<Y, X>> \in R)
  <2> HIDE DEF R, U
  <2> QED
    BY <1>1, <1>3, WFMin
<1>5. PICK n \in T : X = 1 .. n
  OBVIOUS
<1>6. ASSUME NEW m \in T, m < n
      PROVE  FALSE
  <2>1. n \in 1 .. n /\ n \notin 1 .. m
    BY <1>6
  <2>2. 1 .. m \subseteq 1 .. n
    BY <1>6
  <2>3. <<1 .. m, X>> \in R
    BY <2>1, <2>2, <1>5 DEF StrictSubsetOrdering
  <2> QED
    BY <2>3, <1>4
<1> QED
  BY <1>6

\* Induction: what holds of 0, and of each number up to N if of the one before, holds of N.
LEMMA Induction ==
  ASSUME NEW N \in Nat, NEW H, 0 \in H,
         \A n \in 1 .. N : n - 1 \in H => n \in H
  PROVE  \A n \in 0 .. N : n \in H
<1> SUFFICES ASSUME NEW n \in 0 .. N, n \notin H
             PROVE  FALSE
  OBVIOUS
<1> DEFINE T == {i \in 0 .. N : i \notin H}
<1>1. T \subseteq Nat /\ T # {}
  OBVIOUS
<1>2. PICK m \in T : \A i \in T : m <= i
  <2> HIDE DEF T
  <2> QED
    BY <1>1, LeastNumber
<1>3. m # 0
  OBVIOUS
<1>4. m - 1 \in H
  BY <1>2, <1>3
<1> QED
  BY <1>3, <1>4

\* A set of numbers of an interval that has an element has a greatest and a least one.
LEMMA Extremes ==
  ASSUME NEW lo \in Nat, NEW hi \in Nat, NEW S, S \subseteq lo .. hi, S # {}
  PROVE  /\ Max(S) \in S /\ \A n \in S : n <= Max(S)
         /\ Min(S) \in S /\ \A n \in S : Min(S) <= n
<1>1. PICK least \in S : \A n \in S : least <= n
  <2>1. S \subseteq Nat
    OBVIOUS
  <2> QED
    BY <2>1, LeastNumber
<1> DEFINE T == {hi - n : n \in S}
<1>2. PICK m \in T : \A i \in T : m <= i
  <2>1. T \subseteq Nat /\ T # {}
    OBVIOUS
  <2> HIDE DEF T
  <2> QED
    BY <2>1, LeastNumber
<1>3. PICK greatest \in S : m = hi - greatest
  OBVIOUS
<1>4. ASSUME NEW n \in S
      PROVE  n <= greatest
  <2>1. m <= hi - n
    BY <1>2
  <2> QED
    BY <1>3, <2>1
<1>5. Max(S) \in S /\ \A n \in S : Max(S) >= n
  BY <1>4 DEF Max
<1>6. Min(S) \in S /\ \A n \in S : Min(S) <= n
  BY <1>1 DEF Min
<1> QED
  BY <1>5, <1>6

-----------------------------------------------------------------------------
(* Counting the tokens of a text. *)

\* A count is a natural number.
LEMMA CountType ==
  ASSUME NEW t, NEW w, NEW n \in Nat
  PROVE  Count(t, w, n) \in Nat
<1>1. IsFiniteSet({m \in 1 .. n : t[m] = w})
  <2>1. IsFiniteSet(1 .. n)
    BY FS_Interval
  <2>2. {m \in 1 .. n : t[m] = w} \subseteq 1 .. n
    OBVIOUS
  <2> QED
    BY <2>1, <2>2, FS_Subset
<1> QED
  BY <1>1, FS_CardinalityType DEF Count

\* There is nothing among no tokens.
LEMMA CountZero ==
  ASSUME NEW t, NEW w
  PROVE  Count(t, w, 0) = 0
<1>1. {m \in 1 .. 0 : t[m] = w} = {}
  OBVIOUS
<1> QED
  BY <1>1, FS_EmptySet DEF Count

\* One more token is counted when it is the word.
LEMMA CountNext ==
  ASSUME NEW t, NEW w, NEW n \in Nat
  PROVE  Count(t, w, n + 1) = Count(t, w, n) + IF t[n + 1] = w THEN 1 ELSE 0
<1> DEFINE P == {m \in 1 .. n : t[m] = w}
           Q == {m \in 1 .. n + 1 : t[m] = w}
<1>1. IsFiniteSet(P)
  <2>1. IsFiniteSet(1 .. n)
    BY FS_Interval
  <2>2. P \subseteq 1 .. n
    OBVIOUS
  <2> QED
    BY <2>1, <2>2, FS_Subset
<1>2. CASE t[n + 1] = w
  <2>1. Q = P \cup {n + 1} /\ n + 1 \notin P
    BY <1>2
  <2>2. Cardinality(Q) = Cardinality(P) + 1
    <3> HIDE DEF P, Q
    <3> QED
      BY <1>1, <2>1, FS_AddElement
  <2> QED
    BY <1>2, <2>2 DEF Count
<1>3. CASE t[n + 1] # w
  <2>1. Q = P
    BY <1>3
  <2>2. Count(t, w, n + 1) = Count(t, w, n)
    BY <2>1 DEF Count
  <2> QED
    BY <1>3, <2>2, CountType
<1> QED
  BY <1>2, <1>3

\* The depth at a place changes with a parenthesis.
LEMMA DepthNext ==
  ASSUME NEW t, NEW n \in Nat
  PROVE  /\ Depth(t, n) \in Int
         /\ Depth(t, n + 1) =
              IF t[n + 1] = "(" THEN Depth(t, n) + 1
              ELSE IF t[n + 1] = ")" THEN Depth(t, n) - 1 ELSE Depth(t, n)
<1>1. Count(t, "(", n) \in Nat /\ Count(t, ")", n) \in Nat
  BY CountType
<1>2. Count(t, "(", n + 1) = Count(t, "(", n) + IF t[n + 1] = "(" THEN 1 ELSE 0
  BY CountNext
<1>3. Count(t, ")", n + 1) = Count(t, ")", n) + IF t[n + 1] = ")" THEN 1 ELSE 0
  BY CountNext
<1> QED
  BY <1>1, <1>2, <1>3 DEF Depth

-----------------------------------------------------------------------------
(* Fragments in a statement. *)

\* What the builders write into a text, and what they bind.
Word == Columns \cup Operators \cup Reserved \cup {"distance", "vector", "ASC", "DESC", ","}
Params == Values \cup Int
Fragment == [text : Seq(Word), params : Seq(Params)]

\* Where a fragment ends that begins behind n tokens.
End(n, f) == n + Len(f.text)

\* The statement has the fragment behind its first n tokens.
At(s, n, f) ==
  /\ End(n, f) <= Len(s.text)
  /\ \A m \in 1 .. Len(f.text) : s.text[n + m] = f.text[m]
  /\ \A m \in 1 .. Len(f.params) : s.params[Count(s.text, "?", n) + m] = f.params[m]

\* The fragment has a parameter for each placeholder.
Binds(s, n, f) == Count(s.text, "?", End(n, f)) = Count(s.text, "?", n) + Len(f.params)

\* A statement as it is sent.
Statement == [text : Seq(Word), params : Seq(Params), numbers : Seq(Nat)]

\* A fragment does not end before it begins.
LEMMA EndType ==
  ASSUME NEW n \in Nat, NEW f \in Fragment
  PROVE  End(n, f) \in Nat /\ n <= End(n, f)
<1>1. Len(f.text) \in Nat
  BY DEF Fragment
<1> QED
  BY <1>1 DEF End

\* Two fragments one behind the other.
LEMMA AtPut ==
  ASSUME NEW f \in Fragment, NEW g \in Fragment
  PROVE  /\ Put(f, g) \in Fragment
         /\ \A n \in Nat : End(n, Put(f, g)) = End(End(n, f), g)
         /\ \A s \in Statement, n \in Nat :
              At(s, n, Put(f, g)) =>
                /\ At(s, n, f)
                /\ Binds(s, n, f) => At(s, End(n, f), g)
                /\ Binds(s, n, f) /\ Binds(s, End(n, f), g) => Binds(s, n, Put(f, g))
<1> DEFINE a == f.text
           b == g.text
           v == f.params
           w == g.params
<1>1. a \in Seq(Word) /\ b \in Seq(Word) /\ v \in Seq(Params) /\ w \in Seq(Params)
  BY DEF Fragment
<1>2. Put(f, g) \in Fragment /\ Put(f, g).text = a \o b /\ Put(f, g).params = v \o w
  BY DEF Put, Fragment
<1>3. Len(a \o b) = Len(a) + Len(b) /\ Len(v \o w) = Len(v) + Len(w)
  <2> HIDE DEF a, b, v, w
  <2> QED
    BY <1>1
<1>4. /\ \A m \in 1 .. Len(a) : (a \o b)[m] = a[m]
      /\ \A m \in 1 .. Len(b) : (a \o b)[Len(a) + m] = b[m]
  <2> HIDE DEF a, b
  <2> QED
    BY <1>1
<1>5. /\ \A m \in 1 .. Len(v) : (v \o w)[m] = v[m]
      /\ \A m \in 1 .. Len(w) : (v \o w)[Len(v) + m] = w[m]
  <2> HIDE DEF v, w
  <2> QED
    BY <1>1
<1>6. Len(a) \in Nat /\ Len(b) \in Nat /\ Len(v) \in Nat /\ Len(w) \in Nat
  <2> HIDE DEF a, b, v, w
  <2> QED
    BY <1>1
<1>7. ASSUME NEW n \in Nat
      PROVE  End(n, Put(f, g)) = End(End(n, f), g)
  <2>1. End(n, Put(f, g)) = n + Len(a \o b) /\ End(End(n, f), g) = (n + Len(a)) + Len(b)
    BY <1>2 DEF End
  <2> HIDE DEF a, b
  <2> QED
    BY <1>3, <1>6, <2>1
<1>8. ASSUME NEW s \in Statement, NEW n \in Nat, At(s, n, Put(f, g))
      PROVE  /\ At(s, n, f)
             /\ Binds(s, n, f) => At(s, End(n, f), g)
             /\ Binds(s, n, f) /\ Binds(s, End(n, f), g) => Binds(s, n, Put(f, g))
  <2> DEFINE t == s.text
             c == Count(t, "?", n)
  <2>1. c \in Nat /\ Len(t) \in Nat
    BY CountType DEF Statement
  <2>2. /\ End(n, Put(f, g)) <= Len(t)
        /\ \A m \in 1 .. Len(a \o b) : t[n + m] = (a \o b)[m]
        /\ \A m \in 1 .. Len(v \o w) : s.params[c + m] = (v \o w)[m]
    BY <1>2, <1>8 DEF At
  <2>3. End(n, f) \in Nat /\ End(n, f) = n + Len(a)
    BY EndType DEF End
  <2>4. At(s, n, f)
    <3> SUFFICES /\ End(n, f) <= Len(t)
                 /\ \A m \in 1 .. Len(a) : t[n + m] = a[m]
                 /\ \A m \in 1 .. Len(v) : s.params[c + m] = v[m]
      BY DEF At
    <3>1. End(n, f) <= Len(t)
      <4>1. End(n, f) <= End(End(n, f), g) /\ End(End(n, f), g) \in Nat
        BY <2>3, EndType
      <4> HIDE DEF t
      <4> QED
        BY <1>7, <2>1, <2>2, <2>3, <4>1
    <3> HIDE DEF t, c, a, b, v, w
    <3>2. \A m \in 1 .. Len(a) : m \in 1 .. Len(a \o b)
      BY <1>3, <1>6
    <3>3. \A m \in 1 .. Len(v) : m \in 1 .. Len(v \o w)
      BY <1>3, <1>6
    <3> QED
      BY <3>1, <3>2, <3>3, <1>4, <1>5, <2>2
  <2>5. ASSUME Binds(s, n, f)
        PROVE  At(s, End(n, f), g)
    <3>1. Count(t, "?", End(n, f)) = c + Len(v)
      BY <2>5 DEF Binds
    <3> SUFFICES /\ \A m \in 1 .. Len(b) : t[End(n, f) + m] = b[m]
                 /\ \A m \in 1 .. Len(w) : s.params[(c + Len(v)) + m] = w[m]
      BY <1>7, <2>2, <3>1 DEF At
    <3> HIDE DEF t, c, a, b, v, w
    <3>2. ASSUME NEW m \in 1 .. Len(b)
          PROVE  t[End(n, f) + m] = b[m]
      <4>1. Len(a) + m \in 1 .. Len(a \o b) /\ End(n, f) + m = n + (Len(a) + m)
        BY <1>3, <1>6, <2>3
      <4> QED
        BY <4>1, <1>4, <2>2
    <3>3. ASSUME NEW m \in 1 .. Len(w)
          PROVE  s.params[(c + Len(v)) + m] = w[m]
      <4>1. Len(v) + m \in 1 .. Len(v \o w) /\ (c + Len(v)) + m = c + (Len(v) + m)
        BY <1>3, <1>6, <2>1
      <4> QED
        BY <4>1, <1>5, <2>2
    <3> QED
      BY <3>2, <3>3
  <2>6. ASSUME Binds(s, n, f), Binds(s, End(n, f), g)
        PROVE  Binds(s, n, Put(f, g))
    <3>1. Count(t, "?", End(n, f)) = c + Len(v)
      BY <2>6 DEF Binds
    <3>2. Count(t, "?", End(n, Put(f, g))) = (c + Len(v)) + Len(w)
      BY <1>7, <2>6, <3>1 DEF Binds
    <3> SUFFICES Count(t, "?", End(n, Put(f, g))) = c + Len(v \o w)
      BY <1>2 DEF Binds
    <3> HIDE DEF t, v, w, c
    <3>3. (c + Len(v)) + Len(w) = c + Len(v \o w)
      BY <1>3, <1>6, <2>1
    <3> QED
      BY <3>2, <3>3
  <2> QED
    BY <2>4, <2>5, <2>6
<1> QED
  BY <1>2, <1>7, <1>8

-----------------------------------------------------------------------------
(* Expressions *)

\* What a level of nesting adds.
Deeper(S) ==
  S \cup {Not(a) : a \in S} \cup {And(a, b) : a, b \in S} \cup {Or(a, b) : a, b \in S}

\* Each level of nesting is made from the one before.
IsBuilt(built, atoms, depth) ==
  /\ built[0] = atoms
  /\ \A d \in 1 .. depth : built[d] = Deeper(built[d - 1])

\* The levels of an expression exist, and Expr has the last one.
LEMMA ExprLevels ==
  ASSUME NEW atoms, NEW depth \in Nat
  PROVE  \E built : IsBuilt(built, atoms, depth) /\ Expr(atoms, depth) = built[depth]
<1> DEFINE H == {k \in 0 .. depth : \E run : IsBuilt(run, atoms, k)}
<1>1. 0 \in H
  <2> DEFINE run == [d \in {0} |-> atoms]
  <2>1. IsBuilt(run, atoms, 0)
    BY DEF IsBuilt
  <2> HIDE DEF run
  <2> QED
    BY <2>1
<1>2. ASSUME NEW k \in 1 .. depth, k - 1 \in H
      PROVE  k \in H
  <2>1. PICK run : IsBuilt(run, atoms, k - 1)
    BY <1>2
  <2> DEFINE longer == [d \in 0 .. k |-> IF d = k THEN Deeper(run[k - 1]) ELSE run[d]]
  <2>2. longer[0] = atoms
    BY <2>1 DEF IsBuilt
  <2>3. ASSUME NEW d \in 1 .. k
        PROVE  longer[d] = Deeper(longer[d - 1])
    <3>1. d - 1 \in 0 .. k /\ d - 1 # k
      OBVIOUS
    <3>2. longer[d - 1] = run[d - 1]
      BY <3>1
    <3>3. CASE d = k
      <4>1. longer[d] = Deeper(run[k - 1])
        BY <3>3
      <4> QED
        BY <4>1, <3>2, <3>3
    <3>4. CASE d # k
      <4>1. longer[d] = run[d] /\ d \in 1 .. k - 1
        BY <3>4
      <4> QED
        BY <4>1, <3>2, <2>1 DEF IsBuilt
    <3> QED
      BY <3>3, <3>4
  <2>4. IsBuilt(longer, atoms, k)
    BY <2>2, <2>3 DEF IsBuilt
  <2> HIDE DEF longer
  <2> QED
    BY <2>4
<1>3. depth \in H
  <2> HIDE DEF H
  <2>1. \A k \in 1 .. depth : k - 1 \in H => k \in H
    BY <1>2
  <2> QED
    BY <1>1, <2>1, Induction
<1>4. PICK run : IsBuilt(run, atoms, depth)
  BY <1>3
<1> DEFINE IsF(f) == f = [d \in 0 .. depth |-> IF d = 0 THEN atoms ELSE Deeper(f[d - 1])]
           f == CHOOSE g : IsF(g)
           witness == [d \in 0 .. depth |-> run[d]]
<1>5. IsF(witness)
  <2>1. \A d \in 0 .. depth : witness[d] = IF d = 0 THEN atoms ELSE Deeper(witness[d - 1])
    <3> SUFFICES ASSUME NEW d \in 0 .. depth
                 PROVE  witness[d] = IF d = 0 THEN atoms ELSE Deeper(witness[d - 1])
      OBVIOUS
    <3>1. CASE d = 0
      BY <3>1, <1>4 DEF IsBuilt
    <3>2. CASE d # 0
      <4>1. d \in 1 .. depth /\ d - 1 \in 0 .. depth
        BY <3>2
      <4>2. witness[d] = run[d] /\ witness[d - 1] = run[d - 1]
        BY <4>1
      <4> QED
        BY <3>2, <4>1, <4>2, <1>4 DEF IsBuilt
    <3> QED
      BY <3>1, <3>2
  <2>2. witness = [d \in 0 .. depth |-> witness[d]]
    OBVIOUS
  <2> HIDE DEF witness
  <2> QED
    BY <2>1, <2>2
<1>6. IsF(f)
  <2> HIDE DEF IsF, witness
  <2> QED
    BY <1>5, Zenon DEF f
<1>7. Expr(atoms, depth) = f[depth]
  BY DEF Expr, f, Deeper
<1>8. IsBuilt(f, atoms, depth)
  <2> HIDE DEF f
  <2> QED
    BY <1>6 DEF IsBuilt
<1> QED
  BY <1>7, <1>8

\* What an expression is made of.
From(S, e) ==
  \/ \E x \in S : e = Not(x)
  \/ \E x, y \in S : e = And(x, y) \/ e = Or(x, y)

\* A level holds the levels below it, and each of its expressions is an atom or made of
\* expressions of the level below.
LEMMA Levels ==
  ASSUME NEW atoms, NEW depth \in Nat, NEW built, IsBuilt(built, atoms, depth)
  PROVE  /\ \A d \in 0 .. depth : atoms \subseteq built[d] /\ built[d] \subseteq built[depth]
         /\ \A d \in 1 .. depth : built[d - 1] \subseteq built[d]
         /\ \A d \in 1 .. depth : \A e \in built[d] : e \in atoms \/ From(built[d - 1], e)
<1>1. \A d \in 1 .. depth : built[d - 1] \subseteq built[d]
  BY DEF IsBuilt, Deeper
<1> DEFINE A == {d \in 0 .. depth : atoms \subseteq built[d]}
<1>2. \A d \in 0 .. depth : d \in A
  <2>1. 0 \in A
    BY DEF IsBuilt
  <2>2. \A d \in 1 .. depth : d - 1 \in A => d \in A
    BY <1>1
  <2> HIDE DEF A
  <2> QED
    BY <2>1, <2>2, Induction
<1> DEFINE B == {k \in 0 .. depth : built[depth - k] \subseteq built[depth]}
<1>3. \A k \in 0 .. depth : k \in B
  <2>1. 0 \in B
    OBVIOUS
  <2>2. ASSUME NEW k \in 1 .. depth, k - 1 \in B
        PROVE  k \in B
    <3>1. depth - (k - 1) \in 1 .. depth /\ depth - k = (depth - (k - 1)) - 1
      OBVIOUS
    <3>2. built[depth - k] \subseteq built[depth - (k - 1)]
      BY <3>1, <1>1
    <3> QED
      BY <2>2, <3>2
  <2>3. \A k \in 1 .. depth : k - 1 \in B => k \in B
    BY <2>2
  <2> HIDE DEF B
  <2> QED
    BY <2>1, <2>3, Induction
<1>4. ASSUME NEW d \in 0 .. depth
      PROVE  built[d] \subseteq built[depth]
  <2>1. depth - d \in 0 .. depth /\ depth - (depth - d) = d
    OBVIOUS
  <2> QED
    BY <1>3, <2>1
<1> DEFINE C == {d \in 0 .. depth : d = 0 \/ \A e \in built[d] : e \in atoms \/ From(built[d - 1], e)}
<1>5. \A d \in 0 .. depth : d \in C
  <2>1. 0 \in C
    OBVIOUS
  <2>2. ASSUME NEW d \in 1 .. depth, d - 1 \in C
        PROVE  d \in C
    <3> SUFFICES ASSUME NEW e \in built[d], e \notin atoms
                 PROVE  From(built[d - 1], e)
      OBVIOUS
    <3>1. e \in Deeper(built[d - 1])
      BY DEF IsBuilt
    <3>2. CASE e \in built[d - 1]
      <4>1. d - 1 # 0
        BY <3>2 DEF IsBuilt
      <4>2. From(built[(d - 1) - 1], e)
        BY <2>2, <3>2, <4>1
      <4>3. d - 1 \in 1 .. depth
        BY <4>1
      <4>4. built[(d - 1) - 1] \subseteq built[d - 1]
        BY <1>1, <4>3
      <4> QED
        BY <4>2, <4>4 DEF From
    <3>3. CASE e \notin built[d - 1]
      BY <3>1, <3>3 DEF Deeper, From
    <3> QED
      BY <3>2, <3>3
  <2>3. \A d \in 1 .. depth : d - 1 \in C => d \in C
    BY <2>2
  <2> HIDE DEF C
  <2> QED
    BY <2>1, <2>3, Induction
<1>6. \A d \in 0 .. depth : atoms \subseteq built[d]
  BY <1>2
<1>7. \A d \in 1 .. depth : \A e \in built[d] : e \in atoms \/ From(built[d - 1], e)
  BY <1>5
<1> QED
  BY <1>1, <1>4, <1>6, <1>7

\* Induction on expressions.
LEMMA ExprInduction ==
  ASSUME NEW atoms, NEW depth \in Nat, NEW H, atoms \subseteq H,
         \A e \in Expr(atoms, depth) : From(H \cap Expr(atoms, depth), e) => e \in H
  PROVE  Expr(atoms, depth) \subseteq H
<1>1. PICK built : IsBuilt(built, atoms, depth) /\ Expr(atoms, depth) = built[depth]
  BY ExprLevels
<1> DEFINE K == {d \in 0 .. depth : built[d] \subseteq H}
<1>2. 0 \in K
  BY <1>1 DEF IsBuilt
<1>3. ASSUME NEW d \in 1 .. depth, d - 1 \in K
      PROVE  d \in K
  <2> SUFFICES ASSUME NEW e \in built[d], e \notin atoms
               PROVE  e \in H
    OBVIOUS
  <2>1. From(built[d - 1], e)
    BY <1>1, Levels
  <2>2. built[d - 1] \subseteq H \cap Expr(atoms, depth) /\ e \in Expr(atoms, depth)
    <3>1. d - 1 \in 0 .. depth /\ d \in 0 .. depth
      OBVIOUS
    <3>2. built[d - 1] \subseteq built[depth] /\ built[d] \subseteq built[depth]
      BY <1>1, <3>1, Levels
    <3> QED
      BY <1>1, <1>3, <3>2
  <2>3. From(H \cap Expr(atoms, depth), e)
    BY <2>1, <2>2 DEF From
  <2> QED
    BY <2>2, <2>3
<1>4. depth \in K
  <2>1. \A d \in 1 .. depth : d - 1 \in K => d \in K
    BY <1>3
  <2> HIDE DEF K
  <2> QED
    BY <1>2, <2>1, Induction
<1> QED
  BY <1>1, <1>4

-----------------------------------------------------------------------------
(* The text of an expression *)

\* The forms an atom has.
AtomForm(e) ==
  \/ \E c \in Columns, op \in Operators, v \in Values : e = Compare(c, op, v)
  \/ \E c \in Columns : e = IsNull(c)
  \/ \E c \in Columns : e = IsNotNull(c)
  \/ e = True

\* The atoms are comparisons, null tests and True.
LEMMA Atomic ==
  ASSUME NEW e \in Atoms
  PROVE  AtomForm(e)
BY PredicatesAssumption DEF AtomForm

\* Two functions that agree on S have the same text for what is made of S.
LEMMA PiecesAgrees ==
  ASSUME NEW S, NEW f, NEW g, \A x \in S : f[x] = g[x],
         NEW e, e \in Atoms \/ From(S, e)
  PROVE  Pieces(f, e) = Pieces(g, e)
<1>1. CASE e \in Atoms
  <2>1. AtomForm(e)
    BY <1>1, Atomic
  <2> QED
    BY <2>1 DEF AtomForm, Pieces, Compare, IsNull, IsNotNull, True
<1>2. CASE From(S, e)
  <2>1. CASE \E x \in S : e = Not(x)
    BY <2>1 DEF Pieces, Not
  <2>2. CASE \E x, y \in S : e = And(x, y)
    BY <2>2 DEF Pieces, And
  <2>3. CASE \E x, y \in S : e = Or(x, y)
    BY <2>3 DEF Pieces, Or
  <2> QED
    BY <1>2, <2>1, <2>2, <2>3 DEF From
<1> QED
  BY <1>1, <1>2

\* ExprSql satisfies its equation.
LEMMA ExprSqlRounds ==
  \E sql : \A e \in Expressions : sql[e] = Pieces(sql, e) /\ ExprSql(e) = sql[e]
<1>1. PICK built : IsBuilt(built, Atoms, MaxDepth) /\ Expressions = built[MaxDepth]
  BY ExprLevels, RangesAssumption DEF Expressions
<1>2. MaxDepth \in Nat
  BY RangesAssumption
<1> DEFINE Solves(f, d) == \A e \in built[d] : f[e] = Pieces(f, e)
           H == {d \in 0 .. MaxDepth : \E f : Solves(f, d)}
           Round(f) == [e \in Expressions |-> Pieces(f, e)]
<1>3. 0 \in H
  <2> DEFINE base == [e \in {} |-> e]
             f == Round(base)
  <2>1. \A e \in built[0] : f[e] = Pieces(f, e)
    <3> SUFFICES ASSUME NEW e \in built[0]
                 PROVE  f[e] = Pieces(f, e)
      OBVIOUS
    <3>1. built[0] = Atoms /\ built[0] \subseteq Expressions
      <4>1. 0 \in 0 .. MaxDepth
        BY <1>2
      <4> QED
        BY <1>1, <1>2, <4>1, Levels DEF IsBuilt
    <3>2. f[e] = Pieces(base, e)
      BY <3>1
    <3>3. Pieces(base, e) = Pieces(f, e)
      <4> HIDE DEF f, base
      <4>1. \A x \in {} : base[x] = f[x]
        OBVIOUS
      <4>2. e \in Atoms \/ From({}, e)
        BY <3>1
      <4> QED
        BY <4>1, <4>2, PiecesAgrees
    <3> QED
      BY <3>2, <3>3
  <2> HIDE DEF f
  <2>2. Solves(f, 0)
    BY <2>1
  <2> QED
    BY <1>2, <2>2
<1>4. ASSUME NEW d \in 1 .. MaxDepth, d - 1 \in H
      PROVE  d \in H
  <2>1. PICK f : Solves(f, d - 1)
    BY <1>4
  <2> DEFINE g == Round(f)
  <2>2. d \in 0 .. MaxDepth /\ d - 1 \in 0 .. MaxDepth
    BY <1>2
  <2>3. built[d] \subseteq Expressions /\ built[d - 1] \subseteq Expressions
    BY <1>1, <1>2, <2>2, Levels
  <2>4. \A x \in built[d - 1] : f[x] = g[x]
    BY <2>1, <2>3
  <2>5. ASSUME NEW e \in built[d]
        PROVE  g[e] = Pieces(g, e)
    <3>1. g[e] = Pieces(f, e)
      BY <2>3
    <3>2. e \in Atoms \/ From(built[d - 1], e)
      BY <1>1, <1>2, Levels
    <3>3. Pieces(f, e) = Pieces(g, e)
      <4> HIDE DEF g
      <4> QED
        BY <2>4, <3>2, PiecesAgrees
    <3> QED
      BY <3>1, <3>3
  <2> HIDE DEF g
  <2>6. Solves(g, d)
    BY <2>5
  <2> QED
    BY <2>2, <2>6
<1>5. MaxDepth \in H
  <2>1. \A d \in 1 .. MaxDepth : d - 1 \in H => d \in H
    BY <1>4
  <2> HIDE DEF H
  <2> QED
    BY <1>2, <1>3, <2>1, Induction
<1>6. PICK f : \A e \in Expressions : f[e] = Pieces(f, e)
  BY <1>1, <1>5
<1> DEFINE IsF(h) == h = [x \in Expressions |-> Pieces(h, x)]
           sql == CHOOSE h : IsF(h)
           g == Round(f)
<1>7. IsF(g)
  <2>1. \A e \in Expressions : f[e] = g[e]
    BY <1>6
  <2>2. ASSUME NEW e \in Expressions
        PROVE  Pieces(f, e) = Pieces(g, e)
    <3> HIDE DEF g
    <3>1. e \in Atoms \/ From(Expressions, e)
      <4>1. CASE MaxDepth = 0
        BY <1>1, <4>1 DEF IsBuilt
      <4>2. CASE MaxDepth # 0
        <5>1. MaxDepth \in 1 .. MaxDepth /\ MaxDepth - 1 \in 0 .. MaxDepth
          BY <1>2, <4>2
        <5>2. e \in Atoms \/ From(built[MaxDepth - 1], e)
          BY <1>1, <1>2, <5>1, Levels
        <5>3. built[MaxDepth - 1] \subseteq Expressions
          BY <1>1, <1>2, <5>1, Levels
        <5> QED
          BY <5>2, <5>3 DEF From
      <4> QED
        BY <4>1, <4>2
    <3> QED
      BY <2>1, <3>1, PiecesAgrees
  <2> QED
    BY <2>2
<1>8. IsF(sql)
  <2> HIDE DEF IsF, g
  <2> QED
    BY <1>7, Zenon DEF sql
<1>9. \A e \in Expressions : sql[e] = Pieces(sql, e)
  <2> HIDE DEF sql
  <2> QED
    BY <1>8
<1>10. ASSUME NEW e
       PROVE  ExprSql(e) = sql[e]
  BY DEF ExprSql
<1> HIDE DEF sql
<1> QED
  BY <1>9, <1>10

\* An atom is an expression.
LEMMA AtomsInside ==
  Atoms \subseteq Expressions
<1>1. PICK built : IsBuilt(built, Atoms, MaxDepth) /\ Expressions = built[MaxDepth]
  BY ExprLevels, RangesAssumption DEF Expressions
<1>2. MaxDepth \in Nat /\ 0 \in 0 .. MaxDepth
  BY RangesAssumption
<1> QED
  BY <1>1, <1>2, Levels DEF IsBuilt

\* What an expression is made of is an expression.
LEMMA Parts ==
  ASSUME NEW e \in Expressions
  PROVE  AtomForm(e) \/ From(Expressions, e)
<1> DEFINE H == {x \in Expressions : x \in Atoms \/ From(Expressions, x)}
<1>1. Atoms \subseteq Expressions
  BY AtomsInside
<1>2. ASSUME NEW x \in Expressions, From(H \cap Expressions, x)
      PROVE  x \in H
  BY <1>2 DEF From
<1>3. e \in H
  <2> HIDE DEF H
  <2>1. Atoms \subseteq H
    BY <1>1 DEF H
  <2> QED
    BY <1>2, <2>1, ExprInduction, RangesAssumption DEF Expressions
<1> QED
  BY <1>3, Atomic

-----------------------------------------------------------------------------
(* Words, and fragments they join *)

\* A single word in a statement.
LEMMA WordAt ==
  ASSUME NEW w \in Word
  PROVE  /\ Words(<<w>>) \in Fragment
         /\ \A n \in Nat : End(n, Words(<<w>>)) = n + 1
         /\ \A s \in Statement, n \in Nat :
              At(s, n, Words(<<w>>)) =>
                /\ s.text[n + 1] = w
                /\ w # "?" => Binds(s, n, Words(<<w>>))
<1>1. Words(<<w>>) \in Fragment
  BY DEF Words, Fragment
<1>2. Len(Words(<<w>>).text) = 1 /\ Len(Words(<<w>>).params) = 0 /\ Words(<<w>>).text[1] = w
  BY DEF Words
<1>3. \A n \in Nat : End(n, Words(<<w>>)) = n + 1
  BY <1>2 DEF End
<1>4. ASSUME NEW s \in Statement, NEW n \in Nat, At(s, n, Words(<<w>>))
      PROVE  s.text[n + 1] = w /\ (w # "?" => Binds(s, n, Words(<<w>>)))
  <2>1. s.text[n + 1] = w
    BY <1>2, <1>4 DEF At
  <2>2. ASSUME w # "?"
        PROVE  Count(s.text, "?", n + 1) = Count(s.text, "?", n) + 0
    BY <2>1, <2>2, CountNext, CountType
  <2> QED
    BY <1>2, <1>3, <2>1, <2>2 DEF Binds
<1> QED
  BY <1>1, <1>3, <1>4

\* A word in front of a fragment.
LEMMA LedAt ==
  ASSUME NEW w \in Word, NEW g \in Fragment
  PROVE  /\ Put(Words(<<w>>), g) \in Fragment
         /\ \A n \in Nat : End(n, Put(Words(<<w>>), g)) = End(n + 1, g)
         /\ \A s \in Statement, n \in Nat :
              At(s, n, Put(Words(<<w>>), g)) /\ w # "?" =>
                /\ s.text[n + 1] = w
                /\ At(s, n + 1, g)
                /\ Binds(s, n + 1, g) => Binds(s, n, Put(Words(<<w>>), g))
<1> DEFINE h == Words(<<w>>)
<1>1. h \in Fragment /\ \A n \in Nat : End(n, h) = n + 1
  BY WordAt
<1>2. Put(h, g) \in Fragment /\ \A n \in Nat : End(n, Put(h, g)) = End(End(n, h), g)
  <2> HIDE DEF h
  <2> QED
    BY <1>1, AtPut
<1>3. ASSUME NEW s \in Statement, NEW n \in Nat, At(s, n, Put(h, g)), w # "?"
      PROVE  /\ s.text[n + 1] = w
             /\ At(s, n + 1, g)
             /\ Binds(s, n + 1, g) => Binds(s, n, Put(h, g))
  <2>1. /\ At(s, n, h)
        /\ Binds(s, n, h) => At(s, End(n, h), g)
        /\ Binds(s, n, h) /\ Binds(s, End(n, h), g) => Binds(s, n, Put(h, g))
    <3> HIDE DEF h
    <3> QED
      BY <1>1, <1>3, AtPut
  <2>2. s.text[n + 1] = w /\ Binds(s, n, h)
    BY <1>3, <2>1, WordAt
  <2> HIDE DEF h
  <2> QED
    BY <1>1, <2>1, <2>2
<1> HIDE DEF h
<1>4. \A n \in Nat : End(n, Put(h, g)) = End(n + 1, g)
  BY <1>1, <1>2
<1> QED
  BY <1>2, <1>3, <1>4 DEF h

\* A word between two fragments.
LEMMA JoinedAt ==
  ASSUME NEW f \in Fragment, NEW g \in Fragment, NEW w \in Word
  PROVE  /\ Joined(f, w, g) \in Fragment
         /\ \A n \in Nat : End(n, Joined(f, w, g)) = End(End(n, f) + 1, g)
         /\ \A s \in Statement, n \in Nat :
              At(s, n, Joined(f, w, g)) /\ Binds(s, n, f) /\ w # "?" =>
                /\ At(s, n, f)
                /\ s.text[End(n, f) + 1] = w
                /\ At(s, End(n, f) + 1, g)
                /\ Binds(s, End(n, f) + 1, g) => Binds(s, n, Joined(f, w, g))
<1> DEFINE h == Words(<<w>>)
           fh == Put(f, h)
<1>1. h \in Fragment /\ \A n \in Nat : End(n, h) = n + 1
  BY WordAt
<1>2. fh \in Fragment /\ \A n \in Nat : End(n, fh) = End(n, f) + 1
  <2>1. fh \in Fragment /\ \A n \in Nat : End(n, fh) = End(End(n, f), h)
    <3> HIDE DEF h
    <3> QED
      BY <1>1, AtPut
  <2>2. \A n \in Nat : End(n, f) \in Nat
    BY EndType
  <2> HIDE DEF fh, h
  <2> QED
    BY <1>1, <2>1, <2>2
<1>3. Joined(f, w, g) = Put(fh, g)
  BY DEF Joined
<1>4. Joined(f, w, g) \in Fragment /\ \A n \in Nat : End(n, Joined(f, w, g)) = End(End(n, f) + 1, g)
  <2>1. Put(fh, g) \in Fragment /\ \A n \in Nat : End(n, Put(fh, g)) = End(End(n, fh), g)
    <3> HIDE DEF fh
    <3> QED
      BY <1>2, AtPut
  <2> HIDE DEF fh
  <2> QED
    BY <1>2, <1>3, <2>1
<1>5. ASSUME NEW s \in Statement, NEW n \in Nat, At(s, n, Joined(f, w, g)), Binds(s, n, f), w # "?"
      PROVE  /\ At(s, n, f)
             /\ s.text[End(n, f) + 1] = w
             /\ At(s, End(n, f) + 1, g)
             /\ Binds(s, End(n, f) + 1, g) => Binds(s, n, Joined(f, w, g))
  <2>1. /\ At(s, n, fh)
        /\ Binds(s, n, fh) => At(s, End(n, fh), g)
        /\ Binds(s, n, fh) /\ Binds(s, End(n, fh), g) => Binds(s, n, Put(fh, g))
    <3>1. fh \in Fragment /\ At(s, n, Put(fh, g))
      BY <1>2, <1>3, <1>5
    <3> HIDE DEF fh
    <3> QED
      BY <3>1, AtPut
  <2>2. /\ At(s, n, f)
        /\ Binds(s, n, f) => At(s, End(n, f), h)
        /\ Binds(s, n, f) /\ Binds(s, End(n, f), h) => Binds(s, n, fh)
    <3> HIDE DEF h
    <3> QED
      BY <1>1, <2>1, AtPut
  <2>3. s.text[End(n, f) + 1] = w /\ Binds(s, End(n, f), h)
    <3>1. End(n, f) \in Nat
      BY EndType
    <3> QED
      BY <1>5, <2>2, <3>1, WordAt
  <2>4. End(n, fh) = End(n, f) + 1
    BY <1>2
  <2> HIDE DEF fh, h
  <2> QED
    BY <1>3, <1>5, <2>1, <2>2, <2>3, <2>4
<1> QED
  BY <1>4, <1>5

\* A fragment in parentheses.
LEMMA GroupedAt ==
  ASSUME NEW f \in Fragment
  PROVE  /\ Grouped(f) \in Fragment
         /\ \A n \in Nat : End(n, Grouped(f)) = End(n + 1, f) + 1
         /\ \A s \in Statement, n \in Nat :
              At(s, n, Grouped(f)) =>
                /\ s.text[n + 1] = "("
                /\ At(s, n + 1, f)
                /\ Binds(s, n + 1, f) =>
                     s.text[End(n + 1, f) + 1] = ")" /\ Binds(s, n, Grouped(f))
<1> DEFINE g == Put(Words(<<"(">>), f)
           h == Words(<<")">>)
<1>1. "(" \in Word /\ ")" \in Word /\ "(" # "?" /\ ")" # "?"
  BY DEF Word, Reserved
<1>2. h \in Fragment /\ \A n \in Nat : End(n, h) = n + 1
  BY <1>1, WordAt
<1>3. g \in Fragment /\ \A n \in Nat : End(n, g) = End(n + 1, f)
  BY <1>1, LedAt
<1>4. Grouped(f) = Put(g, h)
  BY DEF Grouped
<1>5. Put(g, h) \in Fragment /\ \A n \in Nat : End(n, Put(g, h)) = End(n + 1, f) + 1
  <2> HIDE DEF g, h
  <2>1. Put(g, h) \in Fragment /\ \A n \in Nat : End(n, Put(g, h)) = End(End(n, g), h)
    BY <1>2, <1>3, AtPut
  <2>2. \A n \in Nat : End(n + 1, f) \in Nat
    BY EndType
  <2> QED
    BY <1>2, <1>3, <2>1, <2>2
<1>6. ASSUME NEW s \in Statement, NEW n \in Nat, At(s, n, Put(g, h))
      PROVE  /\ s.text[n + 1] = "("
             /\ At(s, n + 1, f)
             /\ Binds(s, n + 1, f) =>
                  s.text[End(n + 1, f) + 1] = ")" /\ Binds(s, n, Put(g, h))
  <2>1. /\ At(s, n, g)
        /\ Binds(s, n, g) => At(s, End(n, g), h)
        /\ Binds(s, n, g) /\ Binds(s, End(n, g), h) => Binds(s, n, Put(g, h))
    <3> HIDE DEF g, h
    <3> QED
      BY <1>2, <1>3, <1>6, AtPut
  <2>2. /\ s.text[n + 1] = "(" /\ At(s, n + 1, f)
        /\ Binds(s, n + 1, f) => Binds(s, n, g)
    BY <1>1, <2>1, LedAt
  <2>3. ASSUME Binds(s, n, g)
        PROVE  s.text[End(n + 1, f) + 1] = ")" /\ Binds(s, n, Put(g, h))
    <3>1. End(n, g) = End(n + 1, f) /\ End(n + 1, f) \in Nat
      BY <1>3, EndType
    <3>2. At(s, End(n + 1, f), h)
      <4> HIDE DEF g, h
      <4> QED
        BY <2>1, <2>3, <3>1
    <3>3. s.text[End(n + 1, f) + 1] = ")" /\ Binds(s, End(n + 1, f), h)
      BY <1>1, <3>1, <3>2, WordAt
    <3> HIDE DEF g, h
    <3> QED
      BY <2>1, <2>3, <3>1, <3>3
  <2> HIDE DEF g, h
  <2> QED
    BY <2>2, <2>3
<1> HIDE DEF g, h
<1> QED
  BY <1>4, <1>5, <1>6

-----------------------------------------------------------------------------
(* The parentheses of an expression *)

\* A fragment closes what it opens, and has no keyword.
Neat(s, n, f) ==
  /\ Depth(s.text, End(n, f)) = Depth(s.text, n)
  /\ \A m \in n + 1 .. End(n, f) :
       Depth(s.text, m) >= Depth(s.text, n) /\ s.text[m] \notin Keywords
  /\ Binds(s, n, f)

\* The words that join predicates are inside of its parentheses.
Closed(s, n, f) ==
  /\ Neat(s, n, f)
  /\ \A m \in n + 1 .. End(n, f) :
       s.text[m] \in {"AND", "OR"} => Depth(s.text, m) > Depth(s.text, n)

\* A word that is no parenthesis is neat; one that joins nothing is closed.
LEMMA NeatWord ==
  ASSUME NEW s \in Statement, NEW n \in Nat, NEW w \in Word, At(s, n, Words(<<w>>)),
         w \notin Keywords \cup {"(", ")", "?"}
  PROVE  /\ Neat(s, n, Words(<<w>>))
         /\ w \notin {"AND", "OR"} => Closed(s, n, Words(<<w>>))
<1> DEFINE f == Words(<<w>>)
<1>1. s.text[n + 1] = w /\ Binds(s, n, f) /\ End(n, f) = n + 1
  BY WordAt
<1>2. Depth(s.text, n + 1) = Depth(s.text, n) /\ Depth(s.text, n) \in Int
  BY <1>1, DepthNext
<1>3. ASSUME NEW m \in n + 1 .. n + 1
      PROVE  s.text[m] = w /\ Depth(s.text, m) >= Depth(s.text, n)
  <2>1. m = n + 1
    OBVIOUS
  <2> QED
    BY <1>1, <1>2, <2>1
<1> HIDE DEF f
<1>4. Neat(s, n, f) /\ (w \notin {"AND", "OR"} => Closed(s, n, f))
  BY <1>1, <1>2, <1>3 DEF Neat, Closed
<1> QED
  BY <1>4 DEF f

\* Two neat fragments with AND or OR between them are neat.
LEMMA NeatJoined ==
  ASSUME NEW s \in Statement, NEW n \in Nat, NEW f \in Fragment, NEW g \in Fragment, NEW w \in Word,
         At(s, n, Joined(f, w, g)), Neat(s, n, f), Neat(s, End(n, f) + 1, g),
         w \notin Keywords \cup {"(", ")", "?"}
  PROVE  /\ Neat(s, n, Joined(f, w, g))
         /\ Depth(s.text, End(n, f) + 1) = Depth(s.text, n)
<1> DEFINE t == s.text
<1>1. PICK k \in Nat : k = End(n, f) /\ n <= k
  BY EndType
<1>2. PICK l \in Nat : l = End(k + 1, g) /\ k + 1 <= l
  BY EndType
<1>3. End(n, Joined(f, w, g)) = l
  BY <1>1, <1>2, JoinedAt
<1>4. t[k + 1] = w /\ Binds(s, n, Joined(f, w, g))
  <2>1. w # "?" /\ Binds(s, n, f) /\ Binds(s, k + 1, g)
    BY <1>1 DEF Neat
  <2> QED
    BY <1>1, <2>1, JoinedAt
<1>5. /\ Depth(t, k) = Depth(t, n)
      /\ \A m \in n + 1 .. k : Depth(t, m) >= Depth(t, n) /\ t[m] \notin Keywords
  BY <1>1 DEF Neat
<1>6. /\ Depth(t, l) = Depth(t, k + 1)
      /\ \A m \in (k + 1) + 1 .. l : Depth(t, m) >= Depth(t, k + 1) /\ t[m] \notin Keywords
  BY <1>1, <1>2 DEF Neat
<1> HIDE DEF t
<1>7. Depth(t, k + 1) = Depth(t, k) /\ Depth(t, k) \in Int
  BY <1>4, DepthNext
<1>8. ASSUME NEW m \in n + 1 .. l
      PROVE  Depth(t, m) >= Depth(t, n) /\ t[m] \notin Keywords
  <2>1. m \in n + 1 .. k \/ m = k + 1 \/ m \in (k + 1) + 1 .. l
    BY <1>1, <1>2
  <2> QED
    BY <2>1, <1>4, <1>5, <1>6, <1>7
<1>9. Depth(t, l) = Depth(t, n) /\ Depth(t, k + 1) = Depth(t, n)
  BY <1>5, <1>6, <1>7
<1>10. Neat(s, n, Joined(f, w, g))
  BY <1>3, <1>4, <1>8, <1>9 DEF Neat, t
<1> QED
  BY <1>1, <1>9, <1>10 DEF t

\* A neat fragment in parentheses is closed.
LEMMA ClosedGrouped ==
  ASSUME NEW s \in Statement, NEW n \in Nat, NEW f \in Fragment, At(s, n, Grouped(f)), Neat(s, n + 1, f)
  PROVE  Closed(s, n, Grouped(f)) /\ Depth(s.text, n + 1) = Depth(s.text, n) + 1
<1> DEFINE t == s.text
<1>1. PICK k \in Nat : k = End(n + 1, f) /\ n + 1 <= k
  BY EndType
<1>2. End(n, Grouped(f)) = k + 1
  BY <1>1, GroupedAt
<1>3. t[n + 1] = "(" /\ t[k + 1] = ")" /\ Binds(s, n, Grouped(f))
  <2>1. Binds(s, n + 1, f)
    BY DEF Neat
  <2> QED
    BY <1>1, <2>1, GroupedAt
<1>4. /\ Depth(t, k) = Depth(t, n + 1)
      /\ \A m \in (n + 1) + 1 .. k : Depth(t, m) >= Depth(t, n + 1) /\ t[m] \notin Keywords
  BY <1>1 DEF Neat
<1> HIDE DEF t
<1>5. Depth(t, n + 1) = Depth(t, n) + 1 /\ Depth(t, n) \in Int
  BY <1>3, DepthNext
<1>6. Depth(t, k + 1) = Depth(t, n)
  <2>1. ")" # "("
    OBVIOUS
  <2>2. Depth(t, k + 1) = Depth(t, k) - 1
    BY <1>3, <2>1, DepthNext
  <2> QED
    BY <1>4, <1>5, <2>2
<1>7. "(" \notin Keywords /\ ")" \notin Keywords /\ "(" \notin {"AND", "OR"} /\ ")" \notin {"AND", "OR"}
  BY DEF Keywords
<1>8. ASSUME NEW m \in n + 1 .. k + 1
      PROVE  /\ Depth(t, m) >= Depth(t, n) /\ t[m] \notin Keywords
             /\ t[m] \in {"AND", "OR"} => Depth(t, m) > Depth(t, n)
  <2>1. CASE m = n + 1
    BY <2>1, <1>3, <1>5, <1>7
  <2>2. CASE m \in (n + 1) + 1 .. k
    <3>1. m \in Nat
      OBVIOUS
    <3>2. Depth(t, m) \in Int
      BY <3>1, DepthNext
    <3> QED
      BY <2>2, <3>2, <1>4, <1>5
  <2>3. CASE m = k + 1
    BY <2>3, <1>3, <1>5, <1>6, <1>7
  <2> QED
    BY <1>1, <2>1, <2>2, <2>3
<1>9. Neat(s, n, Grouped(f))
  BY <1>2, <1>3, <1>6, <1>8 DEF Neat, t
<1> QED
  BY <1>2, <1>5, <1>8, <1>9 DEF Closed, t

\* Neither a column nor an operator is a word of SQL.
LEMMA NameFacts ==
  /\ \A c \in Columns : c \in Word /\ c \notin Reserved
  /\ \A op \in Operators : op \in Word /\ op \notin Reserved
  /\ Reserved \subseteq Word
BY NamesAssumption DEF Word, Operators, Reserved, Keywords

\* The tokens of a comparison in a statement: it is closed and binds its value.
LEMMA CompareAt ==
  ASSUME NEW c \in Columns, NEW op \in Operators, NEW v \in Values
  PROVE  LET f == Bind(<<"(", c, op, "?", ")">>, v) IN
         /\ f \in Fragment
         /\ \A n \in Nat : End(n, f) = n + 5
         /\ \A s \in Statement, n \in Nat :
              At(s, n, f) =>
                /\ s.text[n + 1] = "(" /\ s.text[n + 2] = c /\ s.text[n + 3] = op /\ s.text[n + 4] = "?"
                /\ Count(s.text, "?", n + 4) = Count(s.text, "?", n) + 1
                /\ s.params[Count(s.text, "?", n) + 1] = v
                /\ \A m \in n + 1 .. n + 4 : Depth(s.text, m) = Depth(s.text, n) + 1
                /\ Closed(s, n, f)
<1> DEFINE f == Bind(<<"(", c, op, "?", ")">>, v)
<1>1. c \in Word /\ op \in Word /\ {"(", "?", ")"} \subseteq Word /\ c \notin Reserved /\ op \notin Reserved
  BY NameFacts DEF Reserved
<1>2. f \in Fragment
  BY <1>1 DEF Bind, Fragment, Params
<1>3. /\ Len(f.text) = 5 /\ Len(f.params) = 1 /\ f.params[1] = v
      /\ f.text[1] = "(" /\ f.text[2] = c /\ f.text[3] = op /\ f.text[4] = "?" /\ f.text[5] = ")"
  BY DEF Bind
<1>4. \A n \in Nat : End(n, f) = n + 5
  BY <1>3 DEF End
<1>5. ASSUME NEW s \in Statement, NEW n \in Nat, At(s, n, f)
      PROVE  /\ s.text[n + 1] = "(" /\ s.text[n + 2] = c /\ s.text[n + 3] = op /\ s.text[n + 4] = "?"
             /\ Count(s.text, "?", n + 4) = Count(s.text, "?", n) + 1
             /\ s.params[Count(s.text, "?", n) + 1] = v
             /\ \A m \in n + 1 .. n + 4 : Depth(s.text, m) = Depth(s.text, n) + 1
             /\ Closed(s, n, f)
  <2> DEFINE t == s.text
  <2>1. /\ t[n + 1] = "(" /\ t[n + 2] = c /\ t[n + 3] = op /\ t[n + 4] = "?" /\ t[n + 5] = ")"
        /\ s.params[Count(t, "?", n) + 1] = v
    <3> HIDE DEF f
    <3> QED
      BY <1>3, <1>5 DEF At
  <2>2. /\ c \notin {"(", ")", "?", "AND", "OR"} \cup Keywords
        /\ op \notin {"(", ")", "?", "AND", "OR"} \cup Keywords
        /\ \A w \in {"(", ")", "?"} : w \notin Keywords /\ w \notin {"AND", "OR"}
    BY <1>1 DEF Reserved, Keywords
  <2>3. /\ n + 1 \in Nat /\ n + 2 \in Nat /\ n + 3 \in Nat /\ n + 4 \in Nat
        /\ (n + 1) + 1 = n + 2 /\ (n + 2) + 1 = n + 3 /\ (n + 3) + 1 = n + 4 /\ (n + 4) + 1 = n + 5
    OBVIOUS
  <2> HIDE DEF t, f
  <2>4. "(" # ")" /\ "?" # "(" /\ "?" # ")"
    OBVIOUS
  <2>5. Depth(t, n) \in Int /\ Depth(t, n + 1) = Depth(t, n) + 1
    BY <2>1, DepthNext
  <2>6. Depth(t, n + 2) = Depth(t, n) + 1 /\ Depth(t, n + 3) = Depth(t, n) + 1
    <3>1. Depth(t, n + 2) = Depth(t, n + 1)
      BY <2>1, <2>2, <2>3, DepthNext
    <3>2. Depth(t, n + 3) = Depth(t, n + 2)
      BY <2>1, <2>2, <2>3, DepthNext
    <3> QED
      BY <2>5, <3>1, <3>2
  <2>7. Depth(t, n + 4) = Depth(t, n) + 1
    <3>1. Depth(t, n + 4) = Depth(t, n + 3)
      BY <2>1, <2>3, <2>4, DepthNext
    <3> QED
      BY <2>6, <3>1
  <2>8. Depth(t, n + 5) = Depth(t, n)
    <3>1. Depth(t, n + 5) = Depth(t, n + 4) - 1
      BY <2>1, <2>3, <2>4, DepthNext
    <3> QED
      BY <2>5, <2>7, <3>1
  <2>9. Count(t, "?", n) \in Nat /\ Count(t, "?", n + 3) = Count(t, "?", n)
    <3>1. Count(t, "?", n + 1) = Count(t, "?", n)
      BY <2>1, <2>4, CountNext, CountType
    <3>2. Count(t, "?", n + 2) = Count(t, "?", n + 1)
      BY <2>1, <2>2, <2>3, CountNext, CountType
    <3>3. Count(t, "?", n + 3) = Count(t, "?", n + 2)
      BY <2>1, <2>2, <2>3, CountNext, CountType
    <3> QED
      BY <3>1, <3>2, <3>3, CountType
  <2>10. Count(t, "?", n + 4) = Count(t, "?", n) + 1
    BY <2>1, <2>3, <2>9, CountNext
  <2>11. Count(t, "?", n + 5) = Count(t, "?", n) + 1
    <3>1. Count(t, "?", n + 5) = Count(t, "?", n + 4)
      BY <2>1, <2>3, <2>4, CountNext, CountType
    <3> QED
      BY <2>10, <3>1
  <2>12. Binds(s, n, f)
    BY <1>3, <1>4, <2>11 DEF Binds, t
  <2>13. ASSUME NEW m \in n + 1 .. n + 5
         PROVE  m = n + 1 \/ m = n + 2 \/ m = n + 3 \/ m = n + 4 \/ m = n + 5
    OBVIOUS
  <2>14. \A m \in n + 1 .. n + 4 : Depth(t, m) = Depth(t, n) + 1
    <3> SUFFICES ASSUME NEW m \in n + 1 .. n + 4
                 PROVE  Depth(t, m) = Depth(t, n) + 1
      OBVIOUS
    <3>1. m = n + 1 \/ m = n + 2 \/ m = n + 3 \/ m = n + 4
      OBVIOUS
    <3> QED
      BY <3>1, <2>5, <2>6, <2>7
  <2>15. ASSUME NEW m \in n + 1 .. n + 5
         PROVE  /\ Depth(t, m) >= Depth(t, n) /\ t[m] \notin Keywords /\ t[m] \notin {"AND", "OR"}
    <3>1. Depth(t, m) >= Depth(t, n)
      BY <2>5, <2>6, <2>7, <2>8, <2>13
    <3>2. t[m] \notin Keywords /\ t[m] \notin {"AND", "OR"}
      BY <2>1, <2>2, <2>13
    <3> QED
      BY <3>1, <3>2
  <2>16. Closed(s, n, f)
    BY <1>4, <2>8, <2>12, <2>15 DEF Neat, Closed, t
  <2> QED
    BY <2>1, <2>10, <2>14, <2>16 DEF t
<1> QED
  BY <1>2, <1>4, <1>5

\* The words of the two null tests.
NullTests == {"IS NULL", "IS NOT NULL"}

\* The tokens of a null test in a statement: it is closed and binds nothing.
LEMMA NullAt ==
  ASSUME NEW c \in Columns, NEW w \in NullTests
  PROVE  LET f == Words(<<"(", c, w, ")">>) IN
         /\ f \in Fragment
         /\ \A n \in Nat : End(n, f) = n + 4
         /\ \A s \in Statement, n \in Nat :
              At(s, n, f) =>
                /\ s.text[n + 1] = "(" /\ s.text[n + 2] = c /\ s.text[n + 3] = w
                /\ \A m \in n + 1 .. n + 3 : Depth(s.text, m) = Depth(s.text, n) + 1
                /\ Closed(s, n, f)
<1> DEFINE f == Words(<<"(", c, w, ")">>)
<1>1. c \in Word /\ w \in Word /\ {"(", ")"} \subseteq Word /\ c \notin Reserved
  BY NameFacts DEF Reserved, NullTests
<1>2. f \in Fragment
  BY <1>1 DEF Words, Fragment
<1>3. /\ Len(f.text) = 4 /\ Len(f.params) = 0
      /\ f.text[1] = "(" /\ f.text[2] = c /\ f.text[3] = w /\ f.text[4] = ")"
  BY DEF Words
<1>4. \A n \in Nat : End(n, f) = n + 4
  BY <1>3 DEF End
<1>5. ASSUME NEW s \in Statement, NEW n \in Nat, At(s, n, f)
      PROVE  /\ s.text[n + 1] = "(" /\ s.text[n + 2] = c /\ s.text[n + 3] = w
             /\ \A m \in n + 1 .. n + 3 : Depth(s.text, m) = Depth(s.text, n) + 1
             /\ Closed(s, n, f)
  <2> DEFINE t == s.text
  <2>1. t[n + 1] = "(" /\ t[n + 2] = c /\ t[n + 3] = w /\ t[n + 4] = ")"
    <3> HIDE DEF f
    <3> QED
      BY <1>3, <1>5 DEF At
  <2>2. /\ c \notin {"(", ")", "?", "AND", "OR"} \cup Keywords
        /\ w \notin {"(", ")", "?", "AND", "OR"} \cup Keywords
        /\ \A x \in {"(", ")"} : x \notin Keywords /\ x \notin {"AND", "OR", "?"}
    BY <1>1 DEF Reserved, Keywords, NullTests
  <2>3. /\ n + 1 \in Nat /\ n + 2 \in Nat /\ n + 3 \in Nat
        /\ (n + 1) + 1 = n + 2 /\ (n + 2) + 1 = n + 3 /\ (n + 3) + 1 = n + 4
    OBVIOUS
  <2> HIDE DEF t, f
  <2>4. "(" # ")"
    OBVIOUS
  <2>5. Depth(t, n) \in Int /\ Depth(t, n + 1) = Depth(t, n) + 1
    BY <2>1, DepthNext
  <2>6. Depth(t, n + 2) = Depth(t, n) + 1 /\ Depth(t, n + 3) = Depth(t, n) + 1
    <3>1. Depth(t, n + 2) = Depth(t, n + 1)
      BY <2>1, <2>2, <2>3, DepthNext
    <3>2. Depth(t, n + 3) = Depth(t, n + 2)
      BY <2>1, <2>2, <2>3, DepthNext
    <3> QED
      BY <2>5, <3>1, <3>2
  <2>7. Depth(t, n + 4) = Depth(t, n)
    <3>1. Depth(t, n + 4) = Depth(t, n + 3) - 1
      BY <2>1, <2>3, <2>4, DepthNext
    <3> QED
      BY <2>5, <2>6, <3>1
  <2>8. Count(t, "?", n + 4) = Count(t, "?", n)
    <3>1. Count(t, "?", n + 1) = Count(t, "?", n)
      BY <2>1, <2>2, CountNext, CountType
    <3>2. Count(t, "?", n + 2) = Count(t, "?", n + 1)
      BY <2>1, <2>2, <2>3, CountNext, CountType
    <3>3. Count(t, "?", n + 3) = Count(t, "?", n + 2)
      BY <2>1, <2>2, <2>3, CountNext, CountType
    <3>4. Count(t, "?", n + 4) = Count(t, "?", n + 3)
      BY <2>1, <2>2, <2>3, CountNext, CountType
    <3> QED
      BY <3>1, <3>2, <3>3, <3>4
  <2>9. Binds(s, n, f)
    <3>1. Count(t, "?", n) \in Nat
      BY CountType
    <3> QED
      BY <1>3, <1>4, <2>8, <3>1 DEF Binds, t
  <2>10. \A m \in n + 1 .. n + 3 : Depth(t, m) = Depth(t, n) + 1
    <3> SUFFICES ASSUME NEW m \in n + 1 .. n + 3
                 PROVE  Depth(t, m) = Depth(t, n) + 1
      OBVIOUS
    <3>1. m = n + 1 \/ m = n + 2 \/ m = n + 3
      OBVIOUS
    <3> QED
      BY <3>1, <2>5, <2>6
  <2>11. ASSUME NEW m \in n + 1 .. n + 4
         PROVE  Depth(t, m) >= Depth(t, n) /\ t[m] \notin Keywords /\ t[m] \notin {"AND", "OR"}
    <3>1. m = n + 1 \/ m = n + 2 \/ m = n + 3 \/ m = n + 4
      OBVIOUS
    <3>2. Depth(t, m) >= Depth(t, n)
      BY <2>5, <2>6, <2>7, <3>1
    <3>3. t[m] \notin Keywords /\ t[m] \notin {"AND", "OR"}
      BY <2>1, <2>2, <3>1
    <3> QED
      BY <3>2, <3>3
  <2>12. Closed(s, n, f)
    BY <1>4, <2>7, <2>9, <2>11 DEF Neat, Closed, t
  <2> QED
    BY <2>1, <2>10, <2>12 DEF t
<1> QED
  BY <1>2, <1>4, <1>5

\* The text of a comparison.
CompareSql(c, op, v) == Bind(<<"(", c, op, "?", ")">>, v)

\* The text of each form.
LEMMA ExprSqlIs ==
  /\ \A c, op, v : Compare(c, op, v) \in Expressions =>
       ExprSql(Compare(c, op, v)) = CompareSql(c, op, v)
  /\ \A c : IsNull(c) \in Expressions => ExprSql(IsNull(c)) = Words(<<"(", c, "IS NULL", ")">>)
  /\ \A c : IsNotNull(c) \in Expressions => ExprSql(IsNotNull(c)) = Words(<<"(", c, "IS NOT NULL", ")">>)
  /\ True \in Expressions => ExprSql(True) = Words(<<"1">>)
  /\ \A x \in Expressions : Not(x) \in Expressions =>
       ExprSql(Not(x)) = Put(Words(<<"NOT">>), Grouped(ExprSql(x)))
  /\ \A x, y \in Expressions : And(x, y) \in Expressions =>
       ExprSql(And(x, y)) = Grouped(Joined(ExprSql(x), "AND", ExprSql(y)))
  /\ \A x, y \in Expressions : Or(x, y) \in Expressions =>
       ExprSql(Or(x, y)) = Grouped(Joined(ExprSql(x), "OR", ExprSql(y)))
<1>1. PICK sql : \A e \in Expressions : sql[e] = Pieces(sql, e) /\ ExprSql(e) = sql[e]
  BY ExprSqlRounds
<1>2. ASSUME NEW e \in Expressions, NEW f, Pieces(sql, e) = f
      PROVE  ExprSql(e) = f
  BY <1>1, <1>2
<1>3. ASSUME NEW c, NEW op, NEW v, Compare(c, op, v) \in Expressions
      PROVE  ExprSql(Compare(c, op, v)) = CompareSql(c, op, v)
  <2>1. Pieces(sql, Compare(c, op, v)) = CompareSql(c, op, v)
    BY DEF Pieces, Compare, CompareSql
  <2> QED
    BY <1>2, <1>3, <2>1
<1>4. ASSUME NEW c
      PROVE  /\ IsNull(c) \in Expressions => ExprSql(IsNull(c)) = Words(<<"(", c, "IS NULL", ")">>)
             /\ IsNotNull(c) \in Expressions => ExprSql(IsNotNull(c)) = Words(<<"(", c, "IS NOT NULL", ")">>)
  <2>1. Pieces(sql, IsNull(c)) = Words(<<"(", c, "IS NULL", ")">>)
    BY DEF Pieces, IsNull
  <2>2. Pieces(sql, IsNotNull(c)) = Words(<<"(", c, "IS NOT NULL", ")">>)
    BY DEF Pieces, IsNotNull
  <2> QED
    BY <1>2, <2>1, <2>2
<1>5. True \in Expressions => ExprSql(True) = Words(<<"1">>)
  <2>1. Pieces(sql, True) = Words(<<"1">>)
    BY DEF Pieces, True
  <2> QED
    BY <1>2, <2>1
<1>6. ASSUME NEW x \in Expressions
      PROVE  Not(x) \in Expressions => ExprSql(Not(x)) = Put(Words(<<"NOT">>), Grouped(ExprSql(x)))
  <2>1. Pieces(sql, Not(x)) = Put(Words(<<"NOT">>), Grouped(sql[x]))
    BY DEF Pieces, Not
  <2>2. sql[x] = ExprSql(x)
    BY <1>1
  <2> QED
    BY <1>2, <2>1, <2>2
<1>7. ASSUME NEW x \in Expressions, NEW y \in Expressions
      PROVE  /\ And(x, y) \in Expressions => ExprSql(And(x, y)) = Grouped(Joined(ExprSql(x), "AND", ExprSql(y)))
             /\ Or(x, y) \in Expressions => ExprSql(Or(x, y)) = Grouped(Joined(ExprSql(x), "OR", ExprSql(y)))
  <2>1. Pieces(sql, And(x, y)) = Grouped(Joined(sql[x], "AND", sql[y]))
    BY DEF Pieces, And
  <2>2. Pieces(sql, Or(x, y)) = Grouped(Joined(sql[x], "OR", sql[y]))
    BY DEF Pieces, Or
  <2>3. sql[x] = ExprSql(x) /\ sql[y] = ExprSql(y)
    BY <1>1
  <2> QED
    BY <1>2, <2>1, <2>2, <2>3
<1> QED
  BY <1>3, <1>4, <1>5, <1>6, <1>7

\* The text of an expression is a fragment that is closed wherever it stands.
HasShape(e) ==
  /\ ExprSql(e) \in Fragment
  /\ \A n \in Nat : n < End(n, ExprSql(e))
  /\ \A s \in Statement, n \in Nat : At(s, n, ExprSql(e)) => Closed(s, n, ExprSql(e))

\* The text of an atom is closed.
LEMMA AtomShape ==
  ASSUME NEW e \in Expressions, AtomForm(e)
  PROVE  HasShape(e)
<1>1. ASSUME NEW c \in Columns, NEW op \in Operators, NEW v \in Values, e = Compare(c, op, v)
      PROVE  HasShape(e)
  <2>1. ExprSql(e) = Bind(<<"(", c, op, "?", ")">>, v)
    <3>1. Compare(c, op, v) \in Expressions
      BY <1>1
    <3>2. ExprSql(Compare(c, op, v)) = CompareSql(c, op, v)
      <4>1. \A a, b, d : Compare(a, b, d) \in Expressions => ExprSql(Compare(a, b, d)) = CompareSql(a, b, d)
        BY ExprSqlIs
      <4> QED
        BY <3>1, <4>1
    <3> QED
      BY <1>1, <3>2 DEF CompareSql
  <2>2. /\ ExprSql(e) \in Fragment
        /\ \A n \in Nat : End(n, ExprSql(e)) = n + 5
        /\ \A s \in Statement, n \in Nat : At(s, n, ExprSql(e)) => Closed(s, n, ExprSql(e))
    BY <2>1, CompareAt
  <2>3. \A n \in Nat : n < n + 5
    OBVIOUS
  <2> QED
    BY <2>2, <2>3 DEF HasShape
<1>2. ASSUME NEW c \in Columns, NEW w \in NullTests, ExprSql(e) = Words(<<"(", c, w, ")">>)
      PROVE  HasShape(e)
  <2>1. /\ ExprSql(e) \in Fragment
        /\ \A n \in Nat : End(n, ExprSql(e)) = n + 4
        /\ \A s \in Statement, n \in Nat : At(s, n, ExprSql(e)) => Closed(s, n, ExprSql(e))
    BY <1>2, NullAt
  <2>2. \A n \in Nat : n < n + 4
    OBVIOUS
  <2> QED
    BY <2>1, <2>2 DEF HasShape
<1>3. ASSUME NEW c \in Columns, e = IsNull(c) \/ e = IsNotNull(c)
      PROVE  HasShape(e)
  <2>1. ExprSql(e) = Words(<<"(", c, "IS NULL", ")">>) \/ ExprSql(e) = Words(<<"(", c, "IS NOT NULL", ")">>)
    BY <1>3, ExprSqlIs
  <2>2. "IS NULL" \in NullTests /\ "IS NOT NULL" \in NullTests
    BY DEF NullTests
  <2> QED
    BY <1>2, <2>1, <2>2
<1>4. ASSUME e = True
      PROVE  HasShape(e)
  <2>1. ExprSql(e) = Words(<<"1">>)
    BY <1>4, ExprSqlIs
  <2>2. "1" \in Word /\ "1" \notin Keywords \cup {"(", ")", "?"} /\ "1" \notin {"AND", "OR"}
    BY NameFacts DEF Reserved, Keywords
  <2>3. /\ ExprSql(e) \in Fragment
        /\ \A n \in Nat : End(n, ExprSql(e)) = n + 1
        /\ \A s \in Statement, n \in Nat : At(s, n, ExprSql(e)) => Closed(s, n, ExprSql(e))
    BY <2>1, <2>2, WordAt, NeatWord
  <2>4. \A n \in Nat : n < n + 1
    OBVIOUS
  <2> QED
    BY <2>3, <2>4 DEF HasShape
<1> QED
  BY <1>1, <1>3, <1>4 DEF AtomForm

\* The words that join two conditions.
JoinWords == {"AND", "OR"}

\* The text of an AND or an OR is closed if those of the operands are: the parentheses of to_sql.
LEMMA JoinedShape ==
  ASSUME NEW x \in Expressions, NEW y \in Expressions, HasShape(x), HasShape(y), NEW w \in JoinWords,
         NEW e, ExprSql(e) = Grouped(Joined(ExprSql(x), w, ExprSql(y)))
  PROVE  HasShape(e)
<1> DEFINE f == ExprSql(x)
           g == ExprSql(y)
           j == Joined(f, w, g)
<1>1. f \in Fragment /\ g \in Fragment
  BY DEF HasShape
<1>2. w \in Word /\ w # "?" /\ w \notin Keywords \cup {"(", ")", "?"}
  BY NameFacts DEF JoinWords, Reserved, Keywords
<1>3. j \in Fragment /\ Grouped(j) \in Fragment
  <2>1. j \in Fragment
    BY <1>1, <1>2, JoinedAt
  <2> QED
    BY <2>1, GroupedAt
<1>4. ASSUME NEW n \in Nat
      PROVE  n < End(n, Grouped(j))
  <2>1. End(n, Grouped(j)) = End(n + 1, j) + 1
    BY <1>3, GroupedAt
  <2>2. End(n + 1, j) \in Nat /\ n + 1 <= End(n + 1, j)
    BY <1>3, EndType
  <2> QED
    BY <2>1, <2>2
<1>5. ASSUME NEW s \in Statement, NEW n \in Nat, At(s, n, Grouped(j))
      PROVE  Closed(s, n, Grouped(j))
  <2>1. At(s, n + 1, j)
    BY <1>3, <1>5, GroupedAt
  <2>2. At(s, n + 1, f)
    <3>1. At(s, n + 1, Put(Put(f, Words(<<w>>)), g))
      BY <2>1 DEF Joined
    <3>2. Words(<<w>>) \in Fragment
      BY <1>2, WordAt
    <3>3. Put(f, Words(<<w>>)) \in Fragment /\ n + 1 \in Nat
      BY <1>1, <3>2, AtPut
    <3>4. At(s, n + 1, Put(f, Words(<<w>>)))
      BY <1>1, <3>1, <3>3, AtPut
    <3> QED
      BY <1>1, <3>2, <3>3, <3>4, AtPut
  <2>3. Neat(s, n + 1, f)
    BY <2>2 DEF HasShape, Closed
  <2>4. At(s, End(n + 1, f) + 1, g) /\ End(n + 1, f) \in Nat
    <3>1. Binds(s, n + 1, f) /\ n + 1 \in Nat
      BY <2>3 DEF Neat
    <3>2. End(n + 1, f) \in Nat
      BY <1>1, <3>1, EndType
    <3> QED
      BY <1>1, <1>2, <2>1, <3>1, <3>2, JoinedAt
  <2>5. Neat(s, End(n + 1, f) + 1, g)
    BY <2>4 DEF HasShape, Closed
  <2>6. Neat(s, n + 1, j)
    <3>1. n + 1 \in Nat
      OBVIOUS
    <3> QED
      BY <1>1, <1>2, <2>1, <2>3, <2>5, <3>1, NeatJoined
  <2> QED
    BY <1>3, <1>5, <2>6, ClosedGrouped
<1> HIDE DEF j
<1> QED
  BY <1>3, <1>4, <1>5 DEF HasShape, j

\* The text of a NOT is closed if that of the operand is.
LEMMA NotShape ==
  ASSUME NEW x \in Expressions, HasShape(x), NEW e, ExprSql(e) = Put(Words(<<"NOT">>), Grouped(ExprSql(x)))
  PROVE  HasShape(e)
<1> DEFINE f == ExprSql(x)
           g == Grouped(f)
           h == Put(Words(<<"NOT">>), g)
<1>1. f \in Fragment /\ g \in Fragment
  <2>1. f \in Fragment
    BY DEF HasShape
  <2> QED
    BY <2>1, GroupedAt
<1>2. "NOT" \in Word /\ "NOT" # "?" /\ "NOT" \notin Keywords \cup {"(", ")", "?", "AND", "OR"}
  BY NameFacts DEF Reserved, Keywords
<1>3. h \in Fragment /\ \A n \in Nat : End(n, h) = End(n + 1, g)
  BY <1>1, <1>2, LedAt
<1>4. ASSUME NEW n \in Nat
      PROVE  n < End(n, h)
  <2>1. End(n + 1, g) \in Nat /\ n + 1 <= End(n + 1, g)
    BY <1>1, EndType
  <2> HIDE DEF h
  <2> QED
    BY <1>3, <2>1
<1>5. ASSUME NEW s \in Statement, NEW n \in Nat, At(s, n, h)
      PROVE  Closed(s, n, h)
  <2> DEFINE t == s.text
  <2>1. t[n + 1] = "NOT" /\ At(s, n + 1, g) /\ (Binds(s, n + 1, g) => Binds(s, n, h))
    BY <1>1, <1>2, <1>5, LedAt
  <2>2. n + 1 \in Nat /\ (n + 1) + 1 \in Nat
    OBVIOUS
  <2>3. At(s, (n + 1) + 1, f)
    BY <1>1, <2>1, <2>2, GroupedAt
  <2>4. Neat(s, (n + 1) + 1, f)
    BY <2>2, <2>3 DEF HasShape, Closed
  <2>5. Closed(s, n + 1, g)
    BY <1>1, <2>1, <2>2, <2>4, ClosedGrouped
  <2>6. PICK k \in Nat : k = End(n + 1, g) /\ n + 1 <= k
    BY <1>1, EndType
  <2>7. End(n, h) = k
    BY <1>3, <2>6
  <2>8. /\ Depth(t, k) = Depth(t, n + 1) /\ Binds(s, n + 1, g)
        /\ \A m \in (n + 1) + 1 .. k :
             /\ Depth(t, m) >= Depth(t, n + 1) /\ t[m] \notin Keywords
             /\ t[m] \in {"AND", "OR"} => Depth(t, m) > Depth(t, n + 1)
    BY <2>5, <2>6 DEF Closed, Neat
  <2> HIDE DEF t, f, g, h
  <2>9. Depth(t, n + 1) = Depth(t, n) /\ Depth(t, n) \in Int
    BY <1>2, <2>1, DepthNext
  <2>10. ASSUME NEW m \in n + 1 .. k
         PROVE  /\ Depth(t, m) >= Depth(t, n) /\ t[m] \notin Keywords
                /\ t[m] \in {"AND", "OR"} => Depth(t, m) > Depth(t, n)
    <3>1. CASE m = n + 1
      BY <1>2, <2>1, <2>9, <3>1
    <3>2. CASE m \in (n + 1) + 1 .. k
      BY <2>8, <2>9, <3>2
    <3> QED
      BY <2>6, <3>1, <3>2
  <2>11. Neat(s, n, h)
    BY <2>1, <2>7, <2>8, <2>9, <2>10 DEF Neat, t
  <2> QED
    BY <2>7, <2>10, <2>11 DEF Closed, t
<1> HIDE DEF h
<1> QED
  BY <1>3, <1>4, <1>5 DEF HasShape, h

\* The text of every expression is closed.
LEMMA ExprShape ==
  ASSUME NEW e \in Expressions
  PROVE  HasShape(e)
<1> DEFINE H == {x \in Expressions : HasShape(x)}
<1>1. ASSUME NEW x \in Expressions, From(H \cap Expressions, x)
      PROVE  x \in H
  <2>1. ASSUME NEW y \in H, x = Not(y)
        PROVE  HasShape(x)
    <3>1. ExprSql(x) = Put(Words(<<"NOT">>), Grouped(ExprSql(y)))
      BY <2>1, ExprSqlIs
    <3> QED
      BY <3>1, NotShape
  <2>2. ASSUME NEW y \in H, NEW z \in H, x = And(y, z) \/ x = Or(y, z)
        PROVE  HasShape(x)
    <3>1. \/ ExprSql(x) = Grouped(Joined(ExprSql(y), "AND", ExprSql(z)))
          \/ ExprSql(x) = Grouped(Joined(ExprSql(y), "OR", ExprSql(z)))
      <4>1. y \in Expressions /\ z \in Expressions
        OBVIOUS
      <4> HIDE DEF H
      <4>2. CASE x = And(y, z)
        BY <4>1, <4>2, ExprSqlIs, Zenon
      <4>3. CASE x = Or(y, z)
        BY <4>1, <4>3, ExprSqlIs, Zenon
      <4> QED
        BY <2>2, <4>2, <4>3
    <3>2. "AND" \in JoinWords /\ "OR" \in JoinWords
      BY DEF JoinWords
    <3> QED
      BY <3>1, <3>2, JoinedShape
  <2> QED
    BY <1>1, <2>1, <2>2 DEF From
<1>2. Expressions \subseteq H
  <2>1. Atoms \subseteq Expressions
    BY AtomsInside
  <2>2. Atoms \subseteq H
    BY <2>1, Atomic, AtomShape
  <2> HIDE DEF H
  <2> QED
    BY <1>1, <2>2, ExprInduction, RangesAssumption DEF Expressions
<1> QED
  BY <1>2

-----------------------------------------------------------------------------
(* Reading a condition *)

\* The pairs of places a condition may stand between.
Spans(s) == (1 .. Len(s.text) + 1) \X (0 .. Len(s.text))

\* How many tokens a span has.
Width(lo, hi) == hi + 1 - lo

\* Two functions that agree on the shorter spans read a span the same way.
LEMMA ReadingAgrees ==
  ASSUME NEW s \in Statement, NEW lo \in 1 .. Len(s.text) + 1, NEW hi \in 0 .. Len(s.text),
         NEW f, NEW g,
         \A a \in 1 .. Len(s.text) + 1, b \in 0 .. Len(s.text) :
           Width(a, b) < Width(lo, hi) => f[<<a, b>>] = g[<<a, b>>]
  PROVE  Reading(f, s, lo, hi) = Reading(g, s, lo, hi)
<1>1. CASE lo > hi
  BY <1>1 DEF Reading
<1>2. CASE lo <= hi
  <2> DEFINE t == s.text
             L == Len(t)
             Outside(word) == {n \in lo .. hi : t[n] = word /\ Depth(t, n) = Depth(t, lo - 1)}
  <2>1. L \in Nat
    BY DEF Statement
  <2>2. \A a \in 1 .. L + 1, b \in 0 .. L : b + 1 - a < hi + 1 - lo => f[<<a, b>>] = g[<<a, b>>]
    BY DEF Width
  <2>3. lo \in 1 .. L /\ hi \in 1 .. L /\ lo \in Nat /\ hi \in Nat
    <3> HIDE DEF L
    <3> QED
      BY <1>2, <2>1 DEF L
  <2> HIDE DEF L
  <2>4. ASSUME NEW word, Outside(word) # {}
        PROVE  /\ f[<<lo, Max(Outside(word)) - 1>>] = g[<<lo, Max(Outside(word)) - 1>>]
               /\ f[<<Max(Outside(word)) + 1, hi>>] = g[<<Max(Outside(word)) + 1, hi>>]
    <3> DEFINE O == Outside(word)
               m == Max(O)
    <3>1. O \subseteq lo .. hi /\ O # {}
      BY <2>4
    <3>2. m \in O
      <4> HIDE DEF O
      <4> QED
        BY <2>3, <3>1, Extremes
    <3>3. m \in lo .. hi
      BY <3>1, <3>2
    <3> HIDE DEF O, m
    <3>4. m - 1 \in 0 .. L /\ m + 1 \in 1 .. L + 1 /\ lo \in 1 .. L + 1 /\ hi \in 0 .. L
      BY <2>1, <2>3, <3>3
    <3>5. (m - 1) + 1 - lo < hi + 1 - lo /\ hi + 1 - (m + 1) < hi + 1 - lo
      BY <2>3, <3>3
    <3>6. f[<<lo, m - 1>>] = g[<<lo, m - 1>>] /\ f[<<m + 1, hi>>] = g[<<m + 1, hi>>]
      BY <2>2, <3>4, <3>5
    <3> QED
      BY <3>6 DEF m, O
  <2>5. f[<<lo + 1, hi>>] = g[<<lo + 1, hi>>]
    <3>1. lo + 1 \in 1 .. L + 1 /\ hi \in 0 .. L /\ hi + 1 - (lo + 1) < hi + 1 - lo
      BY <2>1, <2>3
    <3> QED
      BY <2>2, <3>1
  <2>6. f[<<lo + 1, hi - 1>>] = g[<<lo + 1, hi - 1>>]
    <3>1. lo + 1 \in 1 .. L + 1 /\ hi - 1 \in 0 .. L /\ (hi - 1) + 1 - (lo + 1) < hi + 1 - lo
      BY <2>1, <2>3
    <3> QED
      BY <2>2, <3>1
  <2> QED
    BY <2>4, <2>5, <2>6 DEF Reading
<1> QED
  BY <1>1, <1>2 DEF Statement

\* The function by which the database reads a text exists.
LEMMA ParsedRounds ==
  ASSUME NEW s \in Statement
  PROVE  \E read : \A lo \in 1 .. Len(s.text) + 1, hi \in 0 .. Len(s.text) :
           read[<<lo, hi>>] = Reading(read, s, lo, hi) /\ Parsed(s, lo, hi) = read[<<lo, hi>>]
<1> DEFINE L == Len(s.text)
           A == 1 .. L + 1
           B == 0 .. L
           Solves(f, k) == \A lo \in A, hi \in B : Width(lo, hi) <= k => f[<<lo, hi>>] = Reading(f, s, lo, hi)
           Step(f) == [span \in Spans(s) |-> Reading(f, s, span[1], span[2])]
           H == {k \in 0 .. L : \E f : Solves(f, k)}
<1>1. L \in Nat
  BY DEF Statement
<1>2. ASSUME NEW f, NEW lo \in A, NEW hi \in B
      PROVE  Step(f)[<<lo, hi>>] = Reading(f, s, lo, hi)
  <2>1. <<lo, hi>> \in Spans(s)
    BY DEF Spans
  <2> QED
    BY <2>1
<1>3. 0 \in H
  <2> DEFINE base == [span \in Spans(s) |-> NoExpr]
  <2>1. ASSUME NEW lo \in A, NEW hi \in B, Width(lo, hi) <= 0
        PROVE  base[<<lo, hi>>] = Reading(base, s, lo, hi)
    <3>1. <<lo, hi>> \in Spans(s)
      BY DEF Spans
    <3>2. base[<<lo, hi>>] = NoExpr
      BY <3>1
    <3>3. lo > hi
      BY <1>1, <2>1 DEF Width
    <3> HIDE DEF base
    <3> QED
      BY <3>2, <3>3 DEF Reading
  <2>2. Solves(base, 0)
    BY <2>1
  <2> HIDE DEF base
  <2> QED
    BY <1>1, <2>2
<1>4. ASSUME NEW k \in 1 .. L, k - 1 \in H
      PROVE  k \in H
  <2>1. PICK f : Solves(f, k - 1)
    BY <1>4
  <2> DEFINE g == Step(f)
  <2>2. \A lo \in A, hi \in B : g[<<lo, hi>>] = Reading(f, s, lo, hi)
    BY <1>2
  <2> HIDE DEF g
  <2>3. ASSUME NEW lo \in A, NEW hi \in B, Width(lo, hi) <= k
        PROVE  g[<<lo, hi>>] = Reading(g, s, lo, hi)
    <3>1. ASSUME NEW a \in A, NEW b \in B, Width(a, b) < Width(lo, hi)
          PROVE  f[<<a, b>>] = g[<<a, b>>]
      <4>1. Width(a, b) <= k - 1
        BY <1>1, <2>3, <3>1 DEF Width
      <4> QED
        BY <2>1, <2>2, <4>1
    <3>2. Reading(f, s, lo, hi) = Reading(g, s, lo, hi)
      BY <3>1, ReadingAgrees
    <3> QED
      BY <2>2, <3>2
  <2>4. Solves(g, k)
    BY <2>3
  <2> HIDE DEF Solves
  <2>5. \E h : Solves(h, k)
    BY <2>4
  <2>6. k \in 0 .. L
    BY <1>1
  <2> QED
    BY <2>5, <2>6
<1>5. L \in H
  <2>1. \A k \in 1 .. L : k - 1 \in H => k \in H
    BY <1>4
  <2> HIDE DEF H
  <2>2. \A k \in 0 .. L : k \in H
    BY <1>1, <1>3, <2>1, Induction
  <2> QED
    BY <1>1, <2>2
<1>6. PICK f : \A lo \in A, hi \in B : f[<<lo, hi>>] = Reading(f, s, lo, hi)
  <2>1. PICK f : Solves(f, L)
    BY <1>5
  <2>2. \A lo \in A, hi \in B : Width(lo, hi) <= L
    BY <1>1 DEF Width
  <2> QED
    BY <2>1, <2>2
<1> DEFINE IsF(h) == h = [span \in Spans(s) |-> Reading(h, s, span[1], span[2])]
           read == CHOOSE h : IsF(h)
           g == Step(f)
<1>7. IsF(g)
  <2>1. ASSUME NEW span \in Spans(s)
        PROVE  Reading(f, s, span[1], span[2]) = Reading(g, s, span[1], span[2])
    <3>1. span[1] \in A /\ span[2] \in B
      BY DEF Spans
    <3>2. \A a \in A, b \in B : f[<<a, b>>] = g[<<a, b>>]
      BY <1>2, <1>6
    <3> HIDE DEF g
    <3> QED
      BY <3>1, <3>2, ReadingAgrees
  <2> QED
    BY <2>1
<1>8. IsF(read)
  <2> HIDE DEF IsF, g
  <2> QED
    BY <1>7, Zenon DEF read
<1>9. ASSUME NEW lo \in A, NEW hi \in B
      PROVE  read[<<lo, hi>>] = Reading(read, s, lo, hi)
  <2>1. <<lo, hi>> \in Spans(s)
    BY DEF Spans
  <2> HIDE DEF read
  <2> QED
    BY <1>8, <2>1
<1>10. ASSUME NEW lo, NEW hi
       PROVE  Parsed(s, lo, hi) = read[<<lo, hi>>]
  BY DEF Parsed, Spans
<1> HIDE DEF read
<1> QED
  BY <1>9, <1>10

\* What a function reads between two places.
Between(read, lo, hi) == read[<<lo, hi>>]

\* A function that reads the conditions of a statement.
Reads(read, s) ==
  \A lo \in 1 .. Len(s.text) + 1, hi \in 0 .. Len(s.text) : Between(read, lo, hi) = Reading(read, s, lo, hi)

\* No AND and no OR of a span is outside of its parentheses.
Inside(s, lo, hi) ==
  \A m \in lo .. hi : s.text[m] \in JoinWords => Depth(s.text, m) # Depth(s.text, lo - 1)

\* What the first token says of a condition without them.
ByFirst(read, s, lo, hi) ==
  IF s.text[lo] = "NOT" THEN Not(Between(read, lo + 1, hi))
  ELSE IF s.text[lo] = "(" THEN Between(read, lo + 1, hi - 1)
  ELSE IF lo = hi THEN True
  ELSE IF s.text[lo + 1] = "IS NULL" THEN IsNull(s.text[lo])
  ELSE IF s.text[lo + 1] = "IS NOT NULL" THEN IsNotNull(s.text[lo])
  ELSE Compare(s.text[lo], s.text[lo + 1], Value(s, lo + 2))

\* A condition without AND and OR of its own is read by its first token.
LEMMA Unjoined ==
  ASSUME NEW s \in Statement, NEW read, Reads(read, s), NEW lo \in Nat, NEW hi \in Nat,
         1 <= lo, lo <= hi, hi <= Len(s.text), Inside(s, lo, hi)
  PROVE  Between(read, lo, hi) = ByFirst(read, s, lo, hi)
<1>1. Between(read, lo, hi) = Reading(read, s, lo, hi)
  <2>1. lo \in 1 .. Len(s.text) + 1 /\ hi \in 0 .. Len(s.text)
    BY DEF Statement
  <2> QED
    BY <2>1 DEF Reads
<1>2. /\ {m \in lo .. hi : s.text[m] = "OR" /\ Depth(s.text, m) = Depth(s.text, lo - 1)} = {}
      /\ {m \in lo .. hi : s.text[m] = "AND" /\ Depth(s.text, m) = Depth(s.text, lo - 1)} = {}
  BY DEF JoinWords, Inside
<1>3. ~ (lo > hi)
  OBVIOUS
<1> QED
  BY <1>1, <1>2, <1>3 DEF Reading, Between, ByFirst

\* ... parentheses around a condition,
LEMMA UnjoinedGroup ==
  ASSUME NEW s \in Statement, NEW read, Reads(read, s), NEW lo \in Nat, NEW hi \in Nat,
         1 <= lo, lo <= hi, hi <= Len(s.text), Inside(s, lo, hi), s.text[lo] = "("
  PROVE  Between(read, lo, hi) = Between(read, lo + 1, hi - 1)
<1>1. Between(read, lo, hi) = ByFirst(read, s, lo, hi)
  BY Unjoined
<1> QED
  BY <1>1 DEF ByFirst

\* ... a NOT,
LEMMA UnjoinedNot ==
  ASSUME NEW s \in Statement, NEW read, Reads(read, s), NEW lo \in Nat, NEW hi \in Nat,
         1 <= lo, lo <= hi, hi <= Len(s.text), Inside(s, lo, hi), s.text[lo] = "NOT"
  PROVE  Between(read, lo, hi) = Not(Between(read, lo + 1, hi))
<1>1. Between(read, lo, hi) = ByFirst(read, s, lo, hi)
  BY Unjoined
<1> QED
  BY <1>1 DEF ByFirst

\* ... a single token,
LEMMA UnjoinedOne ==
  ASSUME NEW s \in Statement, NEW read, Reads(read, s), NEW lo \in Nat, NEW hi \in Nat,
         1 <= lo, lo = hi, hi <= Len(s.text), Inside(s, lo, hi), s.text[lo] # "NOT", s.text[lo] # "("
  PROVE  Between(read, lo, hi) = True
<1>1. lo <= hi
  OBVIOUS
<1>2. Between(read, lo, hi) = ByFirst(read, s, lo, hi)
  BY <1>1, Unjoined
<1> QED
  BY <1>2 DEF ByFirst

\* ... a column with a test or a comparison.
LEMMA UnjoinedMore ==
  ASSUME NEW s \in Statement, NEW read, Reads(read, s), NEW lo \in Nat, NEW hi \in Nat,
         1 <= lo, lo < hi, hi <= Len(s.text), Inside(s, lo, hi), s.text[lo] # "NOT", s.text[lo] # "("
  PROVE  Between(read, lo, hi) =
           IF s.text[lo + 1] = "IS NULL" THEN IsNull(s.text[lo])
           ELSE IF s.text[lo + 1] = "IS NOT NULL" THEN IsNotNull(s.text[lo])
           ELSE Compare(s.text[lo], s.text[lo + 1], Value(s, lo + 2))
<1>1. lo <= hi /\ lo # hi
  OBVIOUS
<1>2. Between(read, lo, hi) = ByFirst(read, s, lo, hi)
  BY <1>1, Unjoined
<1>3. ByFirst(read, s, lo, hi) =
        IF s.text[lo + 1] = "IS NULL" THEN IsNull(s.text[lo])
        ELSE IF s.text[lo + 1] = "IS NOT NULL" THEN IsNotNull(s.text[lo])
        ELSE Compare(s.text[lo], s.text[lo + 1], Value(s, lo + 2))
  BY <1>1 DEF ByFirst
<1> QED
  BY <1>2, <1>3, Zenon

\* The word between two joined fragments.
LEMMA JoinedWord ==
  ASSUME NEW s \in Statement, NEW n \in Nat, NEW f \in Fragment, NEW g \in Fragment, NEW w \in Word,
         At(s, n, Joined(f, w, g)), Binds(s, n, f), w # "?"
  PROVE  s.text[End(n, f) + 1] = w
<1>1. \A r \in Statement, m \in Nat :
        At(r, m, Joined(f, w, g)) /\ Binds(r, m, f) /\ w # "?" => r.text[End(m, f) + 1] = w
  BY JoinedAt
<1> QED
  BY <1>1

\* Parentheses around a fragment are left out.
LEMMA GroupedRead ==
  ASSUME NEW s \in Statement, NEW read, Reads(read, s), NEW n \in Nat, NEW f \in Fragment,
         At(s, n, Grouped(f)), Neat(s, n + 1, f)
  PROVE  Between(read, n + 1, End(n, Grouped(f))) = Between(read, n + 2, End(n + 1, f))
<1> DEFINE t == s.text
<1>1. PICK k \in Nat : k = End(n + 1, f) /\ n + 1 <= k
  BY EndType
<1>2. End(n, Grouped(f)) = k + 1
  BY <1>1, GroupedAt
<1>3. t[n + 1] = "(" /\ k + 1 <= Len(t)
  <2>1. t[n + 1] = "("
    BY GroupedAt
  <2> QED
    BY <1>2, <2>1 DEF At
<1>4. Closed(s, n, Grouped(f))
  BY ClosedGrouped
<1>5. \A m \in n + 1 .. k + 1 : t[m] \in JoinWords => Depth(t, m) # Depth(t, (n + 1) - 1)
  <2>1. \A m \in n + 1 .. k + 1 : t[m] \in JoinWords => Depth(t, m) > Depth(t, n)
    BY <1>2, <1>4 DEF Closed, JoinWords
  <2>2. (n + 1) - 1 = n /\ \A m \in n + 1 .. k + 1 : m \in Nat
    OBVIOUS
  <2>3. \A m \in Nat : Depth(t, m) \in Int
    BY DepthNext
  <2> HIDE DEF t
  <2> QED
    BY <2>1, <2>2, <2>3
<1>6. /\ n + 1 \in Nat /\ k + 1 \in Nat /\ 1 <= n + 1 /\ n + 1 <= k + 1
      /\ (n + 1) + 1 = n + 2 /\ (k + 1) - 1 = k
  BY <1>1
<1>7. "(" # "NOT"
  OBVIOUS
<1>8. Between(read, n + 1, k + 1) = Between(read, (n + 1) + 1, (k + 1) - 1)
  <2>1. PICK lo \in Nat, hi \in Nat : lo = n + 1 /\ hi = k + 1
    BY <1>6
  <2>2. s.text[lo] = "(" /\ 1 <= lo /\ lo <= hi /\ hi <= Len(s.text)
    BY <1>3, <1>6, <2>1
  <2>3. Inside(s, lo, hi)
    BY <1>5, <2>1 DEF Inside
  <2>4. Between(read, lo, hi) = Between(read, lo + 1, hi - 1)
    BY <2>2, <2>3, UnjoinedGroup
  <2> QED
    BY <2>1, <2>4
<1> QED
  BY <1>1, <1>2, <1>6, <1>8

\* Two closed fragments with AND or OR between them are read one by one.
LEMMA JoinedRead ==
  ASSUME NEW s \in Statement, NEW read, Reads(read, s), NEW n \in Nat,
         NEW f \in Fragment, NEW g \in Fragment, NEW w \in JoinWords,
         At(s, n, Joined(f, w, g)), Closed(s, n, f), Closed(s, End(n, f) + 1, g),
         NEW a, a = Between(read, n + 1, End(n, f)),
         NEW b, b = Between(read, End(n, f) + 2, End(n, Joined(f, w, g)))
  PROVE  Between(read, n + 1, End(n, Joined(f, w, g))) = IF w = "OR" THEN Or(a, b) ELSE And(a, b)
<1> DEFINE t == s.text
<1>1. PICK k \in Nat : k = End(n, f) /\ n <= k
  BY EndType
<1>2. PICK l \in Nat : l = End(k + 1, g) /\ k + 1 <= l
  BY EndType
<1>3. w \in Word /\ w \notin Keywords \cup {"(", ")", "?"} /\ w # "?"
  BY NameFacts DEF JoinWords, Reserved, Keywords
<1>4. End(n, Joined(f, w, g)) = l
  BY <1>1, <1>2, <1>3, JoinedAt
<1>5. t[k + 1] = w /\ l <= Len(t)
  <2>1. Binds(s, n, f)
    BY DEF Closed, Neat
  <2>2. s.text[End(n, f) + 1] = w
    BY <1>3, <2>1, JoinedWord
  <2>3. End(n, Joined(f, w, g)) <= Len(s.text)
    BY DEF At
  <2> QED
    BY <1>1, <1>4, <2>2, <2>3
<1>6. Depth(t, k + 1) = Depth(t, n)
  BY <1>1, <1>3, NeatJoined DEF Closed
<1>7. \A m \in n + 1 .. k : t[m] \in JoinWords => Depth(t, m) > Depth(t, n)
  BY <1>1 DEF Closed, JoinWords
<1>8. \A m \in (k + 1) + 1 .. l : t[m] \in JoinWords => Depth(t, m) > Depth(t, k + 1)
  BY <1>1, <1>2 DEF Closed, JoinWords
<1> DEFINE Outside(word) == {m \in n + 1 .. l : t[m] = word /\ Depth(t, m) = Depth(t, (n + 1) - 1)}
<1>9. /\ k + 1 \in n + 1 .. l /\ (n + 1) - 1 = n /\ n + 1 \in Nat /\ l >= n + 1
      /\ (k + 1) - 1 = k /\ (k + 1) + 1 = k + 2
  BY <1>1, <1>2
<1>10. ASSUME NEW m \in n + 1 .. l, t[m] \in JoinWords, Depth(t, m) = Depth(t, n)
       PROVE  m = k + 1
  <2>1. Depth(t, n) \in Int
    BY DepthNext
  <2>2. m \in n + 1 .. k \/ m = k + 1 \/ m \in (k + 1) + 1 .. l
    BY <1>1, <1>2
  <2> HIDE DEF t
  <2> QED
    BY <2>1, <2>2, <1>6, <1>7, <1>8, <1>10
<1> HIDE DEF t
<1>11. Outside(w) = {k + 1}
  BY <1>5, <1>6, <1>9, <1>10
<1>12. w = "AND" => Outside("OR") = {}
  <2> SUFFICES ASSUME w = "AND", NEW m \in Outside("OR")
               PROVE  FALSE
    OBVIOUS
  <2>1. "OR" \in JoinWords /\ "OR" # "AND"
    BY DEF JoinWords
  <2>2. m = k + 1
    BY <1>9, <1>10, <2>1
  <2> QED
    BY <1>5, <2>1, <2>2
<1>13. Max({k + 1}) = k + 1
  <2>1. {k + 1} \subseteq (k + 1) .. (k + 1) /\ {k + 1} # {} /\ k + 1 \in Nat
    OBVIOUS
  <2>2. Max({k + 1}) \in {k + 1}
    BY <2>1, Extremes
  <2> QED
    BY <2>2
<1>14. Between(read, n + 1, l) = Reading(read, s, n + 1, l)
  <2>1. n + 1 \in 1 .. Len(s.text) + 1 /\ l \in 0 .. Len(s.text)
    BY <1>1, <1>2, <1>5, <1>9 DEF Statement, t
  <2> QED
    BY <2>1 DEF Reads
<1>15. a = Between(read, n + 1, k) /\ b = Between(read, k + 2, l)
  BY <1>1, <1>4
<1>16. ~ (n + 1 > l)
  BY <1>9
<1>17. CASE w = "OR"
  <2>1. Outside("OR") # {} /\ Max(Outside("OR")) = k + 1
    BY <1>11, <1>13, <1>17
  <2>2. Reading(read, s, n + 1, l) = Or(Between(read, n + 1, (k + 1) - 1), Between(read, (k + 1) + 1, l))
    BY <1>16, <2>1 DEF Reading, Between, t
  <2> QED
    BY <1>4, <1>9, <1>14, <1>15, <1>17, <2>2
<1>18. CASE w = "AND"
  <2>1. Outside("OR") = {} /\ Outside("AND") # {} /\ Max(Outside("AND")) = k + 1
    BY <1>11, <1>12, <1>13, <1>18
  <2>2. Reading(read, s, n + 1, l) = And(Between(read, n + 1, (k + 1) - 1), Between(read, (k + 1) + 1, l))
    BY <1>16, <2>1 DEF Reading, Between, t
  <2>3. w # "OR"
    BY <1>18
  <2> QED
    BY <1>4, <1>9, <1>14, <1>15, <2>2, <2>3
<1> QED
  BY <1>17, <1>18 DEF JoinWords

\* The statement has its placeholders numbered.
IsNumbered(s) == \A n \in 1 .. Len(s.text) : s.numbers[n] = Count(s.text, "?", n)

\* The database reads the text of an expression as the expression.
HasSense(e) ==
  \A s \in Statement, n \in Nat :
    \A read : IsNumbered(s) /\ Reads(read, s) /\ At(s, n, ExprSql(e)) =>
                Between(read, n + 1, End(n, ExprSql(e))) = e

\* A closed fragment has no AND and no OR outside of parentheses.
LEMMA ClosedInside ==
  ASSUME NEW s \in Statement, NEW n \in Nat, NEW f \in Fragment, Closed(s, n, f)
  PROVE  Inside(s, n + 1, End(n, f))
<1>1. PICK k \in Nat : k = End(n, f) /\ n <= k
  BY EndType
<1>2. \A m \in n + 1 .. k : s.text[m] \in JoinWords => Depth(s.text, m) > Depth(s.text, n)
  BY <1>1 DEF Closed, JoinWords
<1>3. (n + 1) - 1 = n /\ \A m \in n + 1 .. k : m \in Nat
  OBVIOUS
<1>4. \A m \in Nat : Depth(s.text, m) \in Int
  BY DepthNext
<1>5. \A m \in n + 1 .. k : s.text[m] \in JoinWords => Depth(s.text, m) # Depth(s.text, (n + 1) - 1)
  BY <1>2, <1>3, <1>4
<1> QED
  BY <1>1, <1>5 DEF Inside

\* A comparison is read as it is, with the value bound to its placeholder.
LEMMA CompareSense ==
  ASSUME NEW c \in Columns, NEW op \in Operators, NEW v \in Values,
         NEW s \in Statement, NEW n \in Nat, NEW read, IsNumbered(s), Reads(read, s),
         At(s, n, CompareSql(c, op, v))
  PROVE  Between(read, n + 1, End(n, CompareSql(c, op, v))) = Compare(c, op, v)
<1> DEFINE f == CompareSql(c, op, v)
<1>1. f \in Fragment /\ End(n, f) = n + 5
  BY CompareAt DEF CompareSql
<1>2. /\ s.text[n + 1] = "(" /\ s.text[n + 2] = c /\ s.text[n + 3] = op /\ s.text[n + 4] = "?"
      /\ Count(s.text, "?", n + 4) = Count(s.text, "?", n) + 1
      /\ s.params[Count(s.text, "?", n) + 1] = v
      /\ \A m \in n + 1 .. n + 4 : Depth(s.text, m) = Depth(s.text, n) + 1
      /\ Closed(s, n, f)
  BY CompareAt DEF CompareSql
<1>3. n + 5 <= Len(s.text) /\ Len(s.text) \in Nat
  BY <1>1 DEF At, Statement
<1> HIDE DEF f
<1>4. PICK lo \in Nat, hi \in Nat : lo = n + 1 /\ hi = n + 5
  OBVIOUS
<1>5. Inside(s, lo, hi)
  BY <1>1, <1>2, <1>4, ClosedInside
<1>6. Between(read, lo, hi) = Between(read, lo + 1, hi - 1)
  <2>1. s.text[lo] = "(" /\ 1 <= lo /\ lo <= hi /\ hi <= Len(s.text)
    BY <1>2, <1>3, <1>4
  <2> QED
    BY <1>5, <2>1, UnjoinedGroup
<1>7. PICK a \in Nat, b \in Nat : a = lo + 1 /\ b = hi - 1
  BY <1>4
<1>8. c \notin JoinWords /\ op \notin JoinWords /\ "?" \notin JoinWords
  BY NameFacts DEF JoinWords, Reserved
<1>9. Inside(s, a, b)
  <2>1. \A m \in a .. b : m = n + 2 \/ m = n + 3 \/ m = n + 4
    BY <1>4, <1>7
  <2> QED
    BY <1>2, <1>8, <2>1 DEF Inside
<1>10. s.text[a] = c /\ s.text[a + 1] = op /\ 1 <= a /\ a < b /\ b <= Len(s.text) /\ a + 2 = n + 4
  <2>1. a = n + 2 /\ a + 1 = n + 3
    BY <1>4, <1>7
  <2>2. 1 <= a /\ a < b /\ b <= Len(s.text) /\ a + 2 = n + 4
    BY <1>3, <1>4, <1>7
  <2> QED
    BY <1>2, <2>1, <2>2
<1>11. /\ s.text[a] # "NOT" /\ s.text[a] # "("
       /\ s.text[a + 1] # "IS NULL" /\ s.text[a + 1] # "IS NOT NULL"
  BY <1>10, NameFacts DEF Reserved
<1>12. Between(read, a, b) = Compare(c, op, Value(s, n + 4))
  <2>1. Between(read, a, b) =
           IF s.text[a + 1] = "IS NULL" THEN IsNull(s.text[a])
           ELSE IF s.text[a + 1] = "IS NOT NULL" THEN IsNotNull(s.text[a])
           ELSE Compare(s.text[a], s.text[a + 1], Value(s, a + 2))
    BY <1>9, <1>10, <1>11, UnjoinedMore
  <2>2. Between(read, a, b) = Compare(s.text[a], s.text[a + 1], Value(s, a + 2))
    BY <1>11, <2>1
  <2> QED
    BY <1>10, <2>2
<1>13. Value(s, n + 4) = v
  <2>1. n + 4 \in 1 .. Len(s.text)
    BY <1>3
  <2>2. s.numbers[n + 4] = Count(s.text, "?", n) + 1
    BY <1>2, <2>1 DEF IsNumbered
  <2> QED
    BY <1>2, <2>2 DEF Value
<1>14. Between(read, n + 1, n + 5) = Compare(c, op, v)
  BY <1>4, <1>6, <1>7, <1>12, <1>13
<1> QED
  BY <1>1, <1>14 DEF f

\* The text of a null test.
NullSql(c, w) == Words(<<"(", c, w, ")">>)

\* A null test is read as it is.
LEMMA NullSense ==
  ASSUME NEW c \in Columns, NEW w \in NullTests,
         NEW s \in Statement, NEW n \in Nat, NEW read, Reads(read, s), At(s, n, NullSql(c, w))
  PROVE  Between(read, n + 1, End(n, NullSql(c, w))) = IF w = "IS NULL" THEN IsNull(c) ELSE IsNotNull(c)
<1> DEFINE f == NullSql(c, w)
<1>1. f \in Fragment /\ End(n, f) = n + 4
  BY NullAt DEF NullSql
<1>2. /\ s.text[n + 1] = "(" /\ s.text[n + 2] = c /\ s.text[n + 3] = w
      /\ Closed(s, n, f)
  BY NullAt DEF NullSql
<1>3. n + 4 <= Len(s.text) /\ Len(s.text) \in Nat
  BY <1>1 DEF At, Statement
<1> HIDE DEF f
<1>4. PICK lo \in Nat, hi \in Nat : lo = n + 1 /\ hi = n + 4
  OBVIOUS
<1>5. Inside(s, lo, hi)
  BY <1>1, <1>2, <1>4, ClosedInside
<1>6. Between(read, lo, hi) = Between(read, lo + 1, hi - 1)
  <2>1. s.text[lo] = "(" /\ 1 <= lo /\ lo <= hi /\ hi <= Len(s.text)
    BY <1>2, <1>3, <1>4
  <2> QED
    BY <1>5, <2>1, UnjoinedGroup
<1>7. PICK a \in Nat, b \in Nat : a = lo + 1 /\ b = hi - 1
  BY <1>4
<1>8. c \notin JoinWords /\ w \notin JoinWords
  BY NameFacts DEF JoinWords, Reserved, NullTests
<1>9. Inside(s, a, b)
  <2>1. \A m \in a .. b : m = n + 2 \/ m = n + 3
    BY <1>4, <1>7
  <2> QED
    BY <1>2, <1>8, <2>1 DEF Inside
<1>10. s.text[a] = c /\ s.text[a + 1] = w /\ 1 <= a /\ a < b /\ b <= Len(s.text)
  <2>1. a = n + 2 /\ a + 1 = n + 3
    BY <1>4, <1>7
  <2>2. 1 <= a /\ a < b /\ b <= Len(s.text)
    BY <1>3, <1>4, <1>7
  <2> QED
    BY <1>2, <2>1, <2>2
<1>11. s.text[a] # "NOT" /\ s.text[a] # "("
  BY <1>10, NameFacts DEF Reserved
<1>12. Between(read, a, b) = IF w = "IS NULL" THEN IsNull(c) ELSE IsNotNull(c)
  <2>1. Between(read, a, b) =
           IF s.text[a + 1] = "IS NULL" THEN IsNull(s.text[a])
           ELSE IF s.text[a + 1] = "IS NOT NULL" THEN IsNotNull(s.text[a])
           ELSE Compare(s.text[a], s.text[a + 1], Value(s, a + 2))
    BY <1>9, <1>10, <1>11, UnjoinedMore
  <2> QED
    BY <1>10, <2>1 DEF NullTests
<1>13. Between(read, n + 1, n + 4) = IF w = "IS NULL" THEN IsNull(c) ELSE IsNotNull(c)
  BY <1>4, <1>6, <1>7, <1>12
<1> QED
  BY <1>1, <1>13 DEF f

\* The expression that is always true is read as it is.
LEMMA OneSense ==
  ASSUME NEW s \in Statement, NEW n \in Nat, NEW read, Reads(read, s), At(s, n, Words(<<"1">>))
  PROVE  Between(read, n + 1, End(n, Words(<<"1">>))) = True
<1> DEFINE f == Words(<<"1">>)
<1>1. "1" \in Word /\ "1" \notin Keywords \cup {"(", ")", "?"} /\ "1" \notin {"AND", "OR"}
  BY NameFacts DEF Reserved, Keywords
<1>2. f \in Fragment /\ End(n, f) = n + 1 /\ s.text[n + 1] = "1" /\ Closed(s, n, f)
  BY <1>1, WordAt, NeatWord
<1>3. n + 1 <= Len(s.text)
  BY <1>2 DEF At
<1> HIDE DEF f
<1>4. PICK lo \in Nat, hi \in Nat : lo = n + 1 /\ hi = lo
  OBVIOUS
<1>5. Inside(s, lo, hi)
  BY <1>2, <1>4, ClosedInside
<1>6. s.text[lo] # "NOT" /\ s.text[lo] # "(" /\ 1 <= lo /\ lo = hi /\ hi <= Len(s.text)
  BY <1>2, <1>3, <1>4
<1>7. Between(read, lo, hi) = True
  BY <1>5, <1>6, UnjoinedOne
<1> QED
  BY <1>2, <1>4, <1>7 DEF f

\* Two closed fragments with a word between them, wherever they stand.
IsClosed(f) ==
  f \in Fragment /\ \A s \in Statement, n \in Nat : At(s, n, f) => Closed(s, n, f)

\* The parts of two closed fragments with AND or OR between them.
LEMMA JoinedParts ==
  ASSUME NEW f, NEW g, IsClosed(f), IsClosed(g), NEW w \in JoinWords,
         NEW s \in Statement, NEW n \in Nat, At(s, n, Joined(f, w, g))
  PROVE  /\ At(s, n, f) /\ Closed(s, n, f)
         /\ End(n, f) \in Nat
         /\ At(s, End(n, f) + 1, g) /\ Closed(s, End(n, f) + 1, g)
         /\ End(n, Joined(f, w, g)) = End(End(n, f) + 1, g)
         /\ Joined(f, w, g) \in Fragment
         /\ Neat(s, n, Joined(f, w, g))
<1>1. f \in Fragment /\ g \in Fragment
  BY DEF IsClosed
<1>2. w \in Word /\ w # "?" /\ w \notin Keywords \cup {"(", ")", "?"}
  BY NameFacts DEF JoinWords, Reserved, Keywords
<1>3. At(s, n, f)
  <2>1. At(s, n, Put(Put(f, Words(<<w>>)), g))
    BY DEF Joined
  <2>2. Words(<<w>>) \in Fragment
    BY <1>2, WordAt
  <2>3. Put(f, Words(<<w>>)) \in Fragment
    BY <1>1, <2>2, AtPut
  <2>4. At(s, n, Put(f, Words(<<w>>)))
    BY <1>1, <2>1, <2>3, AtPut
  <2> QED
    BY <1>1, <2>2, <2>4, AtPut
<1>4. Closed(s, n, f)
  BY <1>3 DEF IsClosed
<1>5. Binds(s, n, f) /\ Neat(s, n, f)
  BY <1>4 DEF Closed, Neat
<1>6. End(n, f) \in Nat /\ End(n, f) + 1 \in Nat
  BY <1>1, EndType
<1>7. At(s, End(n, f) + 1, g)
  BY <1>1, <1>2, <1>5, JoinedAt
<1>8. Closed(s, End(n, f) + 1, g)
  BY <1>6, <1>7 DEF IsClosed
<1>9. Neat(s, End(n, f) + 1, g)
  BY <1>8 DEF Closed
<1>10. Neat(s, n, Joined(f, w, g))
  BY <1>1, <1>2, <1>5, <1>9, NeatJoined
<1>11. Joined(f, w, g) \in Fragment /\ End(n, Joined(f, w, g)) = End(End(n, f) + 1, g)
  BY <1>1, <1>2, JoinedAt
<1> QED
  BY <1>3, <1>4, <1>6, <1>7, <1>8, <1>10, <1>11

\* The text of an expression is closed in every statement it stands in.
LEMMA ShapeClosed ==
  ASSUME NEW e \in Expressions
  PROVE  IsClosed(ExprSql(e))
BY ExprShape DEF HasShape, IsClosed

\* A NOT is read as it is if its operand is.
LEMMA NotSense ==
  ASSUME NEW x \in Expressions, HasSense(x), NEW e \in Expressions,
         ExprSql(e) = Put(Words(<<"NOT">>), Grouped(ExprSql(x))), e = Not(x)
  PROVE  HasSense(e)
<1> DEFINE f == ExprSql(x)
           g == Grouped(f)
           h == Put(Words(<<"NOT">>), g)
<1>1. IsClosed(f) /\ f \in Fragment
  BY ShapeClosed DEF IsClosed
<1>2. IsClosed(h) /\ h \in Fragment
  BY ShapeClosed DEF IsClosed
<1>3. g \in Fragment
  BY <1>1, GroupedAt
<1>4. "NOT" \in Word /\ "NOT" # "?"
  BY NameFacts DEF Reserved
<1>5. ASSUME NEW s \in Statement, NEW n \in Nat, NEW read, IsNumbered(s), Reads(read, s), At(s, n, h)
      PROVE  Between(read, n + 1, End(n, h)) = Not(x)
  <2>1. PICK lo \in Nat, a \in Nat : lo = n + 1 /\ a = lo + 1
    OBVIOUS
  <2>2. /\ s.text[n + 1] = "NOT" /\ At(s, n + 1, g)
        /\ End(n, h) = End(n + 1, g)
    BY <1>3, <1>4, <1>5, LedAt
  <2>3. s.text[lo] = "NOT" /\ At(s, lo, g) /\ End(n, h) = End(lo, g)
    BY <2>1, <2>2
  <2>4. At(s, a, f)
    <3>1. At(s, lo + 1, f)
      BY <1>1, <2>3, GroupedAt
    <3> QED
      BY <2>1, <3>1
  <2>5. Closed(s, a, f) /\ Neat(s, lo + 1, f)
    BY <1>1, <2>1, <2>4 DEF IsClosed, Closed
  <2>6. Between(read, lo + 1, End(lo, g)) = Between(read, lo + 2, End(lo + 1, f))
    BY <1>1, <1>5, <2>3, <2>5, GroupedRead
  <2>7. Between(read, a + 1, End(a, f)) = x
    BY <1>5, <2>4 DEF HasSense
  <2>8. PICK hi \in Nat : hi = End(lo, g) /\ lo <= hi /\ hi <= Len(s.text)
    <3>1. End(lo, g) \in Nat /\ lo <= End(lo, g)
      BY <1>3, EndType
    <3>2. End(lo, g) <= Len(s.text)
      BY <2>3 DEF At
    <3> QED
      BY <3>1, <3>2
  <2>9. Inside(s, lo, hi)
    <3>1. Closed(s, n, h)
      BY <1>2, <1>5 DEF IsClosed
    <3>2. Inside(s, n + 1, End(n, h))
      BY <1>2, <3>1, ClosedInside
    <3> QED
      BY <2>1, <2>3, <2>8, <3>2
  <2>10. Between(read, lo, hi) = Not(Between(read, lo + 1, hi))
    <3>1. 1 <= lo
      BY <2>1
    <3> HIDE DEF f, g, h
    <3> QED
      BY <1>5, <2>3, <2>8, <2>9, <3>1, UnjoinedNot
  <2>11. Between(read, lo + 1, hi) = x
    <3>1. lo + 2 = a + 1
      BY <2>1
    <3> HIDE DEF f, g, h
    <3> QED
      BY <2>1, <2>6, <2>7, <2>8, <3>1
  <2> HIDE DEF f, g, h
  <2> QED
    BY <2>1, <2>3, <2>8, <2>10, <2>11
<1> HIDE DEF h
<1> QED
  BY <1>5 DEF HasSense, h

\* An AND or an OR is read as it is if its operands are.
LEMMA JoinedSense ==
  ASSUME NEW x \in Expressions, NEW y \in Expressions, HasSense(x), HasSense(y), NEW w \in JoinWords,
         NEW e, ExprSql(e) = Grouped(Joined(ExprSql(x), w, ExprSql(y))),
         e = IF w = "OR" THEN Or(x, y) ELSE And(x, y)
  PROVE  HasSense(e)
<1> DEFINE f == ExprSql(x)
           g == ExprSql(y)
           j == Joined(f, w, g)
<1>1. IsClosed(f) /\ IsClosed(g) /\ f \in Fragment /\ g \in Fragment
  BY ShapeClosed DEF IsClosed
<1>2. ASSUME NEW s \in Statement, NEW n \in Nat, NEW read, IsNumbered(s), Reads(read, s), At(s, n, Grouped(j))
      PROVE  Between(read, n + 1, End(n, Grouped(j))) = e
  <2>1. PICK lo \in Nat : lo = n + 1
    OBVIOUS
  <2>2. j \in Fragment
    <3>1. w \in Word
      BY NameFacts DEF JoinWords, Reserved
    <3> QED
      BY <1>1, <3>1, JoinedAt
  <2>3. At(s, lo, j)
    <3>1. At(s, n + 1, j)
      BY <1>2, <2>2, GroupedAt
    <3> QED
      BY <2>1, <3>1
  <2> HIDE DEF f, g
  <2>4. /\ At(s, lo, f) /\ Closed(s, lo, f) /\ End(lo, f) \in Nat
        /\ At(s, End(lo, f) + 1, g) /\ Closed(s, End(lo, f) + 1, g)
        /\ End(lo, j) = End(End(lo, f) + 1, g)
        /\ Neat(s, lo, j)
    BY <1>1, <2>3, JoinedParts
  <2>5. PICK k \in Nat : k = End(lo, f) + 1
    BY <2>4
  <2>6. Between(read, lo + 1, End(lo, f)) = x
    BY <1>2, <2>4 DEF HasSense, f
  <2>7. Between(read, End(lo, f) + 2, End(lo, j)) = y
    <3>1. Between(read, k + 1, End(k, g)) = y
      BY <1>2, <2>4, <2>5 DEF HasSense, g
    <3>2. k + 1 = End(lo, f) + 2
      BY <2>4, <2>5
    <3> HIDE DEF j
    <3> QED
      BY <2>4, <2>5, <3>1, <3>2
  <2>8. Between(read, lo + 1, End(lo, j)) = IF w = "OR" THEN Or(x, y) ELSE And(x, y)
    BY <1>1, <1>2, <2>3, <2>4, <2>6, <2>7, JoinedRead
  <2>9. Between(read, n + 1, End(n, Grouped(j))) = Between(read, n + 2, End(n + 1, j))
    <3>1. Neat(s, n + 1, j)
      BY <2>1, <2>4
    <3> HIDE DEF j
    <3> QED
      BY <1>2, <2>2, <3>1, GroupedRead
  <2>10. n + 2 = lo + 1
    BY <2>1
  <2> HIDE DEF j
  <2> QED
    BY <2>1, <2>8, <2>9, <2>10
<1> HIDE DEF j
<1> QED
  BY <1>2 DEF HasSense, j

\* What the database reads is what the author wrote.
LEMMA ExprSense ==
  ASSUME NEW e \in Expressions
  PROVE  HasSense(e)
<1> DEFINE H == {x \in Expressions : HasSense(x)}
<1>1. ASSUME NEW x \in Expressions, From(H \cap Expressions, x)
      PROVE  x \in H
  <2>1. ASSUME NEW y \in H, x = Not(y)
        PROVE  HasSense(x)
    <3>1. ExprSql(x) = Put(Words(<<"NOT">>), Grouped(ExprSql(y)))
      BY <2>1, ExprSqlIs
    <3> QED
      BY <2>1, <3>1, NotSense
  <2>2. "AND" \in JoinWords /\ "OR" \in JoinWords /\ "AND" # "OR"
    BY DEF JoinWords
  <2>3. ASSUME NEW y \in H, NEW z \in H, x = And(y, z)
        PROVE  HasSense(x)
    <3>1. ExprSql(x) = Grouped(Joined(ExprSql(y), "AND", ExprSql(z)))
      BY <2>3, ExprSqlIs
    <3>2. x = IF "AND" = "OR" THEN Or(y, z) ELSE And(y, z)
      BY <2>2, <2>3
    <3> QED
      BY <2>2, <3>1, <3>2, JoinedSense
  <2>4. ASSUME NEW y \in H, NEW z \in H, x = Or(y, z)
        PROVE  HasSense(x)
    <3>1. ExprSql(x) = Grouped(Joined(ExprSql(y), "OR", ExprSql(z)))
      BY <2>4, ExprSqlIs
    <3>2. x = IF "OR" = "OR" THEN Or(y, z) ELSE And(y, z)
      BY <2>4
    <3> QED
      BY <2>2, <3>1, <3>2, JoinedSense
  <2> QED
    BY <1>1, <2>1, <2>3, <2>4 DEF From
<1>2. ASSUME NEW x \in Atoms
      PROVE  x \in H
  <2>1. x \in Expressions /\ AtomForm(x)
    BY AtomsInside, Atomic
  <2>2. ASSUME NEW c \in Columns, NEW op \in Operators, NEW v \in Values, x = Compare(c, op, v)
        PROVE  HasSense(x)
    <3>1. ExprSql(x) = CompareSql(c, op, v)
      <4>1. \A a, b, d : Compare(a, b, d) \in Expressions => ExprSql(Compare(a, b, d)) = CompareSql(a, b, d)
        BY ExprSqlIs
      <4> QED
        BY <2>1, <2>2, <4>1
    <3> QED
      BY <2>2, <3>1, CompareSense DEF HasSense
  <2>3. "IS NULL" \in NullTests /\ "IS NOT NULL" \in NullTests /\ "IS NULL" # "IS NOT NULL"
    BY DEF NullTests
  <2>4. ASSUME NEW c \in Columns, x = IsNull(c)
        PROVE  HasSense(x)
    <3>1. ExprSql(x) = NullSql(c, "IS NULL")
      BY <2>1, <2>4, ExprSqlIs DEF NullSql
    <3> QED
      BY <2>3, <2>4, <3>1, NullSense DEF HasSense
  <2>5. ASSUME NEW c \in Columns, x = IsNotNull(c)
        PROVE  HasSense(x)
    <3>1. ExprSql(x) = NullSql(c, "IS NOT NULL")
      BY <2>1, <2>5, ExprSqlIs DEF NullSql
    <3> QED
      BY <2>3, <2>5, <3>1, NullSense DEF HasSense
  <2>6. ASSUME x = True
        PROVE  HasSense(x)
    <3>1. ExprSql(x) = Words(<<"1">>)
      BY <2>1, <2>6, ExprSqlIs
    <3> QED
      BY <2>6, <3>1, OneSense DEF HasSense
  <2> QED
    BY <2>1, <2>2, <2>4, <2>5, <2>6 DEF AtomForm
<1>3. Expressions \subseteq H
  <2> HIDE DEF H
  <2>1. Atoms \subseteq H
    BY <1>2
  <2> QED
    BY <1>1, <2>1, ExprInduction, RangesAssumption DEF Expressions
<1> QED
  BY <1>3

-----------------------------------------------------------------------------
(* The expression that is always true *)

\* The fragment has no 1.
NoOne(f) == \A m \in 1 .. Len(f.text) : f.text[m] # "1"

\* The token 1 comes from a fragment that has it, and from no other:
LEMMA NoOnePut ==
  ASSUME NEW f \in Fragment, NEW g \in Fragment, NoOne(f), NoOne(g)
  PROVE  NoOne(Put(f, g))
<1> DEFINE a == f.text
           b == g.text
<1>1. a \in Seq(Word) /\ b \in Seq(Word) /\ Put(f, g).text = a \o b
  BY DEF Fragment, Put
<1>2. \A m \in 1 .. Len(a) : a[m] # "1"
  BY DEF NoOne
<1>3. \A m \in 1 .. Len(b) : b[m] # "1"
  BY DEF NoOne
<1> HIDE DEF a, b
<1>4. \A m \in 1 .. Len(a \o b) : (a \o b)[m] # "1"
  BY <1>1, <1>2, <1>3
<1> QED
  BY <1>1, <1>4 DEF NoOne

\* ... not from a word,
LEMMA NoOneWord ==
  ASSUME NEW w \in Word, w # "1"
  PROVE  NoOne(Words(<<w>>)) /\ Words(<<w>>) \in Fragment
<1>1. Words(<<w>>).text = <<w>>
  BY DEF Words
<1>2. NoOne(Words(<<w>>))
  BY <1>1 DEF NoOne
<1> QED
  BY <1>2, WordAt

\* ... nor from parentheses,
LEMMA NoOneGrouped ==
  ASSUME NEW f \in Fragment, NoOne(f)
  PROVE  NoOne(Grouped(f)) /\ Grouped(f) \in Fragment
<1> DEFINE l == Words(<<"(">>)
           r == Words(<<")">>)
<1>1. "(" \in Word /\ ")" \in Word /\ "(" # "1" /\ ")" # "1"
  BY NameFacts DEF Reserved
<1>2. l \in Fragment /\ NoOne(l) /\ r \in Fragment /\ NoOne(r)
  BY <1>1, NoOneWord
<1> HIDE DEF l, r
<1>3. Put(l, f) \in Fragment /\ NoOne(Put(l, f))
  BY <1>2, AtPut, NoOnePut
<1>4. Put(Put(l, f), r) \in Fragment /\ NoOne(Put(Put(l, f), r))
  BY <1>2, <1>3, AtPut, NoOnePut
<1> QED
  BY <1>4 DEF Grouped, l, r

\* ... nor from AND and OR.
LEMMA NoOneJoined ==
  ASSUME NEW f \in Fragment, NoOne(f), NEW g \in Fragment, NoOne(g), NEW w \in Word, w # "1"
  PROVE  NoOne(Joined(f, w, g)) /\ Joined(f, w, g) \in Fragment
<1> DEFINE h == Words(<<w>>)
<1>1. h \in Fragment /\ NoOne(h)
  BY NoOneWord
<1> HIDE DEF h
<1>2. Put(f, h) \in Fragment /\ NoOne(Put(f, h))
  BY <1>1, AtPut, NoOnePut
<1>3. Put(Put(f, h), g) \in Fragment /\ NoOne(Put(Put(f, h), g))
  BY <1>2, AtPut, NoOnePut
<1> QED
  BY <1>3 DEF Joined, h

\* An expression without the one that is always true is an expression.
LEMMA PlainInside ==
  Plain \subseteq Expressions
<1> DEFINE atoms == Atoms \ {True}
<1>1. PICK small : IsBuilt(small, atoms, MaxDepth) /\ Plain = small[MaxDepth]
  BY ExprLevels, RangesAssumption DEF Plain
<1>2. PICK big : IsBuilt(big, Atoms, MaxDepth) /\ Expressions = big[MaxDepth]
  BY ExprLevels, RangesAssumption DEF Expressions
<1>3. MaxDepth \in Nat
  BY RangesAssumption
<1> DEFINE H == {d \in 0 .. MaxDepth : small[d] \subseteq big[d]}
<1>4. 0 \in H
  BY <1>1, <1>2, <1>3 DEF IsBuilt
<1>5. ASSUME NEW d \in 1 .. MaxDepth, d - 1 \in H
      PROVE  d \in H
  <2>1. small[d] = Deeper(small[d - 1]) /\ big[d] = Deeper(big[d - 1])
    BY <1>1, <1>2 DEF IsBuilt
  <2>2. small[d - 1] \subseteq big[d - 1]
    BY <1>5
  <2>3. Deeper(small[d - 1]) \subseteq Deeper(big[d - 1])
    BY <2>2 DEF Deeper
  <2> QED
    BY <1>3, <2>1, <2>3
<1>6. MaxDepth \in H
  <2>1. \A d \in 1 .. MaxDepth : d - 1 \in H => d \in H
    BY <1>5
  <2> HIDE DEF H
  <2> QED
    BY <1>3, <1>4, <2>1, Induction
<1> QED
  BY <1>1, <1>2, <1>6

\* Only the expression that is always true has a 1 in its text.
LEMMA PlainNoOne ==
  ASSUME NEW e \in Plain
  PROVE  NoOne(ExprSql(e))
<1> DEFINE atoms == Atoms \ {True}
           H == {x \in Plain : NoOne(ExprSql(x))}
<1>1. \A x \in Plain : x \in Expressions /\ ExprSql(x) \in Fragment
  BY PlainInside, ExprShape DEF HasShape
<1>2. ASSUME NEW x \in Plain, From(H \cap Plain, x)
      PROVE  x \in H
  <2>1. x \in Expressions
    BY <1>1
  <2>2. ASSUME NEW y \in H, x = Not(y)
        PROVE  NoOne(ExprSql(x))
    <3>1. ExprSql(y) \in Fragment /\ NoOne(ExprSql(y)) /\ y \in Expressions
      BY <1>1
    <3>2. ExprSql(x) = Put(Words(<<"NOT">>), Grouped(ExprSql(y)))
      BY <2>1, <2>2, <3>1, ExprSqlIs
    <3>3. NoOne(Grouped(ExprSql(y))) /\ Grouped(ExprSql(y)) \in Fragment
      BY <3>1, NoOneGrouped
    <3>4. "NOT" \in Word /\ "NOT" # "1"
      BY NameFacts DEF Reserved
    <3> QED
      BY <3>2, <3>3, <3>4, NoOneWord, NoOnePut
  <2>3. ASSUME NEW y \in H, NEW z \in H, x = And(y, z) \/ x = Or(y, z)
        PROVE  NoOne(ExprSql(x))
    <3>1. /\ ExprSql(y) \in Fragment /\ NoOne(ExprSql(y)) /\ y \in Expressions
          /\ ExprSql(z) \in Fragment /\ NoOne(ExprSql(z)) /\ z \in Expressions
      BY <1>1
    <3>2. \/ ExprSql(x) = Grouped(Joined(ExprSql(y), "AND", ExprSql(z)))
          \/ ExprSql(x) = Grouped(Joined(ExprSql(y), "OR", ExprSql(z)))
      BY <2>1, <2>3, <3>1, ExprSqlIs
    <3>3. ASSUME NEW w \in JoinWords
          PROVE  NoOne(Grouped(Joined(ExprSql(y), w, ExprSql(z))))
      <4>1. w \in Word /\ w # "1"
        BY NameFacts DEF JoinWords, Reserved
      <4>2. /\ NoOne(Joined(ExprSql(y), w, ExprSql(z)))
            /\ Joined(ExprSql(y), w, ExprSql(z)) \in Fragment
        BY <3>1, <4>1, NoOneJoined
      <4> QED
        BY <4>2, NoOneGrouped
    <3>4. "AND" \in JoinWords /\ "OR" \in JoinWords
      BY DEF JoinWords
    <3> QED
      BY <3>2, <3>3, <3>4
  <2> QED
    BY <1>2, <2>2, <2>3 DEF From
<1>3. ASSUME NEW x \in atoms
      PROVE  x \in H
  <2>1. x \in Plain
    <3>1. PICK built : IsBuilt(built, atoms, MaxDepth) /\ Plain = built[MaxDepth]
      BY ExprLevels, RangesAssumption DEF Plain
    <3>2. MaxDepth \in Nat /\ MaxDepth \in 0 .. MaxDepth
      BY RangesAssumption
    <3>3. atoms \subseteq built[MaxDepth]
      <4> HIDE DEF atoms
      <4> QED
        BY <3>1, <3>2, Levels
    <3> QED
      BY <3>1, <3>3
  <2>2. x \in Expressions /\ AtomForm(x) /\ x # True
    BY <1>1, <2>1, Atomic
  <2>3. ASSUME NEW c \in Columns, NEW op \in Operators, NEW v \in Values, x = Compare(c, op, v)
        PROVE  NoOne(ExprSql(x))
    <3>1. ExprSql(x) = CompareSql(c, op, v)
      <4>1. \A a, b, d : Compare(a, b, d) \in Expressions => ExprSql(Compare(a, b, d)) = CompareSql(a, b, d)
        BY ExprSqlIs
      <4> QED
        BY <2>2, <2>3, <4>1
    <3>2. c # "1" /\ op # "1" /\ "(" # "1" /\ ")" # "1" /\ "?" # "1"
      BY NameFacts DEF Reserved
    <3>3. ExprSql(x).text = <<"(", c, op, "?", ")">>
      BY <3>1 DEF CompareSql, Bind
    <3> QED
      BY <3>2, <3>3 DEF NoOne
  <2>4. ASSUME NEW c \in Columns, NEW w \in NullTests, ExprSql(x) = NullSql(c, w)
        PROVE  NoOne(ExprSql(x))
    <3>1. c # "1" /\ w # "1" /\ "(" # "1" /\ ")" # "1"
      BY NameFacts DEF Reserved, NullTests
    <3>2. ExprSql(x).text = <<"(", c, w, ")">>
      BY <2>4 DEF NullSql, Words
    <3> QED
      BY <3>1, <3>2 DEF NoOne
  <2>5. ASSUME NEW c \in Columns, x = IsNull(c) \/ x = IsNotNull(c)
        PROVE  NoOne(ExprSql(x))
    <3>1. ExprSql(x) = NullSql(c, "IS NULL") \/ ExprSql(x) = NullSql(c, "IS NOT NULL")
      BY <2>2, <2>5, ExprSqlIs DEF NullSql
    <3>2. "IS NULL" \in NullTests /\ "IS NOT NULL" \in NullTests
      BY DEF NullTests
    <3> QED
      BY <2>4, <3>1, <3>2
  <2> QED
    BY <2>1, <2>2, <2>3, <2>5 DEF AtomForm
<1>4. Plain \subseteq H
  <2> HIDE DEF H, atoms
  <2>1. atoms \subseteq H
    BY <1>3
  <2>2. Plain = Expr(atoms, MaxDepth) /\ MaxDepth \in Nat
    BY RangesAssumption DEF Plain, atoms
  <2> QED
    BY <1>2, <2>1, <2>2, ExprInduction
<1> QED
  BY <1>4

-----------------------------------------------------------------------------
(* Clauses *)

\* The tokens of a text behind the first ones, up to a place, under a keyword.
Clause(from, to, word) == [from |-> from, to |-> to, word |-> word]

\* The tokens of a clause, if it has any, are its keyword and others that are not.
IsClause(t, c) ==
  /\ c.from \in Nat /\ c.to \in Nat /\ c.word \in Keywords
  /\ c.from <= c.to /\ c.to <= Len(t)
  /\ c.from < c.to => t[c.from + 1] = c.word
  /\ \A m \in c.from + 2 .. c.to : t[m] \notin Keywords

\* A text is made of clauses, each with a keyword of its own.
IsLayout(t, C) ==
  /\ \A c \in C : IsClause(t, c)
  /\ \A c, d \in C : c.word = d.word => c = d
  /\ \A m \in 1 .. Len(t) : \E c \in C : c.from < m /\ m <= c.to

\* Where a keyword is.
LEMMA KeywordIs ==
  ASSUME NEW t \in Seq(Word), NEW C, IsLayout(t, C), NEW m \in 1 .. Len(t), t[m] \in Keywords
  PROVE  \E c \in C : m = c.from + 1 /\ c.from < c.to /\ t[m] = c.word
<1>1. PICK c \in C : c.from < m /\ m <= c.to
  BY DEF IsLayout
<1>2. IsClause(t, c)
  BY DEF IsLayout
<1>3. m = c.from + 1
  BY <1>1, <1>2 DEF IsClause
<1>4. c.from < c.to /\ t[m] = c.word
  BY <1>1, <1>2, <1>3 DEF IsClause
<1> QED
  BY <1>3, <1>4

\* The least element of a set of places.
LEMMA Least ==
  ASSUME NEW top \in Nat, NEW S, S \subseteq 0 .. top, S # {}
  PROVE  Min(S) \in S /\ Min(S) \in Nat /\ \A n \in S : Min(S) <= n
<1>1. 0 \in Nat
  OBVIOUS
<1>2. Min(S) \in S /\ \A n \in S : Min(S) <= n
  BY <1>1, Extremes
<1> DEFINE m == Min(S)
<1>3. m \in 0 .. top
  BY <1>2
<1> HIDE DEF m
<1>4. m \in Nat
  BY <1>3
<1> QED
  BY <1>2, <1>4 DEF m

\* The place of a word that the text has once.
LEMMA PlaceIs ==
  ASSUME NEW t \in Seq(Word), NEW w, NEW p \in 1 .. Len(t), {m \in 1 .. Len(t) : t[m] = w} = {p}
  PROVE  Place(t, w) = p
<1>1. Min({p}) = p
  <2>1. Len(t) \in Nat
    OBVIOUS
  <2>2. p \in Nat /\ {p} \subseteq 0 .. p /\ {p} # {}
    BY <2>1
  <2>3. Min({p}) \in {p}
    BY <2>2, Least
  <2> QED
    BY <2>3
<1>2. Place(t, w) = IF {m \in 1 .. Len(t) : t[m] = w} # {} THEN Min({m \in 1 .. Len(t) : t[m] = w}) ELSE 0
  BY DEF Place, SelectInSeq
<1> QED
  BY <1>1, <1>2

\* A text has a word at some place.
LEMMA HasIs ==
  ASSUME NEW t \in Seq(Word), NEW w
  PROVE  Has(t, w) <=> \E m \in 1 .. Len(t) : t[m] = w
<1>1. DOMAIN t = 1 .. Len(t)
  OBVIOUS
<1> QED
  BY <1>1 DEF Has, Range

\* A clause that is given is found from its first token to its last one.
LEMMA ClauseIs ==
  ASSUME NEW t \in Seq(Word), NEW C, IsLayout(t, C), NEW c \in C, c.from < c.to
  PROVE  /\ Has(t, c.word)
         /\ Place(t, c.word) = c.from + 1
         /\ FirstOf(t, c.word) = c.from + 2
         /\ LastOf(t, c.word) = c.to
<1> DEFINE L == Len(t)
           from == c.from
           to == c.to
           w == c.word
<1>1. L \in Nat
  OBVIOUS
<1>2. IsClause(t, c)
  BY DEF IsLayout
<1>3. /\ from \in Nat /\ to \in Nat /\ w \in Keywords /\ from < to /\ to <= L /\ t[from + 1] = w
      /\ \A m \in from + 2 .. to : t[m] \notin Keywords
  BY <1>2 DEF IsClause
<1>4. from + 1 \in 1 .. L
  <2> HIDE DEF L, from, to
  <2> QED
    BY <1>1, <1>3
<1>5. Has(t, w)
  BY <1>3, <1>4, HasIs
<1>6. ASSUME NEW m \in 1 .. L, t[m] = w
      PROVE  m = from + 1
  <2>1. PICK d \in C : m = d.from + 1 /\ d.from < d.to /\ t[m] = d.word
    <3>1. t[m] \in Keywords
      BY <1>3, <1>6
    <3> QED
      BY <3>1, KeywordIs
  <2>2. d = c
    BY <1>6, <2>1 DEF IsLayout
  <2> QED
    BY <2>1, <2>2
<1>7. Place(t, w) = from + 1
  <2>1. {m \in 1 .. L : t[m] = w} = {from + 1}
    BY <1>3, <1>4, <1>6
  <2> QED
    BY <1>4, <2>1, PlaceIs
<1>8. FirstOf(t, w) = from + 2
  <2>1. (from + 1) + 1 = from + 2
    BY <1>3
  <2> QED
    BY <1>7, <2>1 DEF FirstOf
<1> DEFINE S == {m \in from + 2 .. L : t[m] \in Keywords} \cup {L + 1}
<1>9. LastOf(t, w) = Min(S) - 1
  BY <1>8 DEF LastOf
<1>10. ASSUME NEW m \in S
       PROVE  to + 1 <= m
  <2>1. CASE m = L + 1
    <3> HIDE DEF L, to
    <3> QED
      BY <1>1, <1>3, <2>1
  <2>2. CASE m \in from + 2 .. L /\ t[m] \in Keywords
    <3> HIDE DEF L, to, from
    <3> QED
      BY <1>1, <1>3, <2>2
  <2> QED
    BY <2>1, <2>2
<1>11. to + 1 \in S
  <2>1. CASE to = L
    BY <2>1
  <2>2. CASE to # L
    <3>1. to + 1 \in 1 .. L /\ to + 1 \in from + 2 .. L
      <4> HIDE DEF L, to, from
      <4> QED
        BY <1>1, <1>3, <2>2
    <3>2. PICK d \in C : d.from < to + 1 /\ to + 1 <= d.to
      BY <3>1 DEF IsLayout
    <3>3. IsClause(t, d)
      BY DEF IsLayout
    <3>4. /\ d.from \in Nat /\ d.to \in Nat /\ d.word \in Keywords /\ d.from < d.to /\ d.to <= L
          /\ t[d.from + 1] = d.word
          /\ \A m \in d.from + 2 .. d.to : t[m] \notin Keywords
      <4>1. d.from \in Nat /\ d.to \in Nat /\ d.word \in Keywords /\ d.to <= L
        BY <3>3 DEF IsClause
      <4>2. d.from < d.to
        <5> HIDE DEF to
        <5> QED
          BY <1>3, <3>2, <4>1
      <4> QED
        BY <3>3, <4>1, <4>2 DEF IsClause
    <3>5. CASE d.from = to
      BY <3>1, <3>4, <3>5
    <3>6. CASE d.from # to
      <4> SUFFICES FALSE
        OBVIOUS
      <4>1. d.from < to
        <5> HIDE DEF to
        <5> QED
          BY <1>3, <3>2, <3>4, <3>6
      <4>2. ~ (d.from < from)
        <5> SUFFICES ASSUME d.from < from
                     PROVE  FALSE
          OBVIOUS
        <5>1. from + 1 \in d.from + 2 .. d.to
          <6> HIDE DEF from, to
          <6> QED
            BY <1>3, <3>2, <3>4
        <5> QED
          BY <1>3, <3>4, <5>1
      <4>3. ~ (d.from > from)
        <5> SUFFICES ASSUME d.from > from
                     PROVE  FALSE
          OBVIOUS
        <5>1. d.from + 1 \in from + 2 .. to
          <6> HIDE DEF from, to
          <6> QED
            BY <1>3, <3>4, <4>1
        <5> QED
          BY <1>3, <3>4, <5>1
      <4>4. d.from = from
        <5> HIDE DEF from
        <5> QED
          BY <1>3, <3>4, <4>2, <4>3
      <4>5. d.word = w
        BY <1>3, <3>4, <4>4
      <4>6. d = c
        BY <4>5 DEF IsLayout
      <4> QED
        BY <1>3, <3>2, <4>6
    <3> QED
      BY <3>5, <3>6
  <2> QED
    BY <2>1, <2>2
<1>12. Min(S) = to + 1
  <2>1. S \subseteq 0 .. L + 1 /\ S # {}
    <3> HIDE DEF L, from
    <3> QED
      BY <1>1, <1>3
  <2> HIDE DEF S
  <2>2. PICK top \in Nat : top = L + 1
    BY <1>1
  <2>3. Min(S) \in S /\ Min(S) \in Nat /\ \A n \in S : Min(S) <= n
    BY <2>1, <2>2, Least
  <2>4. to + 1 <= Min(S) /\ Min(S) <= to + 1
    BY <1>10, <1>11, <2>3
  <2> HIDE DEF to
  <2> QED
    BY <1>3, <2>3, <2>4
<1>13. LastOf(t, w) = to
  <2> HIDE DEF S, to
  <2> QED
    BY <1>3, <1>9, <1>12
<1> QED
  BY <1>5, <1>7, <1>8, <1>13

\* A clause that is not given is not found.
LEMMA NoClause ==
  ASSUME NEW t \in Seq(Word), NEW C, IsLayout(t, C), NEW w \in Keywords,
         \A c \in C : c.word = w => ~ (c.from < c.to)
  PROVE  ~ Has(t, w)
<1>1. ASSUME NEW m \in 1 .. Len(t), t[m] = w
      PROVE  FALSE
  <2>1. PICK c \in C : m = c.from + 1 /\ c.from < c.to /\ t[m] = c.word
    <3>1. t[m] \in Keywords
      BY <1>1
    <3> QED
      BY <3>1, KeywordIs
  <2> QED
    BY <1>1, <2>1
<1> QED
  BY <1>1, HasIs

\* A fragment that is a clause wherever it stands.
HasClause(f, w) ==
  /\ f \in Fragment
  /\ \A s \in Statement, n \in Nat :
       At(s, n, f) => Binds(s, n, f) /\ IsClause(s.text, Clause(n, End(n, f), w))

\* A clause of a statement: its fragment, its keyword and its rank among the others.
Piece(f, w, rank) == [f |-> f, word |-> w, rank |-> rank]

\* The clause a piece is, at its place.
ClauseOf(p, at) == Clause(at[p], End(at[p], p.f), p.word)

\* The first n tokens of the statement are the pieces, each at its place.
IsPlan(s, n, P, at) ==
  /\ \A p \in P :
       /\ at[p] \in Nat /\ At(s, at[p], p.f) /\ End(at[p], p.f) <= n
       /\ IsClause(s.text, ClauseOf(p, at))
  /\ \A m \in 1 .. n : \E p \in P : at[p] < m /\ m <= End(at[p], p.f)
  /\ \A p, q \in P : p.rank < q.rank => End(at[p], p.f) <= at[q]

\* No two pieces have one keyword.
Distinct(P) == \A p, q \in P : p.word = q.word => p = q

\* A fragment made of pieces.
Laid(f, P) ==
  /\ f \in Fragment /\ Distinct(P)
  /\ \A s \in Statement : At(s, 0, f) => Binds(s, 0, f) /\ \E at : IsPlan(s, End(0, f), P, at)

\* A clause is made of itself,
LEMMA LaidOne ==
  ASSUME NEW f, NEW w, NEW rank \in Nat, HasClause(f, w)
  PROVE  Laid(f, {Piece(f, w, rank)})
<1> DEFINE p == Piece(f, w, rank)
<1>1. f \in Fragment
  BY DEF HasClause
<1>2. ASSUME NEW s \in Statement, At(s, 0, f)
      PROVE  Binds(s, 0, f) /\ \E at : IsPlan(s, End(0, f), {p}, at)
  <2> DEFINE at == [q \in {p} |-> 0]
  <2>1. Binds(s, 0, f) /\ IsClause(s.text, Clause(0, End(0, f), w))
    BY <1>2 DEF HasClause
  <2>2. at[p] = 0 /\ p.f = f /\ p.word = w /\ p.rank = rank
    BY DEF Piece
  <2>3. End(0, f) \in Nat
    BY <1>1, EndType
  <2> HIDE DEF at, p
  <2>4. /\ at[p] \in Nat /\ At(s, at[p], p.f) /\ End(at[p], p.f) <= End(0, f)
        /\ IsClause(s.text, ClauseOf(p, at))
    BY <1>2, <2>1, <2>2, <2>3 DEF ClauseOf
  <2>5. \A m \in 1 .. End(0, f) : at[p] < m /\ m <= End(at[p], p.f)
    BY <2>2, <2>3
  <2>6. ~ (p.rank < p.rank)
    BY <2>2
  <2> QED
    BY <2>1, <2>4, <2>5, <2>6 DEF IsPlan
<1> QED
  BY <1>1, <1>2 DEF Laid, Distinct

\* ... and one behind others, with another keyword, of them and itself.
LEMMA LaidPut ==
  ASSUME NEW f, NEW P, Laid(f, P), NEW g, NEW w, NEW rank \in Nat, HasClause(g, w),
         \A p \in P : p.word # w /\ p.rank \in Nat /\ p.rank < rank
  PROVE  Laid(Put(f, g), P \cup {Piece(g, w, rank)})
<1> DEFINE z == Piece(g, w, rank)
           Q == P \cup {z}
           h == Put(f, g)
<1>1. f \in Fragment /\ g \in Fragment /\ Distinct(P)
  BY DEF Laid, HasClause
<1>2. z.f = g /\ z.word = w /\ z.rank = rank
  BY DEF Piece
<1>3. h \in Fragment /\ End(0, h) = End(End(0, f), g)
  BY <1>1, AtPut
<1> HIDE DEF z, h
<1>4. Distinct(Q)
  BY <1>1, <1>2 DEF Distinct
<1>5. ASSUME NEW s \in Statement, At(s, 0, h)
      PROVE  Binds(s, 0, h) /\ \E at : IsPlan(s, End(0, h), Q, at)
  <2>1. PICK k \in Nat : k = End(0, f)
    BY <1>1, EndType
  <2>2. PICK l \in Nat : l = End(k, g) /\ k <= l
    BY <1>1, EndType
  <2>3. At(s, 0, f)
    BY <1>1, <1>5, AtPut DEF h
  <2>4. Binds(s, 0, f) /\ \E at : IsPlan(s, k, P, at)
    BY <2>1, <2>3 DEF Laid
  <2>5. At(s, k, g)
    BY <1>1, <1>5, <2>1, <2>4, AtPut DEF h
  <2>6. Binds(s, k, g) /\ IsClause(s.text, Clause(k, l, w))
    BY <2>2, <2>5 DEF HasClause
  <2>7. Binds(s, 0, h)
    BY <1>1, <1>5, <2>1, <2>4, <2>6, AtPut DEF h
  <2>8. PICK old : IsPlan(s, k, P, old)
    BY <2>4
  <2> DEFINE at == [p \in Q |-> IF p = z THEN k ELSE old[p]]
  <2>9. z \notin P
    BY <1>2
  <2>10. at[z] = k /\ \A p \in P : at[p] = old[p]
    BY <2>9
  <2> HIDE DEF at
  <2>11. ASSUME NEW p \in P
         PROVE  /\ at[p] \in Nat /\ At(s, at[p], p.f) /\ End(at[p], p.f) <= k
                /\ IsClause(s.text, ClauseOf(p, at))
    BY <2>8, <2>10 DEF IsPlan, ClauseOf
  <2>12. /\ at[z] \in Nat /\ At(s, at[z], z.f) /\ End(at[z], z.f) = l
         /\ IsClause(s.text, ClauseOf(z, at))
    BY <1>2, <2>2, <2>5, <2>6, <2>10 DEF ClauseOf
  <2>13. ASSUME NEW p \in P
         PROVE  End(at[p], p.f) <= l
    <3>1. End(at[p], p.f) = ClauseOf(p, at).to
      BY DEF ClauseOf, Clause
    <3>2. End(at[p], p.f) \in Nat
      BY <2>11, <3>1 DEF IsClause
    <3> QED
      BY <2>2, <2>11, <3>2
  <2>14. \A p \in Q : /\ at[p] \in Nat /\ At(s, at[p], p.f) /\ End(at[p], p.f) <= l
                      /\ IsClause(s.text, ClauseOf(p, at))
    BY <2>11, <2>12, <2>13
  <2>15. ASSUME NEW m \in 1 .. l
         PROVE  \E p \in Q : at[p] < m /\ m <= End(at[p], p.f)
    <3>1. CASE m <= k
      <4>1. m \in 1 .. k
        BY <3>1, <2>1
      <4>2. PICK p \in P : old[p] < m /\ m <= End(old[p], p.f)
        BY <2>8, <4>1 DEF IsPlan
      <4> QED
        BY <2>10, <4>2
    <3>2. CASE k < m
      BY <2>10, <2>12, <3>2
    <3> QED
      BY <3>1, <3>2, <2>1
  <2>16. ASSUME NEW p \in Q, NEW q \in Q, p.rank < q.rank
         PROVE  End(at[p], p.f) <= at[q]
    <3>1. CASE p \in P /\ q \in P
      BY <2>8, <2>10, <2>16, <3>1 DEF IsPlan
    <3>2. CASE p \in P /\ q = z
      BY <2>10, <2>11, <3>2
    <3>3. CASE p = z /\ q \in P
      BY <1>2, <2>16, <3>3
    <3>4. CASE p = z /\ q = z
      BY <1>2, <2>16, <3>4
    <3> QED
      BY <3>1, <3>2, <3>3, <3>4
  <2>17. IsPlan(s, l, Q, at)
    BY <2>14, <2>15, <2>16 DEF IsPlan
  <2>18. End(0, h) = l
    BY <1>3, <2>1, <2>2
  <2> QED
    BY <2>7, <2>17, <2>18
<1> QED
  BY <1>3, <1>4, <1>5 DEF Laid, h, z

\* The statement the builder sends.
LEMMA NumberedIs ==
  ASSUME NEW f \in Fragment
  PROVE  /\ Numbered(f) \in Statement /\ IsNumbered(Numbered(f))
         /\ Numbered(f).text = f.text
         /\ At(Numbered(f), 0, f)
         /\ End(0, f) = Len(f.text)
<1> DEFINE s == Numbered(f)
           t == f.text
<1>1. t \in Seq(Word) /\ f.params \in Seq(Params)
  BY DEF Fragment
<1>2. s.text = t /\ s.params = f.params /\ s.numbers = [n \in DOMAIN t |-> Count(t, "?", n)]
  BY DEF Numbered
<1>3. DOMAIN t = 1 .. Len(t) /\ Len(t) \in Nat
  <2> HIDE DEF t
  <2> QED
    BY <1>1
<1>4. \A n \in 1 .. Len(t) : Count(t, "?", n) \in Nat
  BY <1>3, CountType
<1>5. s.numbers \in Seq(Nat)
  <2>1. s.numbers \in [1 .. Len(t) -> Nat]
    BY <1>2, <1>3, <1>4
  <2> HIDE DEF s, t
  <2> QED
    BY <1>3, <2>1
<1>6. s \in Statement
  <2>1. s = [text |-> s.text, params |-> s.params, numbers |-> s.numbers]
    BY DEF Numbered
  <2> HIDE DEF s, t
  <2> QED
    BY <1>1, <1>2, <1>5, <2>1 DEF Statement
<1>7. IsNumbered(s)
  BY <1>2, <1>3 DEF IsNumbered
<1>8. End(0, f) = Len(t)
  <2> HIDE DEF t
  <2>1. 0 + Len(t) = Len(t)
    BY <1>3
  <2> QED
    BY <2>1 DEF End, t
<1>9. At(s, 0, f)
  <2>1. Count(s.text, "?", 0) = 0
    BY CountZero
  <2>2. \A m \in Nat : 0 + m = m
    OBVIOUS
  <2>3. \A m \in 1 .. Len(t) : s.text[0 + m] = t[m]
    BY <1>2, <2>2
  <2>4. \A m \in 1 .. Len(f.params) : s.params[0 + m] = f.params[m]
    BY <1>2, <2>2
  <2>5. End(0, f) <= Len(s.text)
    BY <1>2, <1>3, <1>8
  <2> QED
    BY <1>2, <2>1, <2>3, <2>4, <2>5 DEF At
<1> QED
  BY <1>2, <1>6, <1>7, <1>8, <1>9

\* A clause as the database finds it: its fragment stands behind n tokens.
Found(s, p, n) ==
  /\ n \in Nat /\ At(s, n, p.f)
  /\ n < End(n, p.f) =>
       /\ Has(s.text, p.word)
       /\ Place(s.text, p.word) = n + 1
       /\ FirstOf(s.text, p.word) = n + 2
       /\ LastOf(s.text, p.word) = End(n, p.f)
  /\ ~ (n < End(n, p.f)) => ~ Has(s.text, p.word)

\* In a statement made of clauses the database finds each clause that is given, and in their order; it finds no other.
LEMMA Stated ==
  ASSUME NEW f, NEW P, Laid(f, P)
  PROVE  /\ \E at : /\ \A p \in P : Found(Numbered(f), p, at[p])
                    /\ \A p, q \in P : p.rank < q.rank => End(at[p], p.f) <= at[q]
         /\ \A w \in Keywords : (\A p \in P : p.word # w) => ~ Has(f.text, w)
<1> DEFINE s == Numbered(f)
           t == f.text
<1>1. f \in Fragment /\ Distinct(P)
  BY DEF Laid
<1>2. s \in Statement /\ s.text = t /\ At(s, 0, f) /\ End(0, f) = Len(t)
  BY <1>1, NumberedIs
<1>3. t \in Seq(Word)
  BY <1>1 DEF Fragment
<1> HIDE DEF s, t
<1>4. PICK at : IsPlan(s, Len(t), P, at)
  BY <1>2 DEF Laid
<1> DEFINE C == {ClauseOf(p, at) : p \in P}
<1>5. ASSUME NEW p \in P
      PROVE  /\ ClauseOf(p, at).from = at[p] /\ ClauseOf(p, at).to = End(at[p], p.f)
             /\ ClauseOf(p, at).word = p.word
  BY DEF ClauseOf, Clause
<1>6. IsLayout(t, C)
  <2>1. \A c \in C : IsClause(t, c)
    BY <1>2, <1>4 DEF IsPlan
  <2>2. \A c, d \in C : c.word = d.word => c = d
    BY <1>1, <1>5 DEF Distinct
  <2>3. ASSUME NEW m \in 1 .. Len(t)
        PROVE  \E c \in C : c.from < m /\ m <= c.to
    <3>1. PICK p \in P : at[p] < m /\ m <= End(at[p], p.f)
      BY <1>4 DEF IsPlan
    <3>2. ClauseOf(p, at) \in C
      OBVIOUS
    <3> HIDE DEF C
    <3> QED
      BY <1>5, <3>1, <3>2
  <2> HIDE DEF C
  <2> QED
    BY <2>1, <2>2, <2>3 DEF IsLayout
<1>7. ASSUME NEW p \in P
      PROVE  Found(s, p, at[p])
  <2>1. at[p] \in Nat /\ At(s, at[p], p.f)
    BY <1>4 DEF IsPlan
  <2>2. ClauseOf(p, at) \in C
    OBVIOUS
  <2>3. p.word \in Keywords
    BY <1>4, <1>5 DEF IsPlan, IsClause
  <2> HIDE DEF C
  <2>4. ASSUME at[p] < End(at[p], p.f)
        PROVE  /\ Has(t, p.word)
               /\ Place(t, p.word) = at[p] + 1
               /\ FirstOf(t, p.word) = at[p] + 2
               /\ LastOf(t, p.word) = End(at[p], p.f)
    <3>1. PICK c \in C : c = ClauseOf(p, at)
      BY <2>2
    <3>2. c.from = at[p] /\ c.to = End(at[p], p.f) /\ c.word = p.word
      BY <1>5, <3>1
    <3>3. c.from < c.to
      BY <2>4, <3>2
    <3>4. /\ Has(t, c.word) /\ Place(t, c.word) = c.from + 1
          /\ FirstOf(t, c.word) = c.from + 2 /\ LastOf(t, c.word) = c.to
      BY <1>3, <1>6, <3>3, ClauseIs
    <3> QED
      BY <3>2, <3>4
  <2>5. ASSUME ~ (at[p] < End(at[p], p.f))
        PROVE  ~ Has(t, p.word)
    <3>1. ASSUME NEW c \in C, c.word = p.word
          PROVE  ~ (c.from < c.to)
      <4>1. c = ClauseOf(p, at)
        BY <1>5, <1>6, <2>2, <3>1 DEF IsLayout
      <4> QED
        BY <1>5, <2>5, <4>1
    <3> QED
      BY <1>3, <1>6, <2>3, <3>1, NoClause
  <2> QED
    BY <1>2, <2>1, <2>4, <2>5 DEF Found
<1>8. \A p, q \in P : p.rank < q.rank => End(at[p], p.f) <= at[q]
  BY <1>4 DEF IsPlan
<1>9. ASSUME NEW w \in Keywords, \A p \in P : p.word # w
      PROVE  ~ Has(t, w)
  <2>1. \A c \in C : c.word # w
    BY <1>5, <1>9
  <2> HIDE DEF C
  <2> QED
    BY <1>3, <1>6, <2>1, NoClause
<1> QED
  BY <1>7, <1>8, <1>9 DEF s, t

-----------------------------------------------------------------------------
(* The clauses of the builders *)

\* Tokens without a placeholder leave the count as it is.
LEMMA CountStill ==
  ASSUME NEW t, NEW n \in Nat, NEW k \in Nat, \A m \in 1 .. k : t[n + m] # "?"
  PROVE  Count(t, "?", n + k) = Count(t, "?", n)
<1> DEFINE H == {m \in 0 .. k : Count(t, "?", n + m) = Count(t, "?", n)}
<1>1. 0 \in H
  <2>1. n + 0 = n
    OBVIOUS
  <2> QED
    BY <2>1
<1>2. ASSUME NEW m \in 1 .. k, m - 1 \in H
      PROVE  m \in H
  <2>1. n + (m - 1) \in Nat /\ (n + (m - 1)) + 1 = n + m
    OBVIOUS
  <2>2. PICK j \in Nat : j = n + (m - 1)
    BY <2>1
  <2>3. t[j + 1] # "?"
    BY <2>1, <2>2
  <2>4. Count(t, "?", j + 1) = Count(t, "?", j)
    BY <2>3, CountNext, CountType
  <2> QED
    BY <1>2, <2>1, <2>2, <2>4
<1>3. \A m \in 1 .. k : m - 1 \in H => m \in H
  BY <1>2
<1>4. k \in H
  <2> HIDE DEF H
  <2>1. \A m \in 0 .. k : m \in H
    BY <1>1, <1>3, Induction
  <2> QED
    BY <2>1
<1> QED
  BY <1>4

\* A clause may be left out.
LEMMA NothingClause ==
  ASSUME NEW w \in Keywords
  PROVE  HasClause(Nothing, w) /\ NoOne(Nothing) /\ \A n \in Nat : End(n, Nothing) = n
<1> DEFINE f == Nothing
<1>1. f.text = <<>> /\ f.params = <<>> /\ f \in Fragment
  BY DEF Nothing, Words, Fragment
<1>2. Len(f.text) = 0 /\ Len(f.params) = 0
  BY <1>1
<1> HIDE DEF f
<1>3. \A n \in Nat : End(n, f) = n
  BY <1>2 DEF End
<1>4. NoOne(f)
  BY <1>2 DEF NoOne
<1>5. ASSUME NEW s \in Statement, NEW n \in Nat, At(s, n, f)
      PROVE  Binds(s, n, f) /\ IsClause(s.text, Clause(n, End(n, f), w))
  <2>1. Count(s.text, "?", n) \in Nat
    BY CountType
  <2>2. Binds(s, n, f)
    BY <1>2, <1>3, <2>1 DEF Binds
  <2>3. n <= Len(s.text)
    BY <1>3, <1>5 DEF At
  <2>4. IsClause(s.text, Clause(n, n, w))
    BY <2>3 DEF IsClause, Clause
  <2> QED
    BY <1>3, <2>2, <2>4
<1> QED
  BY <1>1, <1>3, <1>4, <1>5 DEF HasClause, f

\* A keyword and other tokens without a placeholder.
LEMMA WordsClause ==
  ASSUME NEW tokens \in Seq(Word), NEW w \in Keywords, Len(tokens) >= 1, tokens[1] = w,
         \A m \in 2 .. Len(tokens) : tokens[m] \notin Keywords /\ tokens[m] # "?"
  PROVE  HasClause(Words(tokens), w)
<1> DEFINE f == Words(tokens)
           k == Len(tokens)
<1>1. f.text = tokens /\ f.params = <<>> /\ f \in Fragment /\ Len(f.params) = 0
  BY DEF Words, Fragment
<1>2. k \in Nat /\ 1 <= k
  OBVIOUS
<1> HIDE DEF f
<1>3. \A n \in Nat : End(n, f) = n + k
  BY <1>1 DEF End
<1>4. w # "?"
  BY DEF Keywords
<1>5. ASSUME NEW s \in Statement, NEW n \in Nat, At(s, n, f)
      PROVE  Binds(s, n, f) /\ IsClause(s.text, Clause(n, End(n, f), w))
  <2> DEFINE t == s.text
  <2>1. n + k <= Len(t) /\ \A m \in 1 .. k : t[n + m] = tokens[m]
    BY <1>1, <1>3, <1>5 DEF At
  <2> HIDE DEF t, k
  <2>2. ASSUME NEW m \in 1 .. k
        PROVE  t[n + m] # "?" /\ (m # 1 => t[n + m] \notin Keywords)
    <3>1. m = 1 \/ m \in 2 .. k
      BY <1>2
    <3> QED
      BY <1>4, <2>1, <3>1 DEF k
  <2>3. Count(t, "?", n + k) = Count(t, "?", n) /\ Count(t, "?", n) \in Nat
    BY <1>2, <2>2, CountStill, CountType
  <2>4. Binds(s, n, f)
    BY <1>1, <1>3, <2>3 DEF Binds, t
  <2>5. t[n + 1] = w
    BY <1>2, <2>1
  <2>6. ASSUME NEW m \in n + 2 .. n + k
        PROVE  t[m] \notin Keywords
    <3>1. m - n \in 1 .. k /\ m - n # 1 /\ n + (m - n) = m
      BY <1>2
    <3> QED
      BY <2>2, <3>1
  <2>7. n <= n + k /\ n + k \in Nat
    BY <1>2
  <2>8. IsClause(t, Clause(n, n + k, w))
    BY <2>1, <2>5, <2>6, <2>7 DEF IsClause, Clause
  <2> QED
    BY <1>3, <2>4, <2>8 DEF t
<1> QED
  BY <1>1, <1>5 DEF HasClause, f

\* A keyword, other tokens and a placeholder.
LEMMA BindClause ==
  ASSUME NEW tokens \in Seq(Word), NEW w \in Keywords, NEW v \in Params, NEW k \in Nat, 1 <= k,
         Len(tokens) = k + 1, tokens[1] = w, tokens[k + 1] = "?",
         \A m \in 2 .. k : tokens[m] \notin Keywords /\ tokens[m] # "?"
  PROVE  /\ HasClause(Bind(tokens, v), w)
         /\ \A n \in Nat : End(n, Bind(tokens, v)) = (n + k) + 1
         /\ \A s \in Statement, n \in Nat :
              IsNumbered(s) /\ At(s, n, Bind(tokens, v)) => Value(s, (n + k) + 1) = v
<1> DEFINE f == Bind(tokens, v)
<1>1. f.text = tokens /\ f.params = <<v>> /\ f \in Fragment /\ Len(f.params) = 1 /\ f.params[1] = v
  BY DEF Bind, Fragment
<1> HIDE DEF f
<1>2. \A n \in Nat : End(n, f) = (n + k) + 1
  BY <1>1 DEF End
<1>3. w # "?" /\ "?" \notin Keywords
  BY DEF Keywords
<1>4. ASSUME NEW s \in Statement, NEW n \in Nat, At(s, n, f)
      PROVE  /\ Binds(s, n, f) /\ IsClause(s.text, Clause(n, End(n, f), w))
             /\ IsNumbered(s) => Value(s, (n + k) + 1) = v
  <2> DEFINE t == s.text
  <2>1. /\ (n + k) + 1 <= Len(t) /\ \A m \in 1 .. k + 1 : t[n + m] = tokens[m]
        /\ s.params[Count(t, "?", n) + 1] = v
    <3>1. (n + k) + 1 <= Len(t)
      BY <1>2, <1>4 DEF At
    <3>2. \A m \in 1 .. k + 1 : t[n + m] = tokens[m]
      BY <1>1, <1>4 DEF At
    <3>3. s.params[Count(t, "?", n) + 1] = v
      <4>1. \A m \in 1 .. Len(f.params) : s.params[Count(t, "?", n) + m] = f.params[m]
        BY <1>4 DEF At
      <4>2. 1 \in 1 .. Len(f.params)
        BY <1>1
      <4> QED
        BY <1>1, <4>1, <4>2, Zenon
    <3> QED
      BY <3>1, <3>2, <3>3
  <2> HIDE DEF t
  <2>2. ASSUME NEW m \in 1 .. k
        PROVE  t[n + m] # "?" /\ (m # 1 => t[n + m] \notin Keywords)
    <3>1. m = 1 \/ m \in 2 .. k
      OBVIOUS
    <3>2. m \in 1 .. k + 1
      OBVIOUS
    <3> QED
      BY <1>3, <2>1, <3>1, <3>2
  <2>3. Count(t, "?", n + k) = Count(t, "?", n) /\ Count(t, "?", n) \in Nat
    BY <2>2, CountStill, CountType
  <2>4. PICK j \in Nat : j = n + k
    OBVIOUS
  <2>5. t[j + 1] = "?"
    <3>1. k + 1 \in 1 .. k + 1 /\ n + (k + 1) = j + 1
      BY <2>4
    <3> QED
      BY <2>1, <3>1
  <2>6. Count(t, "?", j + 1) = Count(t, "?", n) + 1
    <3>1. Count(t, "?", j + 1) = Count(t, "?", j) + IF t[j + 1] = "?" THEN 1 ELSE 0
      BY CountNext
    <3>2. Count(t, "?", j) = Count(t, "?", n)
      BY <2>3, <2>4
    <3> QED
      BY <2>5, <3>1, <3>2, Zenon
  <2>7. Binds(s, n, f)
    BY <1>1, <1>2, <2>4, <2>6 DEF Binds, t
  <2>8. t[n + 1] = w
    BY <2>1
  <2>9. ASSUME NEW m \in n + 2 .. j + 1
        PROVE  t[m] \notin Keywords
    <3>1. CASE m = j + 1
      BY <1>3, <2>5, <3>1
    <3>2. CASE m # j + 1
      <4>1. m - n \in 1 .. k /\ m - n # 1 /\ n + (m - n) = m
        BY <2>4, <3>2
      <4> QED
        BY <2>2, <4>1
    <3> QED
      BY <3>1, <3>2
  <2>10. n <= j + 1 /\ j + 1 \in Nat /\ j + 1 <= Len(t)
    BY <2>1, <2>4
  <2>11. IsClause(t, Clause(n, j + 1, w))
    BY <2>8, <2>9, <2>10 DEF IsClause, Clause
  <2>12. ASSUME IsNumbered(s)
         PROVE  Value(s, j + 1) = v
    <3>1. j + 1 \in 1 .. Len(t)
      BY <2>10 DEF t, Statement
    <3>2. s.numbers[j + 1] = Count(t, "?", n) + 1
      BY <2>6, <2>12, <3>1 DEF IsNumbered, t
    <3> QED
      BY <2>1, <3>2 DEF Value
  <2> QED
    BY <1>2, <2>4, <2>7, <2>11, <2>12 DEF t
<1> QED
  BY <1>1, <1>2, <1>4 DEF HasClause, f

\* A keyword and a fragment without one.
LEMMA LedClause ==
  ASSUME NEW w \in Keywords, NEW g \in Fragment,
         \A s \in Statement, n \in Nat : At(s, n, g) => Neat(s, n, g)
  PROVE  HasClause(Put(Words(<<w>>), g), w)
<1> DEFINE f == Put(Words(<<w>>), g)
<1>1. w \in Word /\ w # "?"
  BY DEF Word, Reserved, Keywords
<1>2. f \in Fragment /\ \A n \in Nat : End(n, f) = End(n + 1, g)
  BY <1>1, LedAt
<1>3. ASSUME NEW s \in Statement, NEW n \in Nat, At(s, n, f)
      PROVE  Binds(s, n, f) /\ IsClause(s.text, Clause(n, End(n, f), w))
  <2>1. s.text[n + 1] = w /\ At(s, n + 1, g) /\ (Binds(s, n + 1, g) => Binds(s, n, f))
    BY <1>1, <1>3, LedAt
  <2>2. PICK a \in Nat : a = n + 1
    OBVIOUS
  <2>3. Neat(s, a, g)
    BY <2>1, <2>2
  <2>4. PICK k \in Nat : k = End(a, g) /\ a <= k
    BY EndType
  <2>5. End(n, f) = k
    BY <1>2, <2>2, <2>4
  <2> HIDE DEF f
  <2>6. Binds(s, n, f)
    BY <2>1, <2>2, <2>3 DEF Neat
  <2>7. \A m \in a + 1 .. k : s.text[m] \notin Keywords
    BY <2>3, <2>4 DEF Neat
  <2>8. k <= Len(s.text)
    BY <1>3, <2>5 DEF At
  <2>9. a + 1 = n + 2 /\ n <= k
    BY <2>2, <2>4
  <2>10. IsClause(s.text, Clause(n, k, w))
    BY <2>1, <2>2, <2>4, <2>7, <2>8, <2>9 DEF IsClause, Clause
  <2> QED
    BY <2>5, <2>6, <2>10
<1> HIDE DEF f
<1> QED
  BY <1>2, <1>3 DEF HasClause, f

\* Which words are keywords.
LEMMA KeywordFacts ==
  /\ Keywords \subseteq Word /\ "?" \notin Keywords /\ "1" \notin Keywords
  /\ "SELECT" \in Keywords /\ "INSERT" \in Keywords /\ "VALUES" \in Keywords /\ "UPDATE" \in Keywords
  /\ "SET" \in Keywords /\ "DELETE" \in Keywords /\ "WHERE" \in Keywords /\ "ORDER BY" \in Keywords
  /\ "LIMIT" \in Keywords /\ "OFFSET" \in Keywords
BY DEF Word, Reserved, Keywords

\* No predicate is not a predicate.
LEMMA NoExprOutside ==
  NoExpr \notin Expressions
<1> SUFFICES ASSUME NoExpr \in Expressions
             PROVE  FALSE
  OBVIOUS
<1>1. AtomForm(NoExpr) \/ From(Expressions, NoExpr)
  BY Parts
<1> QED
  BY <1>1 DEF AtomForm, From, NoExpr, Compare, IsNull, IsNotNull, True, Not, And, Or

\* The function the database reads with.
LEMMA ParsedBy ==
  ASSUME NEW s \in Statement
  PROVE  \E read : /\ Reads(read, s)
                   /\ \A lo \in 1 .. Len(s.text) + 1, hi \in 0 .. Len(s.text) :
                        Parsed(s, lo, hi) = Between(read, lo, hi)
<1>1. PICK read : \A lo \in 1 .. Len(s.text) + 1, hi \in 0 .. Len(s.text) :
           read[<<lo, hi>>] = Reading(read, s, lo, hi) /\ Parsed(s, lo, hi) = read[<<lo, hi>>]
  BY ParsedRounds
<1>2. Reads(read, s)
  BY <1>1 DEF Reads, Between
<1>3. \A lo \in 1 .. Len(s.text) + 1, hi \in 0 .. Len(s.text) : Parsed(s, lo, hi) = Between(read, lo, hi)
  BY <1>1 DEF Between
<1> QED
  BY <1>2, <1>3

\* The condition the database finds behind WHERE.
LEMMA ConditionIs ==
  ASSUME NEW s \in Statement, NEW g \in Fragment, NEW rank, NEW n, NEW e,
         Found(s, Piece(Put(Words(<<"WHERE">>), g), "WHERE", rank), n),
         \A read : Reads(read, s) => Between(read, n + 2, End(n + 1, g)) = e
  PROVE  Condition(s) = e
<1> DEFINE f == Put(Words(<<"WHERE">>), g)
           p == Piece(f, "WHERE", rank)
<1>1. p.f = f /\ p.word = "WHERE"
  BY DEF Piece
<1>2. n \in Nat /\ At(s, n, f)
  BY <1>1 DEF Found
<1>3. End(n, f) = End(n + 1, g)
  <2>1. "WHERE" \in Word
    BY KeywordFacts
  <2>2. \A m \in Nat : End(m, f) = End(m + 1, g)
    BY <2>1, LedAt
  <2> QED
    BY <1>2, <2>2
<1>4. PICK k \in Nat : k = End(n + 1, g) /\ n + 1 <= k
  BY <1>2, EndType
<1>5. k <= Len(s.text)
  BY <1>2, <1>3, <1>4 DEF At
<1> HIDE DEF f, p
<1>6. n < End(n, f)
  BY <1>2, <1>3, <1>4
<1>7. Has(s.text, "WHERE") /\ FirstOf(s.text, "WHERE") = n + 2 /\ LastOf(s.text, "WHERE") = k
  BY <1>1, <1>3, <1>4, <1>6 DEF Found, p, f
<1>8. n + 2 \in 1 .. Len(s.text) + 1 /\ k \in 0 .. Len(s.text)
  BY <1>2, <1>4, <1>5 DEF Statement
<1>9. PICK read : Reads(read, s) /\ Parsed(s, n + 2, k) = Between(read, n + 2, k)
  BY <1>8, ParsedBy
<1>10. Parsed(s, n + 2, k) = e
  BY <1>4, <1>9
<1> QED
  BY <1>7, <1>10 DEF Condition

\* A statement without WHERE has no condition.
LEMMA NoCondition ==
  ASSUME NEW s, ~ Has(s.text, "WHERE")
  PROVE  Condition(s) = NoExpr
BY DEF Condition

\* What a builder has as its predicate.
Wheres == Expressions \cup {NoExpr}

\* The WHERE clause is read as the predicate of the builder.
LEMMA WhereClause ==
  ASSUME NEW b, b.where \in Wheres
  PROVE  /\ HasClause(Where(b), "WHERE")
         /\ ~ HasTrue(b.where) => NoOne(Where(b))
         /\ \A s \in Statement : \A n, rank :
              IsNumbered(s) /\ Found(s, Piece(Where(b), "WHERE", rank), n) => Condition(s) = b.where
<1>1. CASE b.where = NoExpr
  <2>1. Where(b) = Nothing
    BY <1>1 DEF Where
  <2>2. HasClause(Nothing, "WHERE") /\ NoOne(Nothing) /\ \A n \in Nat : End(n, Nothing) = n
    BY NothingClause, KeywordFacts
  <2>3. ASSUME NEW s \in Statement, NEW n, NEW rank, Found(s, Piece(Nothing, "WHERE", rank), n)
        PROVE  Condition(s) = NoExpr
    <3>1. n \in Nat /\ (~ (n < End(n, Nothing)) => ~ Has(s.text, "WHERE"))
      BY <2>3 DEF Found, Piece
    <3>2. ~ (n < End(n, Nothing))
      BY <2>2, <3>1
    <3> QED
      BY <3>1, <3>2, NoCondition
  <2> QED
    BY <1>1, <2>1, <2>2, <2>3
<1>2. CASE b.where \in Expressions
  <2> DEFINE e == b.where
             g == ExprSql(e)
             f == Put(Words(<<"WHERE">>), g)
  <2>1. Where(b) = f
    BY <1>2, NoExprOutside DEF Where
  <2>2. IsClosed(g) /\ g \in Fragment
    BY <1>2, ShapeClosed DEF IsClosed
  <2>3. HasClause(f, "WHERE")
    <3>1. \A s \in Statement, n \in Nat : At(s, n, g) => Neat(s, n, g)
      BY <2>2 DEF IsClosed, Closed
    <3> HIDE DEF g
    <3> QED
      BY <2>2, <3>1, KeywordFacts, LedClause
  <2>4. ASSUME ~ HasTrue(e)
        PROVE  NoOne(f)
    <3>1. NoOne(g)
      BY <1>2, <2>4, PlainNoOne DEF HasTrue
    <3>2. NoOne(Words(<<"WHERE">>)) /\ Words(<<"WHERE">>) \in Fragment
      BY KeywordFacts, NoOneWord
    <3> QED
      BY <2>2, <3>1, <3>2, NoOnePut
  <2>5. ASSUME NEW s \in Statement, NEW n, NEW rank, IsNumbered(s), Found(s, Piece(f, "WHERE", rank), n)
        PROVE  Condition(s) = e
    <3>1. n \in Nat /\ At(s, n, f)
      BY <2>5 DEF Found, Piece
    <3>2. PICK a \in Nat : a = n + 1
      BY <3>1
    <3>3. At(s, a, g)
      BY <2>2, <3>1, <3>2, KeywordFacts, LedAt
    <3>4. ASSUME NEW read, Reads(read, s)
          PROVE  Between(read, n + 2, End(n + 1, g)) = e
      <4>1. Between(read, a + 1, End(a, g)) = e
        BY <1>2, <2>5, <3>3, <3>4, ExprSense DEF HasSense
      <4>2. a + 1 = n + 2
        BY <3>1, <3>2
      <4> HIDE DEF g, e
      <4> QED
        BY <3>2, <4>1, <4>2
    <3> HIDE DEF g, e
    <3> QED
      BY <2>2, <2>5, <3>4, ConditionIs
  <2> HIDE DEF f
  <2> QED
    BY <2>1, <2>3, <2>4, <2>5
<1> QED
  BY <1>1, <1>2 DEF Wheres

\* LIMIT or OFFSET, with the number bound to it.
Bounds == {"LIMIT", "OFFSET"}

\* The clause of limit() or offset().
BoundSql(w, bound) == IF bound = <<>> THEN Nothing ELSE Bind(<<w, "?">>, AsI64(bound[1]))

\* The number of a LIMIT or an OFFSET is read as it was bound.
LEMMA BoundClause ==
  ASSUME NEW w \in Bounds, NEW bound, bound # <<>> => AsI64(bound[1]) \in Int
  PROVE  /\ HasClause(BoundSql(w, bound), w)
         /\ NoOne(BoundSql(w, bound))
         /\ \A n \in Nat : n < End(n, BoundSql(w, bound)) <=> bound # <<>>
         /\ \A s \in Statement : \A n, rank :
              IsNumbered(s) /\ Found(s, Piece(BoundSql(w, bound), w, rank), n) =>
                Number(s, w) = IF bound = <<>> THEN <<>> ELSE <<AsI64(bound[1])>>
<1> DEFINE f == BoundSql(w, bound)
<1>1. w \in Keywords /\ w \in Word /\ "?" \in Word /\ "?" \notin Keywords
  BY KeywordFacts, NameFacts DEF Bounds, Reserved
<1>2. CASE bound = <<>>
  <2>1. f = Nothing
    BY <1>2 DEF BoundSql
  <2>2. HasClause(Nothing, w) /\ NoOne(Nothing) /\ \A n \in Nat : End(n, Nothing) = n
    BY <1>1, NothingClause
  <2>3. ASSUME NEW s \in Statement, NEW n, NEW rank, Found(s, Piece(Nothing, w, rank), n)
        PROVE  Number(s, w) = <<>>
    <3>1. n \in Nat /\ (~ (n < End(n, Nothing)) => ~ Has(s.text, w))
      BY <2>3 DEF Found, Piece
    <3>2. ~ (n < End(n, Nothing))
      BY <2>2, <3>1
    <3> QED
      BY <3>1, <3>2 DEF Number
  <2>4. \A n \in Nat : ~ (n < End(n, Nothing))
    BY <2>2
  <2> HIDE DEF f
  <2> QED
    BY <1>2, <2>1, <2>2, <2>3, <2>4 DEF f
<1>3. CASE bound # <<>>
  <2> DEFINE v == AsI64(bound[1])
             tokens == <<w, "?">>
             h == Bind(tokens, v)
  <2>1. f = h
    BY <1>3 DEF BoundSql
  <2>2. v \in Params
    BY <1>3 DEF Params
  <2>3. tokens \in Seq(Word) /\ Len(tokens) = 1 + 1 /\ tokens[1] = w /\ tokens[1 + 1] = "?"
    BY <1>1
  <2>4. 1 \in Nat /\ 1 <= 1 /\ \A m \in 2 .. 1 : tokens[m] \notin Keywords /\ tokens[m] # "?"
    OBVIOUS
  <2>5. NoOne(h)
    <3>1. h.text = <<w, "?">> /\ w # "1" /\ "?" # "1"
      BY <1>1, KeywordFacts DEF Bind
    <3> QED
      BY <3>1 DEF NoOne
  <2> HIDE DEF v, tokens
  <2>6. /\ HasClause(h, w)
        /\ \A n \in Nat : End(n, h) = (n + 1) + 1
        /\ \A s \in Statement, n \in Nat : IsNumbered(s) /\ At(s, n, h) => Value(s, (n + 1) + 1) = v
    BY <1>1, <2>2, <2>3, <2>4, BindClause
  <2> HIDE DEF h
  <2>7. ASSUME NEW s \in Statement, NEW n, NEW rank, IsNumbered(s), Found(s, Piece(h, w, rank), n)
        PROVE  Number(s, w) = <<v>>
    <3>1. /\ n \in Nat /\ At(s, n, h)
          /\ n < End(n, h) => Has(s.text, w) /\ FirstOf(s.text, w) = n + 2
      BY <2>7 DEF Found, Piece
    <3>2. n < End(n, h) /\ (n + 1) + 1 = n + 2
      BY <2>6, <3>1
    <3>3. Value(s, n + 2) = v
      BY <2>6, <2>7, <3>1, <3>2
    <3> QED
      BY <3>1, <3>2, <3>3 DEF Number
  <2>8. \A n \in Nat : n < End(n, h)
    BY <2>6
  <2> HIDE DEF f
  <2> QED
    BY <1>3, <2>1, <2>5, <2>6, <2>7, <2>8 DEF f, v
<1> QED
  BY <1>2, <1>3

\* The directions of an order.
Directions == {"ASC", "DESC"}

\* A tuple is a sequence.
LEMMA Triple ==
  ASSUME NEW S, NEW x \in S, NEW y \in S, NEW z \in S
  PROVE  <<x, y, z>> \in Seq(S)
OBVIOUS

\* What rows are ordered by.
Orderable == Columns \cup {"distance"}

\* An ORDER BY is a clause.
LEMMA OrderClause ==
  ASSUME NEW c \in Orderable, NEW d \in Directions
  PROVE  LET f == Words(<<"ORDER BY", c, d>>) IN HasClause(f, "ORDER BY") /\ NoOne(f)
<1> DEFINE tokens == <<"ORDER BY", c, d>>
           f == Words(tokens)
<1>1. c \in Word /\ d \in Word /\ c \notin Keywords /\ d \notin Keywords /\ c # "?" /\ d # "?" /\ c # "1" /\ d # "1"
  <2>1. c \in Word /\ c \notin Keywords \cup {"?", "1"}
    BY NameFacts DEF Word, Reserved, Keywords, Orderable
  <2>2. d \in Word /\ d \notin Keywords \cup {"?", "1"}
    BY DEF Word, Directions, Keywords
  <2> QED
    BY <2>1, <2>2
<1>2. "ORDER BY" \in Keywords /\ "ORDER BY" \in Word /\ "ORDER BY" # "1"
  BY KeywordFacts
<1>3. tokens \in Seq(Word) /\ Len(tokens) = 3 /\ tokens[1] = "ORDER BY" /\ tokens[2] = c /\ tokens[3] = d
  <2>1. Len(tokens) = 3
    OBVIOUS
  <2>2. tokens[1] = "ORDER BY" /\ tokens[2] = c /\ tokens[3] = d
    OBVIOUS
  <2>3. tokens \in Seq(Word)
    BY <1>1, <1>2, Triple
  <2> QED
    BY <2>1, <2>2, <2>3
<1> HIDE DEF tokens
<1>4. \A m \in 2 .. Len(tokens) : tokens[m] \notin Keywords /\ tokens[m] # "?"
  <2>1. \A m \in 2 .. 3 : m = 2 \/ m = 3
    OBVIOUS
  <2> QED
    BY <1>1, <1>3, <2>1
<1>5. HasClause(f, "ORDER BY")
  <2>1. Len(tokens) >= 1
    <3>1. 3 >= 1
      OBVIOUS
    <3> QED
      BY <1>3, <3>1
  <2> QED
    BY <1>2, <1>3, <1>4, <2>1, WordsClause
<1>6. NoOne(f)
  <2>1. f.text = tokens
    BY DEF Words
  <2>2. \A m \in 1 .. 3 : m = 1 \/ m = 2 \/ m = 3
    OBVIOUS
  <2> QED
    BY <1>1, <1>2, <1>3, <2>1, <2>2 DEF NoOne
<1> QED
  BY <1>5, <1>6 DEF tokens

-----------------------------------------------------------------------------
(* The condition of a search *)

\* Concatenation is associative,
LEMMA ConcatAssociates ==
  /\ \A x, y, z \in Seq(Word) : (x \o y) \o z = x \o (y \o z)
  /\ \A x, y, z \in Seq(Params) : (x \o y) \o z = x \o (y \o z)
OBVIOUS

\* Sequences with the same elements are the same.
LEMMA SameSequence ==
  ASSUME NEW S, NEW x \in Seq(S), NEW y \in Seq(S), Len(x) = Len(y), \A n \in 1 .. Len(x) : x[n] = y[n]
  PROVE  x = y
OBVIOUS

\* A pair is its first element and its second one.
LEMMA ConcatTwo ==
  ASSUME NEW S, NEW x \in S, NEW y \in S
  PROVE  <<x, y>> = <<x>> \o <<y>>
<1>1. <<x>> \in Seq(S) /\ <<y>> \in Seq(S) /\ Len(<<x>>) = 1 /\ Len(<<y>>) = 1
  OBVIOUS
<1>2. PICK u \in Seq(S) : u = <<x>>
  BY <1>1
<1>3. PICK v \in Seq(S) : v = <<y>>
  BY <1>1
<1>4. u \o v \in Seq(S) /\ Len(u \o v) = 2 /\ (u \o v)[1] = x /\ (u \o v)[2] = y
  BY <1>2, <1>3
<1>5. PICK z \in Seq(S) : z = u \o v
  BY <1>4
<1>6. PICK r \in Seq(S) : r = <<x, y>>
  <2>1. <<x, y>> \in Seq(S)
    OBVIOUS
  <2> QED
    BY <2>1, Zenon
<1>7. Len(r) = 2 /\ r[1] = x /\ r[2] = y
  BY <1>6
<1>8. \A n \in 1 .. 2 : r[n] = z[n]
  <2>1. \A n \in 1 .. 2 : n = 1 \/ n = 2
    OBVIOUS
  <2> QED
    BY <1>4, <1>5, <1>7, <2>1
<1>9. r = z
  BY <1>4, <1>5, <1>7, <1>8, SameSequence
<1> QED
  BY <1>2, <1>3, <1>5, <1>6, <1>9

\* ... and so is putting fragments one behind the other.
LEMMA PutAssociates ==
  ASSUME NEW f \in Fragment, NEW g \in Fragment, NEW h \in Fragment
  PROVE  Put(Put(f, g), h) = Put(f, Put(g, h))
<1>1. /\ f.text \in Seq(Word) /\ g.text \in Seq(Word) /\ h.text \in Seq(Word)
      /\ f.params \in Seq(Params) /\ g.params \in Seq(Params) /\ h.params \in Seq(Params)
  BY DEF Fragment
<1>2. (f.text \o g.text) \o h.text = f.text \o (g.text \o h.text)
  BY <1>1, ConcatAssociates
<1>3. (f.params \o g.params) \o h.params = f.params \o (g.params \o h.params)
  BY <1>1, ConcatAssociates
<1> QED
  BY <1>2, <1>3 DEF Put

\* A word that neither begins a clause nor joins or groups conditions.
IsBare(w) ==
  /\ w \in Word /\ w \notin Keywords
  /\ w # "(" /\ w # ")" /\ w # "?" /\ w # "1" /\ w # "AND" /\ w # "OR" /\ w # "NOT"

\* Two words.
Pair(v, w) == Words(<<v, w>>)

\* Two bare words in a statement.
LEMMA PairIs ==
  ASSUME NEW v, NEW w, IsBare(v), IsBare(w)
  PROVE  /\ IsClosed(Pair(v, w)) /\ NoOne(Pair(v, w))
         /\ \A s \in Statement, n \in Nat : At(s, n, Pair(v, w)) => s.text[n + 1] = v /\ s.text[(n + 1) + 1] = w
         /\ \A n \in Nat : End(n, Pair(v, w)) = (n + 1) + 1
<1> DEFINE f == Pair(v, w)
           g == Words(<<w>>)
<1>1. /\ v \in Word /\ v \notin Keywords
      /\ v # "(" /\ v # ")" /\ v # "?" /\ v # "1" /\ v # "AND" /\ v # "OR" /\ v # "NOT"
  BY DEF IsBare
<1>2. /\ w \in Word /\ w \notin Keywords
      /\ w # "(" /\ w # ")" /\ w # "?" /\ w # "1" /\ w # "AND" /\ w # "OR" /\ w # "NOT"
  BY DEF IsBare
<1>3. f = Put(Words(<<v>>), Words(<<w>>))
  <2>1. <<v, w>> = <<v>> \o <<w>>
    BY <1>1, <1>2, ConcatTwo
  <2>2. <<>> \o <<>> = <<>>
    OBVIOUS
  <2> QED
    BY <2>1, <2>2 DEF Pair, Put, Words
<1> HIDE DEF f
<1>4. g \in Fragment /\ \A n \in Nat : End(n, g) = n + 1
  BY <1>2, WordAt
<1>5. f \in Fragment /\ \A n \in Nat : End(n, f) = (n + 1) + 1
  <2> HIDE DEF g
  <2>1. Put(Words(<<v>>), g) \in Fragment /\ \A n \in Nat : End(n, Put(Words(<<v>>), g)) = End(n + 1, g)
    BY <1>1, <1>4, LedAt
  <2>2. \A n \in Nat : End(n + 1, g) = (n + 1) + 1
    BY <1>4
  <2> QED
    BY <1>3, <2>1, <2>2 DEF g
<1>6. NoOne(f)
  <2>1. NoOne(Words(<<v>>)) /\ Words(<<v>>) \in Fragment
    BY <1>1, NoOneWord
  <2>2. NoOne(g)
    BY <1>2, NoOneWord
  <2> QED
    BY <1>3, <1>4, <2>1, <2>2, NoOnePut
<1>7. ASSUME NEW s \in Statement, NEW n \in Nat, At(s, n, f)
      PROVE  /\ s.text[n + 1] = v /\ s.text[(n + 1) + 1] = w /\ Closed(s, n, f)
  <2> DEFINE t == s.text
  <2>1. At(s, n, Put(Words(<<v>>), g))
    BY <1>3, <1>7
  <2>2. t[n + 1] = v /\ At(s, n + 1, g) /\ (Binds(s, n + 1, g) => Binds(s, n, Put(Words(<<v>>), g)))
    <3> HIDE DEF g
    <3> QED
      BY <1>1, <1>4, <2>1, LedAt
  <2>3. PICK a \in Nat : a = n + 1
    OBVIOUS
  <2>4. t[a + 1] = w /\ Binds(s, a, g)
    BY <1>2, <2>2, <2>3, WordAt
  <2>5. Binds(s, n, f)
    BY <1>3, <2>2, <2>3, <2>4
  <2> HIDE DEF t, g
  <2>6. Depth(t, n) \in Int /\ Depth(t, n + 1) = Depth(t, n)
    BY <1>1, <2>2, DepthNext
  <2>7. Depth(t, a + 1) = Depth(t, a)
    BY <1>2, <2>4, DepthNext
  <2>8. ASSUME NEW m \in n + 1 .. (n + 1) + 1
        PROVE  Depth(t, m) >= Depth(t, n) /\ t[m] \notin Keywords /\ t[m] # "AND" /\ t[m] # "OR"
    <3>1. m = a \/ m = a + 1
      BY <2>3
    <3>2. Depth(t, m) = Depth(t, n)
      BY <2>3, <2>6, <2>7, <3>1
    <3>3. Depth(t, m) >= Depth(t, n)
      BY <2>6, <3>2
    <3> QED
      BY <1>1, <1>2, <2>2, <2>3, <2>4, <3>1, <3>3
  <2>9. Depth(t, (n + 1) + 1) = Depth(t, n)
    BY <2>3, <2>6, <2>7
  <2>10. Closed(s, n, f)
    BY <1>5, <2>5, <2>8, <2>9 DEF Closed, Neat, t
  <2> QED
    BY <2>2, <2>3, <2>4, <2>10 DEF t
<1>8. IsClosed(f)
  BY <1>5, <1>7 DEF IsClosed
<1> QED
  BY <1>5, <1>6, <1>7, <1>8 DEF f

\* A column with a test or a comparison.
TestOf(v, w, value) ==
  IF w = "IS NULL" THEN IsNull(v) ELSE IF w = "IS NOT NULL" THEN IsNotNull(v) ELSE Compare(v, w, value)

\* Two such words are read as a test of a column.
LEMMA PairSense ==
  ASSUME NEW v, NEW w, IsBare(v), IsBare(w)
  PROVE  \A s \in Statement, n \in Nat :
           \A read : Reads(read, s) /\ At(s, n, Pair(v, w)) =>
                       Between(read, n + 1, End(n, Pair(v, w))) = TestOf(v, w, Value(s, n + 3))
<1> DEFINE f == Pair(v, w)
<1>1. ASSUME NEW s \in Statement, NEW n \in Nat, NEW read, Reads(read, s), At(s, n, f)
      PROVE  Between(read, n + 1, End(n, f)) = TestOf(v, w, Value(s, n + 3))
  <2>1. End(n, f) = (n + 1) + 1 /\ IsClosed(f) /\ s.text[n + 1] = v /\ s.text[(n + 1) + 1] = w
    BY <1>1, PairIs
  <2>2. Closed(s, n, f) /\ f \in Fragment
    BY <1>1, <2>1 DEF IsClosed
  <2> HIDE DEF f
  <2>3. PICK lo \in Nat, hi \in Nat : lo = n + 1 /\ hi = (n + 1) + 1
    OBVIOUS
  <2>4. 1 <= lo /\ lo < hi /\ hi <= Len(s.text)
    <3>1. hi <= Len(s.text)
      BY <1>1, <2>1, <2>3 DEF At
    <3> QED
      BY <2>3, <3>1
  <2>5. Inside(s, lo, hi)
    <3>1. Inside(s, n + 1, End(n, f))
      BY <2>2, ClosedInside
    <3> QED
      BY <2>1, <2>3, <3>1
  <2>6. s.text[lo] = v /\ s.text[lo + 1] = w /\ s.text[lo] # "NOT" /\ s.text[lo] # "("
    BY <2>1, <2>3 DEF IsBare
  <2>7. Between(read, lo, hi) =
           IF s.text[lo + 1] = "IS NULL" THEN IsNull(s.text[lo])
           ELSE IF s.text[lo + 1] = "IS NOT NULL" THEN IsNotNull(s.text[lo])
           ELSE Compare(s.text[lo], s.text[lo + 1], Value(s, lo + 2))
    BY <1>1, <2>4, <2>5, <2>6, UnjoinedMore
  <2>8. lo + 2 = n + 3
    BY <2>3
  <2>9. Between(read, lo, hi) = TestOf(v, w, Value(s, n + 3))
    BY <2>6, <2>7, <2>8 DEF TestOf
  <2> QED
    BY <2>1, <2>3, <2>9
<1> QED
  BY <1>1 DEF f

\* The condition that the row has a vector.
Embedded == Words(<<"vector", "IS NOT NULL">>)

\* It is closed, and read as it is.
LEMMA EmbeddedIs ==
  /\ IsClosed(Embedded) /\ NoOne(Embedded)
  /\ \A s \in Statement, n \in Nat :
       \A read : Reads(read, s) /\ At(s, n, Embedded) =>
                   Between(read, n + 1, End(n, Embedded)) = IsNotNull("vector")
<1>1. "vector" \in Word /\ "IS NOT NULL" \in Word
  BY DEF Word, Reserved
<1>2. "vector" \notin Keywords /\ "IS NOT NULL" \notin Keywords
  BY DEF Keywords
<1>3. IsBare("vector") /\ IsBare("IS NOT NULL")
  BY <1>1, <1>2 DEF IsBare
<1>4. Embedded = Pair("vector", "IS NOT NULL")
  BY DEF Embedded, Pair
<1>5. \A value : TestOf("vector", "IS NOT NULL", value) = IsNotNull("vector")
  BY DEF TestOf
<1>6. IsClosed(Embedded) /\ NoOne(Embedded)
  BY <1>3, <1>4, PairIs
<1>7. \A s \in Statement, n \in Nat :
        \A read : Reads(read, s) /\ At(s, n, Embedded) =>
                    Between(read, n + 1, End(n, Embedded)) = TestOf("vector", "IS NOT NULL", Value(s, n + 3))
  BY <1>3, <1>4, PairSense, Zenon
<1> QED
  BY <1>5, <1>6, <1>7, Zenon

\* The condition of a search: that of the author, and that the row has a vector.
Filter(b) ==
  IF b.where = NoExpr THEN Put(Words(<<"WHERE">>), Embedded) ELSE Joined(Where(b), "AND", Embedded)

\* The WHERE clause of a search is read as the author's predicate and that the row has a vector.
LEMMA FilterClause ==
  ASSUME NEW b, b.where \in Wheres
  PROVE  /\ HasClause(Filter(b), "WHERE")
         /\ ~ HasTrue(b.where) => NoOne(Filter(b))
         /\ \A s \in Statement : \A n, rank :
              IsNumbered(s) /\ Found(s, Piece(Filter(b), "WHERE", rank), n) =>
                Condition(s) = IF b.where = NoExpr THEN IsNotNull("vector")
                               ELSE And(b.where, IsNotNull("vector"))
<1> DEFINE W == Words(<<"WHERE">>)
           M == Embedded
           v == IsNotNull("vector")
<1>1. W \in Fragment /\ NoOne(W) /\ "WHERE" \in Word
  BY KeywordFacts, NoOneWord
<1>2. /\ IsClosed(M) /\ M \in Fragment /\ NoOne(M)
      /\ \A s \in Statement, n \in Nat :
           \A read : Reads(read, s) /\ At(s, n, M) => Between(read, n + 1, End(n, M)) = v
  BY EmbeddedIs DEF IsClosed
<1> HIDE DEF M, v
<1>3. ASSUME NEW g \in Fragment, NEW e,
             \A s \in Statement, n \in Nat : At(s, n, g) => Neat(s, n, g),
             \A s \in Statement, n \in Nat :
               \A read : IsNumbered(s) /\ Reads(read, s) /\ At(s, n, g) => Between(read, n + 1, End(n, g)) = e
      PROVE  /\ HasClause(Put(W, g), "WHERE")
             /\ \A s \in Statement : \A n, rank :
                  IsNumbered(s) /\ Found(s, Piece(Put(W, g), "WHERE", rank), n) => Condition(s) = e
  <2>1. HasClause(Put(W, g), "WHERE")
    BY <1>3, KeywordFacts, LedClause
  <2>2. ASSUME NEW s \in Statement, NEW n, NEW rank, IsNumbered(s),
               Found(s, Piece(Put(W, g), "WHERE", rank), n)
        PROVE  Condition(s) = e
    <3>1. n \in Nat /\ At(s, n, Put(W, g))
      BY <2>2 DEF Found, Piece
    <3>2. PICK a \in Nat : a = n + 1
      BY <3>1
    <3>3. At(s, a, g)
      BY <3>1, <3>2, KeywordFacts, LedAt
    <3>4. ASSUME NEW read, Reads(read, s)
          PROVE  Between(read, n + 2, End(n + 1, g)) = e
      <4>1. Between(read, a + 1, End(a, g)) = e
        BY <1>3, <2>2, <3>3, <3>4
      <4>2. a + 1 = n + 2
        BY <3>1, <3>2
      <4> QED
        BY <3>2, <4>1, <4>2
    <3> QED
      BY <2>2, <3>4, ConditionIs
  <2> QED
    BY <2>1, <2>2
<1> HIDE DEF W
<1>4. CASE b.where = NoExpr
  <2>1. Filter(b) = Put(W, M)
    BY <1>4 DEF Filter, W, M
  <2>2. NoOne(Put(W, M))
    BY <1>1, <1>2, NoOnePut
  <2>3. \A s \in Statement, n \in Nat : At(s, n, M) => Neat(s, n, M)
    BY <1>2 DEF IsClosed, Closed
  <2>4. /\ HasClause(Put(W, M), "WHERE")
        /\ \A s \in Statement : \A n, rank :
             IsNumbered(s) /\ Found(s, Piece(Put(W, M), "WHERE", rank), n) => Condition(s) = v
    BY <1>2, <1>3, <2>3
  <2> QED
    BY <1>4, <2>1, <2>2, <2>4 DEF v
<1>5. CASE b.where \in Expressions
  <2> DEFINE e == b.where
             E == ExprSql(e)
             J == Joined(E, "AND", M)
  <2>1. b.where # NoExpr
    BY <1>5, NoExprOutside
  <2>2. IsClosed(E) /\ E \in Fragment
    BY <1>5, ShapeClosed DEF IsClosed
  <2>3. "AND" \in JoinWords /\ "AND" \in Word /\ "AND" # "1" /\ "AND" # "OR"
    BY NameFacts DEF JoinWords, Reserved
  <2>4. Where(b) = Put(W, E)
    BY <2>1 DEF Where, W
  <2> HIDE DEF E
  <2>5. Filter(b) = Put(W, J)
    <3> DEFINE A == Words(<<"AND">>)
    <3>1. A \in Fragment
      BY <2>3, WordAt
    <3>2. Filter(b) = Put(Put(Put(W, E), A), M)
      BY <2>1, <2>4 DEF Filter, Joined, M
    <3>3. J = Put(Put(E, A), M)
      BY DEF Joined
    <3> HIDE DEF A, J
    <3>4. Put(E, A) \in Fragment
      BY <2>2, <3>1, AtPut
    <3>5. Put(Put(W, E), A) = Put(W, Put(E, A))
      BY <1>1, <2>2, <3>1, PutAssociates
    <3>6. Put(Put(W, Put(E, A)), M) = Put(W, Put(Put(E, A), M))
      BY <1>1, <1>2, <3>4, PutAssociates
    <3> QED
      BY <3>2, <3>3, <3>5, <3>6
  <2>6. J \in Fragment
    BY <1>2, <2>2, <2>3, JoinedAt
  <2>7. ASSUME ~ HasTrue(e)
        PROVE  NoOne(Put(W, J))
    <3>1. NoOne(E)
      BY <1>5, <2>7, PlainNoOne DEF HasTrue, E
    <3>2. NoOne(J)
      BY <1>2, <2>2, <2>3, <3>1, NoOneJoined
    <3> QED
      BY <1>1, <2>6, <3>2, NoOnePut
  <2>8. ASSUME NEW s \in Statement, NEW n \in Nat, At(s, n, J)
        PROVE  /\ At(s, n, E) /\ Closed(s, n, E) /\ End(n, E) \in Nat
               /\ At(s, End(n, E) + 1, M) /\ Closed(s, End(n, E) + 1, M)
               /\ End(n, J) = End(End(n, E) + 1, M) /\ Neat(s, n, J)
    BY <1>2, <2>2, <2>3, <2>8, JoinedParts
  <2>9. ASSUME NEW s \in Statement, NEW n \in Nat, NEW read, IsNumbered(s), Reads(read, s), At(s, n, J)
        PROVE  Between(read, n + 1, End(n, J)) = And(e, v)
    <3>1. Between(read, n + 1, End(n, E)) = e
      BY <1>5, <2>8, <2>9, ExprSense DEF HasSense, E
    <3>2. PICK k \in Nat : k = End(n, E) + 1
      BY <2>8, <2>9
    <3>3. Between(read, k + 1, End(k, M)) = v
      BY <1>2, <2>8, <2>9, <3>2
    <3>4. Between(read, End(n, E) + 2, End(n, J)) = v
      <4>1. k + 1 = End(n, E) + 2
        BY <2>8, <2>9, <3>2
      <4> HIDE DEF J
      <4> QED
        BY <2>8, <2>9, <3>2, <3>3, <4>1
    <3>5. Between(read, n + 1, End(n, J)) = IF "AND" = "OR" THEN Or(e, v) ELSE And(e, v)
      BY <1>2, <2>2, <2>3, <2>8, <2>9, <3>1, <3>4, JoinedRead
    <3> QED
      BY <2>3, <3>5
  <2> HIDE DEF J, e
  <2>10. /\ HasClause(Put(W, J), "WHERE")
         /\ \A s \in Statement : \A n, rank :
              IsNumbered(s) /\ Found(s, Piece(Put(W, J), "WHERE", rank), n) => Condition(s) = And(e, v)
    BY <1>3, <2>6, <2>8, <2>9
  <2> QED
    BY <2>1, <2>5, <2>7, <2>10 DEF e, v
<1> QED
  BY <1>4, <1>5 DEF Wheres

-----------------------------------------------------------------------------
(* Lists of items *)

\* The elements of a concatenation.
LEMMA ConcatIs ==
  ASSUME NEW S, NEW x \in Seq(S), NEW y \in Seq(S)
  PROVE  /\ x \o y \in Seq(S) /\ Len(x \o y) = Len(x) + Len(y)
         /\ \A n \in 1 .. Len(x) : (x \o y)[n] = x[n]
         /\ \A n \in 1 .. Len(y) : (x \o y)[Len(x) + n] = y[n]
<1>1. x \o y \in Seq(S) /\ Len(x \o y) = Len(x) + Len(y)
  OBVIOUS
<1>2. \A n \in 1 .. Len(x) : (x \o y)[n] = x[n]
  OBVIOUS
<1>3. \A n \in 1 .. Len(y) : (x \o y)[Len(x) + n] = y[n]
  OBVIOUS
<1> QED
  BY <1>1, <1>2, <1>3

\* How many tokens an item and its comma have: those of an INSERT, those of an UPDATE.
Periods == {2, 4}

\* Places of a list, by block and place in the block:
LEMMA Divided ==
  ASSUME NEW p \in Periods, NEW N \in Nat
  PROVE  /\ \A j \in 0 .. N, r \in 1 .. p - 1 : (j * p + r) % p = r /\ ((j * p + r) - 1) \div p = j
         /\ \A j \in 0 .. N : (j * p) % p = 0
         /\ \A j \in 0 .. N : j * p \in Nat
<1>1. CASE p = 2
  <2>1. \A j \in 0 .. N : (j * 2) % 2 = 0
    OBVIOUS
  <2>2. \A j \in 0 .. N, r \in 1 .. 1 : (j * 2 + r) % 2 = r /\ ((j * 2 + r) - 1) \div 2 = j
    OBVIOUS
  <2> QED
    BY <1>1, <2>1, <2>2
<1>2. CASE p = 4
  <2>1. \A j \in 0 .. N : (j * 4) % 4 = 0
    OBVIOUS
  <2>2. \A j \in 0 .. N, r \in 1 .. 3 : (j * 4 + r) % 4 = r /\ ((j * 4 + r) - 1) \div 4 = j
    OBVIOUS
  <2> QED
    BY <1>2, <2>1, <2>2
<1> QED
  BY <1>1, <1>2 DEF Periods

\* ... each place has one of each,
LEMMA Remainders ==
  ASSUME NEW l \in Nat
  PROVE  /\ \E j \in Nat, i \in 0 .. 1 : l = j * 2 + i
         /\ \E j \in Nat, i \in 0 .. 3 : l = j * 4 + i
<1>1. PICK j \in Nat, i \in 0 .. 1 : j = l \div 2 /\ i = l % 2 /\ l = j * 2 + i
  OBVIOUS
<1>2. PICK k \in Nat, r \in 0 .. 3 : k = l \div 4 /\ r = l % 4 /\ l = k * 4 + r
  OBVIOUS
<1> QED
  BY <1>1, <1>2

\* ... and is the end of a block or inside of one.
LEMMA Multiples ==
  ASSUME NEW p \in Periods, NEW N \in Nat, NEW m \in 1 .. N * p - 1
  PROVE  \/ \E j \in 1 .. N - 1 : m = j * p
         \/ \E j \in 1 .. N, r \in 1 .. p - 1 : m = (j - 1) * p + r
<1>1. CASE p = 2
  <2>1. PICK i \in Nat, r \in 0 .. 1 : i = m \div 2 /\ r = m % 2 /\ m = i * 2 + r
    OBVIOUS
  <2>2. m \in 1 .. N * 2 - 1
    BY <1>1
  <2>3. CASE r = 0
    <3>1. i \in 1 .. N - 1 /\ m = i * 2
      BY <2>1, <2>2, <2>3
    <3> QED
      BY <1>1, <3>1
  <2>4. CASE r # 0
    <3>1. i + 1 \in 1 .. N /\ r \in 1 .. 1
      BY <2>1, <2>2, <2>4
    <3>2. PICK j \in 1 .. N : j = i + 1
      BY <3>1
    <3>3. m = (j - 1) * 2 + r
      BY <2>1, <3>2
    <3> QED
      BY <1>1, <3>1, <3>3
  <2> QED
    BY <2>3, <2>4
<1>2. CASE p = 4
  <2>1. PICK i \in Nat, r \in 0 .. 3 : i = m \div 4 /\ r = m % 4 /\ m = i * 4 + r
    OBVIOUS
  <2>2. m \in 1 .. N * 4 - 1
    BY <1>2
  <2>3. CASE r = 0
    <3>1. i \in 1 .. N - 1 /\ m = i * 4
      BY <2>1, <2>2, <2>3
    <3> QED
      BY <1>2, <3>1
  <2>4. CASE r # 0
    <3>1. i + 1 \in 1 .. N /\ r \in 1 .. 3
      BY <2>1, <2>2, <2>4
    <3>2. PICK j \in 1 .. N : j = i + 1
      BY <3>1
    <3>3. m = (j - 1) * 4 + r
      BY <2>1, <3>2
    <3> QED
      BY <1>2, <3>1, <3>3
  <2> QED
    BY <2>3, <2>4
<1> QED
  BY <1>1, <1>2 DEF Periods

\* Where the j-th block of a list ends that begins behind n tokens.
Stop(p, n, j) == n + j * p

\* Blocks follow each other.
LEMMA StopIs ==
  ASSUME NEW p \in Periods, NEW n \in Nat, NEW j \in Nat
  PROVE  /\ Stop(p, n, j) \in Nat /\ Stop(p, n, 0) = n
         /\ Stop(p, n, j + 1) = Stop(p, n, j) + p
         /\ Stop(p, n, j) = n + Stop(p, 0, j)
         /\ \A i \in 0 .. j : Stop(p, n, i) <= Stop(p, n, j)
<1>1. CASE p = 2
  BY <1>1 DEF Stop
<1>2. CASE p = 4
  BY <1>2 DEF Stop
<1> QED
  BY <1>1, <1>2 DEF Periods

\* Blocks that begin with the text.
LEMMA StopFirst ==
  ASSUME NEW p \in Periods, NEW j \in Nat
  PROVE  /\ Stop(p, 0, j) \in Nat
         /\ Stop(p, 0, j + 1) = Stop(p, 0, j) + p
         /\ \A n \in Nat : Stop(p, n, j) = n + Stop(p, 0, j)
<1>1. CASE p = 2
  BY <1>1 DEF Stop
<1>2. CASE p = 4
  BY <1>2 DEF Stop
<1> QED
  BY <1>1, <1>2 DEF Periods

\* No blocks end where the text begins.
LEMMA StopZero ==
  ASSUME NEW p \in Periods
  PROVE  Stop(p, 0, 0) = 0
BY DEF Stop, Periods

\* N items of one length.
IsItems(items, p, N) ==
  /\ Len(items) = N /\ Len(items[1]) = p - 1
  /\ \A j \in 1 .. N, r \in 1 .. p - 1 : items[j][r] \in Word

\* The tokens of the items with commas between them.
LEMMA CommasIs ==
  ASSUME NEW p \in Periods, NEW N \in Nat, 1 <= N, NEW items, IsItems(items, p, N)
  PROVE  /\ Commas(items) \in Seq(Word) /\ Len(Commas(items)) = N * p - 1
         /\ \A m \in 1 .. N * p - 1 :
              Commas(items)[m] = IF m % p = 0 THEN "," ELSE items[(m - 1) \div p + 1][m % p]
<1> DEFINE K == N * p - 1
           e(m) == IF m % p = 0 THEN "," ELSE items[(m - 1) \div p + 1][m % p]
<1>1. p \in Nat /\ p >= 2 /\ K \in Nat
  <2>1. N * p \in Nat /\ N * p >= 1
    <3>1. CASE p = 2
      BY <3>1
    <3>2. CASE p = 4
      BY <3>2
    <3> QED
      BY <3>1, <3>2 DEF Periods
  <2> QED
    BY <2>1 DEF Periods
<1>2. Commas(items) = [m \in 1 .. K |-> e(m)]
  <2>1. Len(items[1]) + 1 = p /\ Len(items) = N
    BY <1>1 DEF IsItems
  <2> QED
    BY <2>1, Zenon DEF Commas
<1>3. "," \in Word
  BY DEF Word
<1>4. ASSUME NEW m \in 1 .. K
      PROVE  e(m) \in Word
  <2>1. CASE \E j \in 1 .. N - 1 : m = j * p
    <3>1. PICK j \in 1 .. N - 1 : m = j * p
      BY <2>1
    <3>2. m % p = 0
      BY <3>1, Divided
    <3> QED
      BY <1>3, <3>2
  <2>2. CASE \E j \in 1 .. N, r \in 1 .. p - 1 : m = (j - 1) * p + r
    <3>1. PICK j \in 1 .. N, r \in 1 .. p - 1 : m = (j - 1) * p + r
      BY <2>2
    <3>2. PICK i \in 0 .. N : i = j - 1
      OBVIOUS
    <3>3. m % p = r /\ (m - 1) \div p = i
      BY <3>1, <3>2, Divided
    <3>4. (m - 1) \div p + 1 = j /\ r # 0
      BY <3>2, <3>3
    <3>5. e(m) = items[j][r]
      BY <3>3, <3>4
    <3> QED
      BY <3>5 DEF IsItems
  <2> QED
    BY <2>1, <2>2, Multiples
<1> HIDE DEF e, K
<1>5. [m \in 1 .. K |-> e(m)] \in Seq(Word) /\ Len([m \in 1 .. K |-> e(m)]) = K
  BY <1>1, <1>4
<1> QED
  BY <1>2, <1>5 DEF e, K

\* The text of a list: a keyword and the items.
IsRow(t, w, p, N, items) ==
  /\ t \in Seq(Word) /\ Len(t) = Stop(p, 0, N) /\ t[1] = w
  /\ \A j \in 1 .. N - 1 : t[Stop(p, 0, j) + 1] = ","
  /\ \A j \in 0 .. N - 1, r \in 2 .. p : t[Stop(p, 0, j) + r] = items[j + 1][r - 1]
  /\ \A m \in 1 .. Len(t) : \E j \in 0 .. N - 1, r \in 1 .. p : m = Stop(p, 0, j) + r

\* A keyword and items with commas are a list: each block has an item and a comma or the keyword.
LEMMA RowText ==
  ASSUME NEW p \in Periods, NEW N \in Nat, 1 <= N, NEW items, IsItems(items, p, N), NEW w \in Word,
         NEW t, t = <<w>> \o Commas(items)
  PROVE  IsRow(t, w, p, N, items)
<1> DEFINE C == Commas(items)
           K == N * p - 1
<1>1. C \in Seq(Word) /\ Len(C) = K
  BY CommasIs
<1>2. \A m \in 1 .. K : C[m] = IF m % p = 0 THEN "," ELSE items[(m - 1) \div p + 1][m % p]
  BY CommasIs
<1>3. p \in Nat /\ p >= 2 /\ K \in Nat /\ N * p \in Nat /\ K = N * p - 1
  <2>1. CASE p = 2
    BY <2>1
  <2>2. CASE p = 4
    BY <2>2
  <2> QED
    BY <2>1, <2>2 DEF Periods
<1> HIDE DEF C, K
<1>4. t \in Seq(Word) /\ Len(t) = N * p /\ t[1] = w /\ \A m \in 1 .. K : t[m + 1] = C[m]
  <2>1. t = <<w>> \o C /\ <<w>> \in Seq(Word) /\ Len(<<w>>) = 1
    BY DEF C
  <2>2. PICK u \in Seq(Word) : u = <<w>>
    BY <2>1
  <2>3. t = u \o C /\ Len(u) = 1 /\ u[1] = w
    BY <2>1, <2>2
  <2>4. t \in Seq(Word) /\ Len(t) = 1 + K /\ t[1] = w
    <3>1. t \in Seq(Word)
      <4>1. u \o C \in Seq(Word)
        BY <1>1
      <4> QED
        BY <2>3, <4>1, Zenon
    <3>2. Len(t) = Len(u) + Len(C)
      <4>1. Len(u \o C) = Len(u) + Len(C)
        BY <1>1, ConcatIs
      <4> QED
        BY <2>3, <4>1, Zenon
    <3>3. t[1] = u[1]
      BY <1>1, <1>3, <2>3
    <3> QED
      BY <1>1, <2>3, <3>1, <3>2, <3>3
  <2>5. ASSUME NEW m \in 1 .. K
        PROVE  t[m + 1] = C[m]
    <3>1. PICK i \in Nat : i = m + 1
      BY <1>3
    <3>2. i \in 1 .. Len(u) + Len(C) /\ i > Len(u) /\ i - Len(u) = m
      BY <1>1, <1>3, <2>3, <3>1
    <3>3. (u \o C)[i] = C[i - Len(u)]
      BY <1>1, <3>2
    <3> QED
      BY <2>3, <3>1, <3>2, <3>3
  <2> QED
    BY <1>3, <2>4, <2>5
<1>5. ASSUME NEW j \in 0 .. N
      PROVE  Stop(p, 0, j) = j * p /\ j * p \in Nat
  BY Divided DEF Stop
<1>6. ASSUME NEW j \in 1 .. N - 1
      PROVE  t[Stop(p, 0, j) + 1] = ","
  <2>1. j * p \in 1 .. K
    <3>1. CASE p = 2
      BY <3>1, <1>3
    <3>2. CASE p = 4
      BY <3>2, <1>3
    <3> QED
      BY <3>1, <3>2 DEF Periods
  <2>2. j \in 0 .. N
    OBVIOUS
  <2>3. (j * p) % p = 0
    BY <2>2, Divided
  <2> QED
    BY <1>2, <1>4, <1>5, <2>1, <2>2, <2>3
<1>7. ASSUME NEW j \in 0 .. N - 1, NEW r \in 2 .. p
      PROVE  t[Stop(p, 0, j) + r] = items[j + 1][r - 1]
  <2>1. PICK q \in 1 .. p - 1 : q = r - 1
    BY <1>3
  <2>2. j * p + q \in 1 .. K
    <3>1. CASE p = 2
      BY <3>1, <1>3
    <3>2. CASE p = 4
      BY <3>2, <1>3
    <3> QED
      BY <3>1, <3>2 DEF Periods
  <2>3. (j * p + q) % p = q /\ ((j * p + q) - 1) \div p = j
    <3>1. j \in 0 .. N
      OBVIOUS
    <3> QED
      BY <3>1, Divided
  <2>4. C[j * p + q] = items[j + 1][q]
    <3>1. q # 0
      OBVIOUS
    <3> QED
      BY <1>2, <2>2, <2>3, <3>1
  <2>5. Stop(p, 0, j) + r = (j * p + q) + 1
    <3>1. j \in 0 .. N
      OBVIOUS
    <3>2. Stop(p, 0, j) = j * p /\ j * p \in Nat
      BY <1>5, <3>1
    <3>3. PICK x \in Nat : x = j * p
      BY <3>2
    <3>4. x + r = (x + q) + 1
      BY <2>1
    <3> QED
      BY <3>2, <3>3, <3>4
  <2> QED
    BY <1>4, <2>1, <2>2, <2>4, <2>5
<1>8. ASSUME NEW m \in 1 .. Len(t)
      PROVE  \E j \in 0 .. N - 1, r \in 1 .. p : m = Stop(p, 0, j) + r
  <2>1. CASE p = 2
    <3>1. m \in 1 .. N * 2
      BY <1>4, <2>1
    <3>2. PICK l \in Nat : l = m - 1
      BY <3>1
    <3>3. PICK j \in Nat, i \in 0 .. 1 : l = j * 2 + i
      BY Remainders
    <3>4. j \in 0 .. N - 1 /\ i + 1 \in 1 .. 2 /\ m = j * 2 + (i + 1)
      BY <3>1, <3>2, <3>3
    <3>5. Stop(2, 0, j) = j * 2
      BY DEF Stop
    <3> QED
      BY <2>1, <3>4, <3>5
  <2>2. CASE p = 4
    <3>1. m \in 1 .. N * 4
      BY <1>4, <2>2
    <3>2. PICK l \in Nat : l = m - 1
      BY <3>1
    <3>3. PICK j \in Nat, i \in 0 .. 3 : l = j * 4 + i
      BY Remainders
    <3>4. j \in 0 .. N - 1 /\ i + 1 \in 1 .. 4 /\ m = j * 4 + (i + 1)
      BY <3>1, <3>2, <3>3
    <3>5. Stop(4, 0, j) = j * 4
      BY DEF Stop
    <3> QED
      BY <2>2, <3>4, <3>5
  <2> QED
    BY <2>1, <2>2 DEF Periods
<1>9. Len(t) = Stop(p, 0, N)
  BY <1>4, <1>5
<1> QED
  BY <1>4, <1>6, <1>7, <1>8, <1>9 DEF IsRow

\* A list has a placeholder at the end of each block, and nowhere else.
IsList(f, w, p, N) ==
  /\ f \in Fragment /\ Len(f.params) = N /\ Len(f.text) = Stop(p, 0, N) /\ f.text[1] = w
  /\ \A j \in 0 .. N - 1 :
       f.text[Stop(p, 0, j) + p] = "?" /\ \A r \in 1 .. p - 1 : f.text[Stop(p, 0, j) + r] # "?"
  /\ \A m \in 2 .. Len(f.text) : f.text[m] \notin Keywords

\* A list is a clause, and the value bound to the placeholder of a block is the parameter of the same number.
LEMMA ListClause ==
  ASSUME NEW p \in Periods, NEW N \in Nat, 1 <= N, NEW w \in Keywords, NEW f, IsList(f, w, p, N)
  PROVE  /\ HasClause(f, w)
         /\ \A n \in Nat : End(n, f) = Stop(p, n, N)
         /\ \A s \in Statement, n \in Nat :
              At(s, n, f) =>
                /\ \A m \in 1 .. Len(f.text) : s.text[n + m] = f.text[m]
                /\ IsNumbered(s) => \A j \in 0 .. N - 1 : Value(s, Stop(p, n, j) + p) = f.params[j + 1]
<1>1. /\ f \in Fragment /\ Len(f.params) = N /\ Len(f.text) = Stop(p, 0, N) /\ f.text[1] = w
      /\ \A m \in 2 .. Len(f.text) : f.text[m] \notin Keywords
  BY DEF IsList
<1>2. p \in Nat /\ p >= 2
  BY DEF Periods
<1>3. \A n \in Nat : End(n, f) = Stop(p, n, N)
  BY <1>1, StopIs DEF End
<1>4. ASSUME NEW s \in Statement, NEW n \in Nat, At(s, n, f)
      PROVE  /\ Binds(s, n, f) /\ IsClause(s.text, Clause(n, End(n, f), w))
             /\ \A m \in 1 .. Len(f.text) : s.text[n + m] = f.text[m]
             /\ IsNumbered(s) => \A j \in 0 .. N - 1 : Value(s, Stop(p, n, j) + p) = f.params[j + 1]
  <2> DEFINE t == s.text
             before == Count(t, "?", n)
  <2>1. \A m \in 1 .. Len(f.text) : t[n + m] = f.text[m]
    BY <1>4 DEF At
  <2>2. before \in Nat /\ t = s.text
    BY CountType
  <2>3. \A m \in 1 .. N : s.params[before + m] = f.params[m]
    BY <1>1, <1>4 DEF At
  <2>4. End(n, f) <= Len(t)
    BY <1>4 DEF At
  <2> HIDE DEF t, before
  <2>5. ASSUME NEW j \in 0 .. N - 1
        PROVE  /\ t[Stop(p, n, j) + p] = "?"
               /\ \A r \in 1 .. p - 1 : t[Stop(p, n, j) + r] # "?"
    <3> j \in Nat /\ j + 1 \in Nat /\ 0 \in Nat /\ j + 1 \in 0 .. N
      OBVIOUS
    <3>1. PICK x \in Nat : x = Stop(p, 0, j) /\ Stop(p, n, j) = n + x /\ x + p = Stop(p, 0, j + 1)
      <4>1. Stop(p, 0, j) \in Nat /\ Stop(p, n, j) = n + Stop(p, 0, j)
        BY StopFirst
      <4>2. Stop(p, 0, j) + p = Stop(p, 0, j + 1)
        BY StopIs
      <4> QED
        BY <4>1, <4>2
    <3>2. Stop(p, 0, j + 1) <= Stop(p, 0, N)
      BY StopIs
    <3>3. Stop(p, 0, j + 1) \in Nat /\ Stop(p, 0, N) \in Nat
      BY StopIs
    <3>4. x + p <= Len(f.text)
      BY <1>1, <3>1, <3>2
    <3>5. f.text[x + p] = "?" /\ \A r \in 1 .. p - 1 : f.text[x + r] # "?"
      BY <3>1 DEF IsList
    <3>6. ASSUME NEW r \in 1 .. p
          PROVE  t[(n + x) + r] = f.text[x + r]
      <4>1. PICK y \in 1 .. Len(f.text) : y = x + r
        BY <1>1, <1>2, <3>3, <3>4
      <4>2. n + y = (n + x) + r
        BY <4>1
      <4> QED
        BY <2>1, <4>1, <4>2
    <3>7. t[(n + x) + p] = "?"
      <4>1. p \in 1 .. p
        BY <1>2
      <4> QED
        BY <3>5, <3>6, <4>1
    <3>8. \A r \in 1 .. p - 1 : t[(n + x) + r] # "?"
      <4>1. \A r \in 1 .. p - 1 : r \in 1 .. p
        BY <1>2
      <4> QED
        BY <3>5, <3>6, <4>1
    <3> QED
      BY <3>1, <3>7, <3>8
  <2>6. \A j \in 0 .. N : Count(t, "?", Stop(p, n, j)) = before + j
    <3> DEFINE H == {j \in 0 .. N : Count(t, "?", Stop(p, n, j)) = before + j}
    <3>1. 0 \in H
      <4>1. Stop(p, n, 0) = n
        BY StopIs
      <4>2. before + 0 = before
        BY <2>2
      <4> QED
        BY <4>1, <4>2 DEF before
    <3>2. ASSUME NEW j \in 1 .. N, j - 1 \in H
          PROVE  j \in H
      <4>1. PICK i \in 0 .. N - 1 : i = j - 1 /\ j = i + 1
        OBVIOUS
      <4>2. Count(t, "?", Stop(p, n, i)) = before + i
        BY <3>2, <4>1
      <4>3. PICK x \in Nat : x = Stop(p, n, i) /\ Stop(p, n, j) = x + p
        <5>1. i \in Nat
          OBVIOUS
        <5> HIDE DEF H
        <5>2. Stop(p, n, i) \in Nat /\ Stop(p, n, i + 1) = Stop(p, n, i) + p
          BY <5>1, StopIs, Zenon
        <5> QED
          BY <4>1, <5>2
      <4>4. PICK k \in Nat : k = p - 1
        BY <1>2
      <4>5. t[x + p] = "?" /\ \A r \in 1 .. k : t[x + r] # "?"
        BY <2>5, <4>3, <4>4
      <4>6. Count(t, "?", x + k) = Count(t, "?", x)
        BY <4>5, CountStill
      <4>7. PICK y \in Nat : y = x + k
        OBVIOUS
      <4>8. y + 1 = x + p
        BY <1>2, <4>4, <4>7
      <4>9. Count(t, "?", y + 1) = Count(t, "?", y) + 1
        BY <4>5, <4>8, CountNext
      <4>10. Count(t, "?", Stop(p, n, j)) = (before + i) + 1
        BY <4>2, <4>3, <4>6, <4>7, <4>8, <4>9
      <4>11. (before + i) + 1 = before + j
        BY <2>2, <4>1
      <4> QED
        BY <4>10, <4>11
    <3>3. \A j \in 1 .. N : j - 1 \in H => j \in H
      BY <3>2
    <3>4. \A j \in 0 .. N : j \in H
      <4> HIDE DEF H
      <4> QED
        BY <3>1, <3>3, Induction
    <3> QED
      BY <3>4
  <2>7. Binds(s, n, f)
    <3>1. N \in 0 .. N
      OBVIOUS
    <3>2. Count(t, "?", End(n, f)) = before + N
      BY <1>3, <2>6, <3>1
    <3> QED
      BY <1>1, <3>2 DEF Binds, t, before
  <2>8. IsClause(t, Clause(n, End(n, f), w))
    <3>1. PICK k \in Nat : k = Len(f.text) /\ k = Stop(p, 0, N) /\ End(n, f) = n + k
      BY <1>1, StopIs DEF End
    <3>2. k >= 1
      <4>1. PICK i \in Nat : N = i + 1
        BY SMT
      <4>2. k = Stop(p, 0, i) + p /\ Stop(p, 0, i) \in Nat
        <5>1. Stop(p, 0, i) \in Nat /\ Stop(p, 0, i + 1) = Stop(p, 0, i) + p
          BY StopFirst
        <5> QED
          BY <3>1, <4>1, <5>1
      <4> QED
        BY <1>2, <4>2
    <3>3. t[n + 1] = w
      <4>1. 1 \in 1 .. Len(f.text)
        BY <3>1, <3>2
      <4> QED
        BY <1>1, <2>1, <4>1
    <3>4. ASSUME NEW m \in n + 2 .. n + k
          PROVE  t[m] \notin Keywords
      <4>1. PICK y \in 2 .. Len(f.text) : n + y = m
        <5>1. m - n \in 2 .. k /\ n + (m - n) = m
          OBVIOUS
        <5> QED
          BY <3>1, <5>1
      <4>2. y \in 1 .. Len(f.text)
        BY <3>1
      <4> QED
        BY <1>1, <2>1, <4>1, <4>2
    <3>5. n + k \in Nat /\ n <= n + k /\ n + k <= Len(t)
      BY <2>4, <3>1
    <3> QED
      BY <3>1, <3>3, <3>4, <3>5 DEF IsClause, Clause
  <2>9. ASSUME IsNumbered(s), NEW j \in 0 .. N - 1
        PROVE  Value(s, Stop(p, n, j) + p) = f.params[j + 1]
    <3> j \in Nat /\ j + 1 \in Nat
      OBVIOUS
    <3>1. PICK x \in Nat : x = Stop(p, n, j + 1) /\ x = Stop(p, n, j) + p
      <4>1. Stop(p, n, j + 1) = Stop(p, n, j) + p
        BY StopIs
      <4>2. Stop(p, n, j + 1) \in Nat
        BY StopIs
      <4> QED
        BY <4>1, <4>2
    <3>2. j + 1 \in 0 .. N /\ j + 1 \in 1 .. N
      OBVIOUS
    <3>3. x <= Stop(p, n, N)
      BY <3>1, <3>2, StopIs
    <3>4. x >= 1
      <4>1. Stop(p, n, j) \in Nat
        BY StopIs
      <4> QED
        BY <1>2, <3>1, <4>1
    <3>5. x \in 1 .. Len(t)
      <4>1. Len(t) \in Nat
        BY <2>2 DEF Statement
      <4>2. Stop(p, n, N) <= Len(t) /\ Stop(p, n, N) \in Nat
        BY <1>3, <2>4, StopIs
      <4> QED
        BY <3>3, <3>4, <4>1, <4>2
    <3>6. s.numbers[x] = Count(t, "?", x)
      BY <2>2, <2>9, <3>5 DEF IsNumbered
    <3>7. s.numbers[x] = before + (j + 1)
      BY <2>6, <3>1, <3>2, <3>6
    <3>8. s.params[before + (j + 1)] = f.params[j + 1]
      BY <2>3, <3>2
    <3> QED
      BY <3>1, <3>7, <3>8 DEF Value
  <2> QED
    BY <2>1, <2>2, <2>7, <2>8, <2>9
<1> QED
  BY <1>1, <1>3, <1>4 DEF HasClause

\* Items that end with a placeholder and have no other.
EndBound(items, p, N) ==
  /\ \A j \in 1 .. N : items[j][p - 1] = "?"
  /\ \A j \in 1 .. N, r \in 1 .. p - 2 : items[j][r] \notin Keywords /\ items[j][r] # "?" /\ items[j][r] # "1"

\* The items stand in the blocks of the list.
HasItems(f, items, p, N) ==
  \A j \in 0 .. N - 1, r \in 2 .. p : f.text[Stop(p, 0, j) + r] = items[j + 1][r - 1]

\* A list of items that end with a placeholder.
LEMMA RowIsList ==
  ASSUME NEW p \in Periods, NEW N \in Nat, 1 <= N, NEW items, IsItems(items, p, N), NEW w \in Keywords,
         NEW f, f.text = <<w>> \o Commas(items), f \in Fragment, Len(f.params) = N, EndBound(items, p, N)
  PROVE  IsList(f, w, p, N) /\ NoOne(f) /\ HasItems(f, items, p, N)
<1> DEFINE t == f.text
<1>1. w \in Word /\ w # "?" /\ w # "1" /\ "?" \notin Keywords /\ "," \notin Keywords /\ "?" # "1" /\ "," # "1" /\ "," # "?"
  BY KeywordFacts DEF Keywords
<1>2. /\ t \in Seq(Word) /\ Len(t) = Stop(p, 0, N) /\ t[1] = w
      /\ \A j \in 1 .. N - 1 : t[Stop(p, 0, j) + 1] = ","
      /\ \A j \in 0 .. N - 1, r \in 2 .. p : t[Stop(p, 0, j) + r] = items[j + 1][r - 1]
      /\ \A m \in 1 .. Len(t) : \E j \in 0 .. N - 1, r \in 1 .. p : m = Stop(p, 0, j) + r
  <2>1. IsRow(t, w, p, N, items)
    BY <1>1, RowText
  <2> QED
    BY <2>1 DEF IsRow
<1>3. p \in Nat /\ p >= 2
  BY DEF Periods
<1>4. Stop(p, 0, 0) = 0
  BY StopZero
<1> HIDE DEF t
<1>5. ASSUME NEW j \in 0 .. N - 1
      PROVE  /\ t[Stop(p, 0, j) + p] = "?"
             /\ \A r \in 2 .. p - 1 : /\ t[Stop(p, 0, j) + r] \notin Keywords
                                      /\ t[Stop(p, 0, j) + r] # "?" /\ t[Stop(p, 0, j) + r] # "1"
             /\ j = 0 => t[Stop(p, 0, j) + 1] = w
             /\ j # 0 => t[Stop(p, 0, j) + 1] = ","
  <2>1. PICK i \in 1 .. N : i = j + 1
    OBVIOUS
  <2>2. \A r \in 2 .. p : t[Stop(p, 0, j) + r] = items[i][r - 1]
    BY <1>2, <2>1
  <2>3. t[Stop(p, 0, j) + p] = "?"
    <3>1. p \in 2 .. p
      BY <1>3
    <3>2. items[i][p - 1] = "?"
      BY DEF EndBound
    <3> QED
      BY <2>2, <3>1, <3>2
  <2>4. ASSUME NEW r \in 2 .. p - 1
        PROVE  /\ t[Stop(p, 0, j) + r] \notin Keywords
               /\ t[Stop(p, 0, j) + r] # "?" /\ t[Stop(p, 0, j) + r] # "1"
    <3>1. PICK q \in 1 .. p - 2 : q = r - 1
      BY <1>3
    <3>2. r \in 2 .. p
      BY <1>3
    <3>3. items[i][q] \notin Keywords /\ items[i][q] # "?" /\ items[i][q] # "1"
      BY DEF EndBound
    <3> QED
      BY <2>2, <3>1, <3>2, <3>3
  <2>5. j = 0 => t[Stop(p, 0, j) + 1] = w
    <3>1. 0 + 1 = 1
      OBVIOUS
    <3> QED
      BY <1>2, <1>4, <3>1
  <2>6. j # 0 => t[Stop(p, 0, j) + 1] = ","
    <3>1. j # 0 => j \in 1 .. N - 1
      OBVIOUS
    <3> QED
      BY <1>2, <3>1
  <2> QED
    BY <2>3, <2>4, <2>5, <2>6
<1>6. ASSUME NEW j \in 0 .. N - 1, NEW r \in 1 .. p
      PROVE  /\ r # p => t[Stop(p, 0, j) + r] # "?"
             /\ t[Stop(p, 0, j) + r] # "1"
             /\ Stop(p, 0, j) + r # 1 => t[Stop(p, 0, j) + r] \notin Keywords
  <2>1. CASE r = p
    BY <1>1, <1>5, <2>1
  <2>2. CASE r # p /\ r # 1
    <3>1. r \in 2 .. p - 1
      BY <1>3, <2>2
    <3> QED
      BY <1>5, <3>1
  <2>3. CASE r # p /\ r = 1
    <3>1. CASE j = 0
      <4>1. 0 + 1 = 1
        OBVIOUS
      <4> QED
        BY <1>1, <1>4, <1>5, <2>3, <3>1, <4>1
    <3>2. CASE j # 0
      BY <1>1, <1>5, <2>3, <3>2
    <3> QED
      BY <3>1, <3>2
  <2> QED
    BY <2>1, <2>2, <2>3
<1>7. NoOne(f)
  <2>1. ASSUME NEW m \in 1 .. Len(t)
        PROVE  t[m] # "1"
    <3>1. PICK j \in 0 .. N - 1, r \in 1 .. p : m = Stop(p, 0, j) + r
      BY <1>2
    <3> QED
      BY <1>6, <3>1
  <2> QED
    BY <2>1 DEF NoOne, t
<1>8. \A m \in 2 .. Len(t) : t[m] \notin Keywords
  <2>1. ASSUME NEW m \in 1 .. Len(t), m # 1
        PROVE  t[m] \notin Keywords
    <3>1. PICK j \in 0 .. N - 1, r \in 1 .. p : m = Stop(p, 0, j) + r
      BY <1>2
    <3> QED
      BY <1>6, <2>1, <3>1
  <2>2. \A m \in 2 .. Len(t) : m \in 1 .. Len(t) /\ m # 1
    OBVIOUS
  <2> QED
    BY <2>1, <2>2
<1>9. ASSUME NEW j \in 0 .. N - 1
      PROVE  t[Stop(p, 0, j) + p] = "?" /\ \A r \in 1 .. p - 1 : t[Stop(p, 0, j) + r] # "?"
  <2>1. \A r \in 1 .. p - 1 : r \in 1 .. p /\ r # p
    BY <1>3
  <2> QED
    BY <1>5, <1>6, <2>1
<1>10. IsList(f, w, p, N)
  BY <1>2, <1>8, <1>9 DEF IsList, t
<1>11. HasItems(f, items, p, N)
  BY <1>2 DEF HasItems, t
<1> QED
  BY <1>7, <1>10, <1>11

\* What a builder assigns.
Assigns == Seq(Columns \X Values)

\* The columns and the values of the assignments.
LEMMA AssignsIs ==
  ASSUME NEW b, b.set \in Assigns, b.set # <<>>
  PROVE  /\ Len(b.set) \in Nat /\ 1 <= Len(b.set) /\ DOMAIN b.set = 1 .. Len(b.set)
         /\ \A j \in 1 .. Len(b.set) : /\ b.set[j][1] \in Columns /\ b.set[j][2] \in Values
                                       /\ b.set[j] = <<b.set[j][1], b.set[j][2]>>
         /\ b.set = [j \in 1 .. Len(b.set) |-> b.set[j]]
         /\ ValuesOf(b) \in Seq(Params) /\ Len(ValuesOf(b)) = Len(b.set)
         /\ \A j \in 1 .. Len(b.set) : ValuesOf(b)[j] = b.set[j][2]
<1>1. PICK q \in Seq(Columns \X Values) : q = b.set
  BY DEF Assigns
<1>2. PICK N \in Nat : N = Len(q)
  OBVIOUS
<1>3. N # 0 /\ DOMAIN q = 1 .. N /\ q = [j \in 1 .. N |-> q[j]]
  BY <1>1, <1>2
<1>4. ASSUME NEW j \in 1 .. N
      PROVE  q[j][1] \in Columns /\ q[j][2] \in Values /\ q[j] = <<q[j][1], q[j][2]>>
  <2>1. q[j] \in Columns \X Values
    BY <1>2
  <2> QED
    BY <2>1
<1>5. ValuesOf(b) = [j \in 1 .. N |-> q[j][2]]
  BY <1>1, <1>3 DEF ValuesOf
<1>6. [j \in 1 .. N |-> q[j][2]] \in Seq(Params) /\ Len([j \in 1 .. N |-> q[j][2]]) = N
  BY <1>4 DEF Params
<1>7. ValuesOf(b) \in Seq(Params) /\ Len(ValuesOf(b)) = N /\ \A j \in 1 .. N : ValuesOf(b)[j] = q[j][2]
  <2>1. \A j \in 1 .. N : [i \in 1 .. N |-> q[i][2]][j] = q[j][2]
    OBVIOUS
  <2> QED
    BY <1>5, <1>6, <2>1
<1>8. 1 <= N
  BY <1>3
<1>9. Len(b.set) = N
  BY <1>1, <1>2
<1> QED
  BY <1>1, <1>3, <1>4, <1>7, <1>8, <1>9

\* The elements of a short tuple.
LEMMA TripleIs ==
  ASSUME NEW x, NEW y, NEW z
  PROVE  <<x, y, z>>[1] = x /\ <<x, y, z>>[2] = y /\ <<x, y, z>>[3] = z /\ Len(<<x, y, z>>) = 3
OBVIOUS

\* The SET clause is read as the assignments of the builder.
LEMMA SetClause ==
  ASSUME NEW b, b.set \in Assigns, b.set # <<>>
  PROVE  /\ HasClause(Assignments(b), "SET") /\ NoOne(Assignments(b))
         /\ \A s \in Statement : \A n, rank :
              /\ IsNumbered(s) /\ ~ Has(s.text, "INSERT")
              /\ Found(s, Piece(Assignments(b), "SET", rank), n)
              => Assigned(s) = b.set
<1> DEFINE f == Assignments(b)
           N == Len(b.set)
           items == [j \in DOMAIN b.set |-> <<b.set[j][1], "=", "?">>]
<1>1. /\ N \in Nat /\ 1 <= N /\ DOMAIN b.set = 1 .. N
      /\ \A j \in 1 .. N : /\ b.set[j][1] \in Columns /\ b.set[j][2] \in Values
                           /\ b.set[j] = <<b.set[j][1], b.set[j][2]>>
      /\ b.set = [j \in 1 .. N |-> b.set[j]]
      /\ ValuesOf(b) \in Seq(Params) /\ Len(ValuesOf(b)) = N
      /\ \A j \in 1 .. N : ValuesOf(b)[j] = b.set[j][2]
  BY AssignsIs
<1>2. f.text = <<"SET">> \o Commas(items) /\ f.params = ValuesOf(b)
      /\ f = [text |-> f.text, params |-> f.params]
  BY DEF Assignments
<1>3. "SET" \in Keywords /\ "SET" \in Word /\ 4 \in Periods
  BY KeywordFacts DEF Periods
<1>4. "=" \in Word /\ "=" \notin Keywords /\ "=" # "?" /\ "=" # "1" /\ "?" \in Word
  BY NameFacts DEF Keywords, Word, Operators, Reserved
<1>5. ASSUME NEW j \in 1 .. N
      PROVE  /\ items[j] = <<b.set[j][1], "=", "?">>
             /\ b.set[j][1] \in Word /\ b.set[j][1] \notin Keywords /\ b.set[j][1] # "?" /\ b.set[j][1] # "1"
  <2>1. items[j] = <<b.set[j][1], "=", "?">>
    BY <1>1
  <2>2. b.set[j][1] \in Columns
    BY <1>1
  <2> HIDE DEF items
  <2>3. \A c \in Columns : c \in Word /\ c \notin Keywords /\ c # "?" /\ c # "1"
    BY NameFacts DEF Reserved
  <2> QED
    BY <2>1, <2>2, <2>3
<1>6. Len(items) = N
  BY <1>1
<1> HIDE DEF items, f, N
<1>7. ASSUME NEW j \in 1 .. N
      PROVE  /\ items[j][1] = b.set[j][1] /\ items[j][2] = "=" /\ items[j][3] = "?" /\ Len(items[j]) = 3
  <2>1. items[j] = <<b.set[j][1], "=", "?">>
    BY <1>5
  <2>2. PICK x, y, z : items[j] = <<x, y, z>> /\ x = b.set[j][1] /\ y = "=" /\ z = "?"
    BY <2>1
  <2>3. items[j][1] = x /\ items[j][2] = y /\ items[j][3] = z /\ Len(items[j]) = 3
    BY <2>2, TripleIs
  <2> QED
    BY <2>2, <2>3
<1>8. \A r \in 1 .. 3 : r = 1 \/ r = 2 \/ r = 3
  OBVIOUS
<1>9. PICK p \in Periods : p = 4 /\ p - 1 = 3 /\ p - 2 = 2
  BY <1>3
<1>10. IsItems(items, p, N)
  <2>1. Len(items[1]) = p - 1
    <3>1. 1 \in 1 .. N
      BY <1>1
    <3> QED
      BY <1>7, <1>9, <3>1
  <2>2. \A j \in 1 .. N, r \in 1 .. p - 1 : items[j][r] \in Word
    BY <1>4, <1>5, <1>7, <1>8, <1>9
  <2> QED
    BY <1>6, <2>1, <2>2 DEF IsItems
<1>11. f \in Fragment
  <2>1. IsRow(f.text, "SET", p, N, items)
    BY <1>1, <1>2, <1>3, <1>10, RowText
  <2>2. f.text \in Seq(Word)
    BY <2>1 DEF IsRow
  <2> QED
    BY <1>1, <1>2, <2>2 DEF Fragment
<1>12. \A j \in 1 .. N : items[j][p - 1] = "?"
  BY <1>7, <1>9
<1>13. \A j \in 1 .. N, r \in 1 .. p - 2 :
         items[j][r] \notin Keywords /\ items[j][r] # "?" /\ items[j][r] # "1"
  <2>1. \A r \in 1 .. p - 2 : r = 1 \/ r = 2
    BY <1>9
  <2> QED
    BY <1>4, <1>5, <1>7, <2>1
<1>14. Len(f.params) = N
  BY <1>1, <1>2
<1>15. /\ IsList(f, "SET", p, N) /\ NoOne(f)
       /\ \A j \in 0 .. N - 1, r \in 2 .. p : f.text[Stop(p, 0, j) + r] = items[j + 1][r - 1]
  <2>1. PICK w \in Keywords : w = "SET"
    BY <1>3
  <2>2. f.text = <<w>> \o Commas(items)
    BY <1>2, <2>1
  <2>3. /\ IsList(f, w, p, N) /\ NoOne(f)
        /\ \A j \in 0 .. N - 1, r \in 2 .. p : f.text[Stop(p, 0, j) + r] = items[j + 1][r - 1]
    <3>1. EndBound(items, p, N)
      BY <1>12, <1>13 DEF EndBound
    <3> N \in Nat /\ 1 <= N
      BY <1>1
    <3>2. IsList(f, w, p, N) /\ NoOne(f) /\ HasItems(f, items, p, N)
      BY <1>10, <1>11, <1>14, <2>2, <3>1, RowIsList
    <3> QED
      BY <3>2 DEF HasItems
  <2> QED
    BY <2>1, <2>3
<1>16. /\ HasClause(f, "SET")
       /\ \A n \in Nat : End(n, f) = Stop(p, n, N)
       /\ \A s \in Statement, n \in Nat :
            At(s, n, f) =>
              /\ \A m \in 1 .. Len(f.text) : s.text[n + m] = f.text[m]
              /\ IsNumbered(s) => \A j \in 0 .. N - 1 : Value(s, Stop(p, n, j) + p) = f.params[j + 1]
  <2>1. PICK w \in Keywords : w = "SET"
    BY <1>3
  <2>2. IsList(f, w, p, N)
    BY <1>15, <2>1
  <2>3. /\ HasClause(f, w)
        /\ \A n \in Nat : End(n, f) = Stop(p, n, N)
        /\ \A s \in Statement, n \in Nat :
             At(s, n, f) =>
               /\ \A m \in 1 .. Len(f.text) : s.text[n + m] = f.text[m]
               /\ IsNumbered(s) => \A j \in 0 .. N - 1 : Value(s, Stop(p, n, j) + p) = f.params[j + 1]
    BY <1>1, <2>2, ListClause
  <2> QED
    BY <2>1, <2>3
<1>17. ASSUME NEW s \in Statement, NEW n, NEW rank, IsNumbered(s), ~ Has(s.text, "INSERT"),
              Found(s, Piece(f, "SET", rank), n)
       PROVE  Assigned(s) = b.set
  <2> DEFINE t == s.text
             Item(i) == FirstOf(t, "SET") + (i - 1) * 4
  <2>1. n \in Nat /\ At(s, n, f) /\ (n < End(n, f) => FirstOf(t, "SET") = n + 2 /\ LastOf(t, "SET") = End(n, f))
    BY <1>17 DEF Found, Piece
  <2>2. End(n, f) = n + N * 4
    BY <1>9, <1>16, <2>1 DEF Stop
  <2>3. FirstOf(t, "SET") = n + 2 /\ LastOf(t, "SET") = n + N * 4
    <3>1. n < n + N * 4
      BY <1>1, <2>1
    <3> QED
      BY <2>1, <2>2, <3>1
  <2>4. (LastOf(t, "SET") - FirstOf(t, "SET") + 2) \div 4 = N
    <3>1. ((n + N * 4) - (n + 2) + 2) \div 4 = N
      BY <1>1, <2>1
    <3> QED
      BY <2>3, <3>1
  <2>5. ASSUME NEW i \in 1 .. N
        PROVE  t[Item(i)] = b.set[i][1] /\ Value(s, Item(i) + 2) = b.set[i][2]
    <3>1. PICK j \in 0 .. N - 1 : j = i - 1 /\ j + 1 = i
      BY <1>1
    <3>2. Item(i) = n + (Stop(p, 0, j) + 2) /\ Item(i) + 2 = Stop(p, n, j) + p
      <4>1. Item(i) = (n + 2) + j * 4
        BY <2>3, <3>1
      <4>2. Stop(p, 0, j) = j * 4 /\ Stop(p, n, j) = n + j * 4
        BY <1>9, <3>1 DEF Stop
      <4> HIDE DEF Item
      <4>3. PICK x \in Nat : x = j * 4
        BY <1>1
      <4> QED
        BY <1>9, <2>1, <4>1, <4>2, <4>3
    <3>3. Stop(p, 0, j) + 2 \in 1 .. Len(f.text)
      <4>1. Len(f.text) = N * 4
        BY <1>9, <1>15 DEF IsList, Stop
      <4> QED
        BY <1>1, <1>9, <4>1 DEF Stop
    <3> HIDE DEF Item
    <3>4. t[n + (Stop(p, 0, j) + 2)] = f.text[Stop(p, 0, j) + 2]
      BY <1>16, <2>1, <3>3
    <3>5. f.text[Stop(p, 0, j) + 2] = items[i][1]
      <4>1. 2 \in 2 .. p /\ 2 - 1 = 1
        BY <1>9
      <4> QED
        BY <1>15, <3>1, <4>1
    <3>6. Value(s, Stop(p, n, j) + p) = ValuesOf(b)[i]
      BY <1>2, <1>16, <1>17, <2>1, <3>1
    <3> QED
      BY <1>1, <1>7, <3>2, <3>4, <3>5, <3>6
  <2>6. Assigned(s) = [i \in 1 .. N |-> <<t[Item(i)], Value(s, Item(i) + 2)>>]
    BY <1>17, <2>4, Zenon DEF Assigned
  <2> HIDE DEF Item, t
  <2>7. \A i \in 1 .. N : <<t[Item(i)], Value(s, Item(i) + 2)>> = b.set[i]
    BY <1>1, <2>5
  <2> QED
    BY <1>1, <2>6, <2>7
<1> QED
  BY <1>15, <1>16, <1>17 DEF f

\* Items without a placeholder.
Unbound(items, p, N) ==
  \A j \in 1 .. N, r \in 1 .. p - 1 : items[j][r] \notin Keywords /\ items[j][r] # "?" /\ items[j][r] # "1"

\* A list of items without a placeholder is a clause.
LEMMA RowIsWords ==
  ASSUME NEW p \in Periods, NEW N \in Nat, 1 <= N, NEW items, IsItems(items, p, N), Unbound(items, p, N),
         NEW w \in Keywords, NEW f, f = Words(<<w>> \o Commas(items))
  PROVE  HasClause(f, w) /\ NoOne(f) /\ HasItems(f, items, p, N) /\ Len(f.text) = Stop(p, 0, N)
<1> DEFINE t == <<w>> \o Commas(items)
<1>1. w \in Word /\ w # "?" /\ w # "1" /\ "," \notin Keywords /\ "," # "1" /\ "," # "?"
  BY KeywordFacts DEF Keywords
<1>2. /\ t \in Seq(Word) /\ Len(t) = Stop(p, 0, N) /\ t[1] = w
      /\ \A j \in 1 .. N - 1 : t[Stop(p, 0, j) + 1] = ","
      /\ \A j \in 0 .. N - 1, r \in 2 .. p : t[Stop(p, 0, j) + r] = items[j + 1][r - 1]
      /\ \A m \in 1 .. Len(t) : \E j \in 0 .. N - 1, r \in 1 .. p : m = Stop(p, 0, j) + r
  <2>1. IsRow(t, w, p, N, items)
    BY <1>1, RowText
  <2> QED
    BY <2>1 DEF IsRow
<1>3. p \in Nat /\ p >= 2
  BY DEF Periods
<1>4. Stop(p, 0, 0) = 0
  BY StopZero
<1>5. f.text = t /\ f = Words(t)
  BY DEF Words
<1> HIDE DEF t
<1>6. ASSUME NEW m \in 1 .. Len(t)
      PROVE  t[m] # "1" /\ (m # 1 => t[m] \notin Keywords /\ t[m] # "?")
  <2>1. PICK j \in 0 .. N - 1, r \in 1 .. p : m = Stop(p, 0, j) + r
    BY <1>2
  <2>2. CASE r # 1
    <3>1. PICK i \in 1 .. N, q \in 1 .. p - 1 : i = j + 1 /\ q = r - 1 /\ r \in 2 .. p
      BY <1>3, <2>2
    <3>2. t[m] = items[i][q]
      BY <1>2, <2>1, <3>1
    <3>3. items[i][q] \notin Keywords /\ items[i][q] # "?" /\ items[i][q] # "1"
      BY DEF Unbound
    <3> QED
      BY <3>2, <3>3
  <2>3. CASE r = 1 /\ j = 0
    <3>1. m = 1
      BY <1>4, <2>1, <2>3
    <3> QED
      BY <1>1, <1>2, <3>1
  <2>4. CASE r = 1 /\ j # 0
    <3>1. j \in 1 .. N - 1
      BY <2>4
    <3>2. t[m] = ","
      BY <1>2, <2>1, <2>4, <3>1
    <3> QED
      BY <1>1, <3>2
  <2> QED
    BY <2>2, <2>3, <2>4
<1>7. Len(t) >= 1
  <2>1. PICK i \in Nat : N = i + 1
    BY SMT
  <2>2. Stop(p, 0, i) \in Nat /\ Stop(p, 0, i + 1) = Stop(p, 0, i) + p
    BY StopFirst
  <2>3. PICK k \in Nat : k = Stop(p, 0, i) /\ Len(t) = k + p
    BY <1>2, <2>1, <2>2
  <2> QED
    BY <1>3, <2>3
<1>8. HasClause(f, w)
  <2>1. ASSUME NEW m \in 2 .. Len(t)
        PROVE  t[m] \notin Keywords /\ t[m] # "?"
    <3>1. m \in 1 .. Len(t) /\ m # 1
      OBVIOUS
    <3> QED
      BY <1>6, <3>1
  <2>2. HasClause(Words(t), w)
    BY <1>2, <1>7, <2>1, WordsClause
  <2> QED
    BY <1>5, <2>2
<1>9. NoOne(f)
  BY <1>5, <1>6 DEF NoOne
<1>10. HasItems(f, items, p, N)
  BY <1>2, <1>5 DEF HasItems
<1> QED
  BY <1>2, <1>5, <1>8, <1>9, <1>10

\* The two clauses of an INSERT.
InsertColumns(b) == Words(<<"INSERT">> \o Commas([n \in DOMAIN b.set |-> <<b.set[n][1]>>]))
InsertValues(b) == [text |-> <<"VALUES">> \o Commas([n \in DOMAIN b.set |-> <<"?">>]), params |-> ValuesOf(b)]

\* The elements of a tuple of one.
LEMMA OneIs ==
  ASSUME NEW x
  PROVE  <<x>>[1] = x /\ Len(<<x>>) = 1
OBVIOUS

\* The two lists of an INSERT are read as the assignments of the builder.
LEMMA InsertClauses ==
  ASSUME NEW b, b.set \in Assigns, b.set # <<>>
  PROVE  /\ HasClause(InsertColumns(b), "INSERT") /\ NoOne(InsertColumns(b))
         /\ HasClause(InsertValues(b), "VALUES") /\ NoOne(InsertValues(b))
         /\ InsertSql(b) = Put(InsertColumns(b), InsertValues(b))
         /\ \A s \in Statement : \A m, n, rank1, rank2 :
              /\ IsNumbered(s)
              /\ Found(s, Piece(InsertColumns(b), "INSERT", rank1), m)
              /\ Found(s, Piece(InsertValues(b), "VALUES", rank2), n)
              => Assigned(s) = b.set
<1> DEFINE f == InsertColumns(b)
           g == InsertValues(b)
           N == Len(b.set)
           columns == [n \in DOMAIN b.set |-> <<b.set[n][1]>>]
           places == [n \in DOMAIN b.set |-> <<"?">>]
<1>1. /\ N \in Nat /\ 1 <= N /\ DOMAIN b.set = 1 .. N
      /\ \A j \in 1 .. N : /\ b.set[j][1] \in Columns /\ b.set[j][2] \in Values
                           /\ b.set[j] = <<b.set[j][1], b.set[j][2]>>
      /\ b.set = [j \in 1 .. N |-> b.set[j]]
      /\ ValuesOf(b) \in Seq(Params) /\ Len(ValuesOf(b)) = N
      /\ \A j \in 1 .. N : ValuesOf(b)[j] = b.set[j][2]
  BY AssignsIs
<1>2. /\ f = Words(<<"INSERT">> \o Commas(columns))
      /\ g.text = <<"VALUES">> \o Commas(places) /\ g.params = ValuesOf(b)
      /\ g = [text |-> g.text, params |-> g.params]
  BY DEF InsertColumns, InsertValues
<1>3. ASSUME NEW j \in 1 .. N
      PROVE  /\ columns[j][1] = b.set[j][1] /\ Len(columns[j]) = 1
             /\ places[j][1] = "?" /\ Len(places[j]) = 1
             /\ b.set[j][1] \in Word /\ b.set[j][1] \notin Keywords /\ b.set[j][1] # "?" /\ b.set[j][1] # "1"
  <2>1. columns[j] = <<b.set[j][1]>> /\ places[j] = <<"?">>
    BY <1>1
  <2>2. b.set[j][1] \in Columns
    BY <1>1
  <2> HIDE DEF columns, places
  <2>3. \A c \in Columns : c \in Word /\ c \notin Keywords /\ c # "?" /\ c # "1"
    BY NameFacts DEF Reserved
  <2>4. PICK x, y : columns[j] = <<x>> /\ places[j] = <<y>> /\ x = b.set[j][1] /\ y = "?"
    BY <2>1
  <2>5. columns[j][1] = x /\ Len(columns[j]) = 1 /\ places[j][1] = y /\ Len(places[j]) = 1
    BY <2>4, OneIs
  <2> QED
    BY <2>2, <2>3, <2>4, <2>5
<1>4. Len(columns) = N /\ Len(places) = N
  BY <1>1
<1>5. "?" \in Word /\ "?" \notin Keywords
  BY KeywordFacts, NameFacts DEF Reserved
<1>6. PICK p \in Periods : p = 2 /\ p - 1 = 1 /\ p - 2 = 0
  BY DEF Periods
<1>7. PICK v \in Keywords, w \in Keywords : v = "INSERT" /\ w = "VALUES"
  BY KeywordFacts
<1> HIDE DEF columns, places, f, g, N
<1> N \in Nat /\ 1 <= N
  BY <1>1
<1>8. IsItems(columns, p, N) /\ IsItems(places, p, N)
  <2>1. Len(columns[1]) = p - 1 /\ Len(places[1]) = p - 1
    <3>1. 1 \in 1 .. N
      OBVIOUS
    <3> QED
      BY <1>3, <1>6, <3>1
  <2>2. \A r \in 1 .. p - 1 : r = 1
    BY <1>6
  <2>3. \A j \in 1 .. N, r \in 1 .. p - 1 : columns[j][r] \in Word /\ places[j][r] \in Word
    BY <1>3, <1>5, <2>2
  <2> QED
    BY <1>4, <2>1, <2>3 DEF IsItems
<1>9. HasClause(f, v) /\ NoOne(f) /\ HasItems(f, columns, p, N) /\ Len(f.text) = Stop(p, 0, N)
  <2>1. Unbound(columns, p, N)
    <3>1. \A r \in 1 .. p - 1 : r = 1
      BY <1>6
    <3> QED
      BY <1>3, <3>1 DEF Unbound
  <2>2. f = Words(<<v>> \o Commas(columns))
    BY <1>2, <1>7
  <2> QED
    BY <1>8, <2>1, <2>2, RowIsWords
<1>10. g \in Fragment
  <2>1. IsRow(g.text, "VALUES", p, N, places)
    BY <1>2, <1>7, <1>8, KeywordFacts, RowText
  <2>2. g.text \in Seq(Word)
    BY <2>1 DEF IsRow
  <2> QED
    BY <1>1, <1>2, <2>2 DEF Fragment
<1>11. IsList(g, w, p, N) /\ NoOne(g)
  <2>1. EndBound(places, p, N)
    <3>1. \A j \in 1 .. N : places[j][p - 1] = "?"
      BY <1>3, <1>6
    <3>2. \A r \in 1 .. p - 2 : FALSE
      BY <1>6
    <3> QED
      BY <3>1, <3>2 DEF EndBound
  <2>2. g.text = <<w>> \o Commas(places)
    BY <1>2, <1>7
  <2>3. Len(g.params) = N
    BY <1>1, <1>2
  <2> QED
    BY <1>8, <1>10, <2>1, <2>2, <2>3, RowIsList
<1>12. /\ HasClause(g, w)
       /\ \A n \in Nat : End(n, g) = Stop(p, n, N)
       /\ \A s \in Statement, n \in Nat :
            At(s, n, g) =>
              /\ \A m \in 1 .. Len(g.text) : s.text[n + m] = g.text[m]
              /\ IsNumbered(s) => \A j \in 0 .. N - 1 : Value(s, Stop(p, n, j) + p) = g.params[j + 1]
  BY <1>1, <1>11, ListClause
<1>13. InsertSql(b) = Put(f, g)
  <2>1. f.text = <<"INSERT">> \o Commas(columns) /\ f.params = <<>>
    BY <1>2 DEF Words
  <2>2. InsertSql(b) = [text |-> ((<<"INSERT">> \o Commas(columns)) \o <<"VALUES">>) \o Commas(places), params |-> ValuesOf(b)]
    BY DEF InsertSql, columns, places
  <2>3. (f.text \o <<"VALUES">>) \o Commas(places) = f.text \o (<<"VALUES">> \o Commas(places))
    <3>1. f.text \in Seq(Word)
      BY <1>9 DEF HasClause, Fragment
    <3>2. <<"VALUES">> \in Seq(Word)
      <4>1. PICK x \in Word : x = "VALUES"
        BY KeywordFacts
      <4>2. <<x>> \in Seq(Word)
        OBVIOUS
      <4> QED
        BY <4>1, <4>2
    <3>3. Commas(places) \in Seq(Word)
      BY <1>8, CommasIs
    <3> QED
      BY <3>1, <3>2, <3>3, ConcatAssociates
  <2>4. <<>> \o ValuesOf(b) = ValuesOf(b)
    BY <1>1
  <2> QED
    BY <1>2, <2>1, <2>2, <2>3, <2>4 DEF Put
<1>14. ASSUME NEW s \in Statement, NEW m, NEW n, NEW rank1, NEW rank2, IsNumbered(s),
              Found(s, Piece(f, "INSERT", rank1), m), Found(s, Piece(g, "VALUES", rank2), n)
       PROVE  Assigned(s) = b.set
  <2> DEFINE t == s.text
             Column(i) == FirstOf(t, "INSERT") + (i - 1) * 2
             Place2(i) == FirstOf(t, "VALUES") + (i - 1) * 2
  <2>1. /\ m \in Nat /\ At(s, m, f)
        /\ m < End(m, f) => /\ Has(t, "INSERT") /\ FirstOf(t, "INSERT") = m + 2
                            /\ LastOf(t, "INSERT") = End(m, f)
    BY <1>14 DEF Found, Piece
  <2>2. /\ n \in Nat /\ At(s, n, g)
        /\ n < End(n, g) => FirstOf(t, "VALUES") = n + 2
    BY <1>14 DEF Found, Piece
  <2>3. Len(f.text) = N * 2 /\ End(m, f) = m + N * 2 /\ End(n, g) = n + N * 2
    BY <1>6, <1>9, <1>12, <2>1, <2>2 DEF Stop, End
  <2>4. /\ Has(t, "INSERT") /\ FirstOf(t, "INSERT") = m + 2 /\ LastOf(t, "INSERT") = m + N * 2
        /\ FirstOf(t, "VALUES") = n + 2
    <3>1. m < m + N * 2 /\ n < n + N * 2
      BY <2>1, <2>2
    <3> QED
      BY <2>1, <2>2, <2>3, <3>1
  <2>5. (LastOf(t, "INSERT") - FirstOf(t, "INSERT") + 2) \div 2 = N
    <3>1. ((m + N * 2) - (m + 2) + 2) \div 2 = N
      BY <2>1
    <3> QED
      BY <2>4, <3>1
  <2>6. ASSUME NEW i \in 1 .. N
        PROVE  t[Column(i)] = b.set[i][1] /\ Value(s, Place2(i)) = b.set[i][2]
    <3>1. PICK j \in 0 .. N - 1 : j = i - 1 /\ j + 1 = i
      OBVIOUS
    <3>2. Column(i) = m + (Stop(p, 0, j) + 2) /\ Place2(i) = Stop(p, n, j) + p
      <4>1. Column(i) = (m + 2) + j * 2 /\ Place2(i) = (n + 2) + j * 2
        BY <2>4, <3>1
      <4>2. Stop(p, 0, j) = j * 2 /\ Stop(p, n, j) = n + j * 2
        BY <1>6, <3>1, <2>2 DEF Stop
      <4> HIDE DEF Column, Place2
      <4>3. PICK x \in Nat : x = j * 2
        OBVIOUS
      <4>4. (m + 2) + x = m + (x + 2) /\ (n + 2) + x = (n + x) + 2
        BY <2>1, <2>2
      <4> QED
        BY <1>6, <4>1, <4>2, <4>3, <4>4
    <3>3. Stop(p, 0, j) + 2 \in 1 .. Len(f.text)
      BY <1>6, <2>3 DEF Stop
    <3> HIDE DEF Column, Place2
    <3>4. t[m + (Stop(p, 0, j) + 2)] = f.text[Stop(p, 0, j) + 2]
      BY <2>1, <3>3 DEF At
    <3>5. f.text[Stop(p, 0, j) + 2] = columns[i][1]
      <4>1. 2 \in 2 .. p /\ 2 - 1 = 1
        BY <1>6
      <4> QED
        BY <1>9, <3>1, <4>1 DEF HasItems
    <3>6. Value(s, Stop(p, n, j) + p) = ValuesOf(b)[i]
      BY <1>2, <1>12, <1>14, <2>2, <3>1
    <3> QED
      BY <1>1, <1>3, <3>2, <3>4, <3>5, <3>6
  <2>7. Assigned(s) = [i \in 1 .. N |-> <<t[Column(i)], Value(s, Place2(i))>>]
    BY <2>4, <2>5, Zenon DEF Assigned
  <2> HIDE DEF Column, Place2, t
  <2>8. \A i \in 1 .. N : <<t[Column(i)], Value(s, Place2(i))>> = b.set[i]
    BY <1>1, <2>6
  <2> QED
    BY <1>1, <2>7, <2>8
<1> QED
  BY <1>7, <1>9, <1>11, <1>12, <1>13, <1>14 DEF f, g

-----------------------------------------------------------------------------
(* The statements *)

\* The word a statement begins with.
Opening(w) == Words(<<w>>)

\* It is a clause of its own.
LEMMA OpeningClause ==
  ASSUME NEW w \in Keywords
  PROVE  HasClause(Opening(w), w) /\ NoOne(Opening(w))
<1>1. w \in Word /\ w # "1"
  BY KeywordFacts
<1>2. PICK tokens \in Seq(Word) : tokens = <<w>>
  <2>1. <<w>> \in Seq(Word)
    BY <1>1
  <2> QED
    BY <2>1, Zenon
<1>3. Len(tokens) = 1 /\ tokens[1] = w
  BY <1>2
<1>4. \A m \in 2 .. Len(tokens) : FALSE
  BY <1>3
<1>5. Len(tokens) >= 1
  BY <1>3
<1>6. HasClause(Words(tokens), w)
  BY <1>3, <1>4, <1>5, WordsClause
<1>7. NoOne(Words(<<w>>))
  BY <1>1, NoOneWord
<1> QED
  BY <1>2, <1>6, <1>7 DEF Opening

\* What a search begins with, and its one parameter.
SearchHead == Bind(<<"SELECT", "distance", "vector", "?">>, QueryVector)

\* The elements of a tuple of four.
LEMMA FourIs ==
  ASSUME NEW S, NEW x \in S, NEW y \in S, NEW z \in S, NEW u \in S
  PROVE  /\ <<x, y, z, u>> \in Seq(S) /\ Len(<<x, y, z, u>>) = 4
         /\ <<x, y, z, u>>[1] = x /\ <<x, y, z, u>>[2] = y /\ <<x, y, z, u>>[3] = z /\ <<x, y, z, u>>[4] = u
<1>1. <<x, y, z, u>> \in Seq(S)
  OBVIOUS
<1>2. Len(<<x, y, z, u>>) = 4
  OBVIOUS
<1>3. <<x, y, z, u>>[1] = x /\ <<x, y, z, u>>[2] = y /\ <<x, y, z, u>>[3] = z /\ <<x, y, z, u>>[4] = u
  OBVIOUS
<1> QED
  BY <1>1, <1>2, <1>3

\* It is a clause, and binds the query vector.
LEMMA SearchHeadClause ==
  HasClause(SearchHead, "SELECT") /\ NoOne(SearchHead)
<1>1. PICK w \in Keywords : w = "SELECT" /\ w \in Word /\ w # "1"
  BY KeywordFacts
<1>2. PICK d \in Word : d = "distance" /\ d \notin Keywords /\ d # "?" /\ d # "1"
  BY DEF Word, Keywords
<1>3. PICK v \in Word : v = "vector" /\ v \notin Keywords /\ v # "?" /\ v # "1"
  BY DEF Word, Keywords
<1>4. PICK q \in Word : q = "?" /\ q # "1"
  BY NameFacts DEF Reserved
<1>5. PICK tokens \in Seq(Word) : tokens = <<w, d, v, q>>
  <2>1. w \in Word
    BY <1>1
  <2>2. <<w, d, v, q>> \in Seq(Word)
    BY <2>1, FourIs
  <2> QED
    BY <2>2, Zenon
<1>6. Len(tokens) = 4 /\ tokens[1] = w /\ tokens[2] = d /\ tokens[3] = v /\ tokens[4] = q
  BY <1>5, FourIs
<1>7. PICK k \in Nat : k = 3
  OBVIOUS
<1>8. Len(tokens) = k + 1 /\ 1 <= k /\ tokens[k + 1] = "?"
  BY <1>4, <1>6, <1>7
<1>9. \A m \in 2 .. k : tokens[m] \notin Keywords /\ tokens[m] # "?"
  <2>1. \A m \in 2 .. k : m = 2 \/ m = 3
    BY <1>7
  <2> QED
    BY <1>2, <1>3, <1>6, <2>1
<1>10. QueryVector \in Params
  BY DEF QueryVector, Params
<1>11. HasClause(Bind(tokens, QueryVector), w)
  BY <1>6, <1>8, <1>9, <1>10, BindClause
<1>12. SearchHead = Bind(tokens, QueryVector)
  BY <1>1, <1>2, <1>3, <1>4, <1>5 DEF SearchHead
<1>13. NoOne(SearchHead)
  <2>1. SearchHead.text = tokens
    BY <1>12 DEF Bind
  <2>2. \A m \in 1 .. 4 : m = 1 \/ m = 2 \/ m = 3 \/ m = 4
    OBVIOUS
  <2> QED
    BY <1>1, <1>2, <1>3, <1>4, <1>6, <2>1, <2>2 DEF NoOne
<1> QED
  BY <1>1, <1>11, <1>12, <1>13

\* A tuple of three begins with its first.
LEMMA ConcatThree ==
  ASSUME NEW S, NEW x \in S, NEW y \in S, NEW z \in S
  PROVE  <<x>> \o <<y, z>> = <<x, y, z>>
<1>1. PICK u \in Seq(S) : u = <<x>> /\ Len(u) = 1 /\ u[1] = x
  <2>1. <<x>> \in Seq(S)
    OBVIOUS
  <2> QED
    BY <2>1
<1>2. PICK v \in Seq(S) : v = <<y, z>> /\ Len(v) = 2 /\ v[1] = y /\ v[2] = z
  <2>1. <<y, z>> \in Seq(S)
    OBVIOUS
  <2> QED
    BY <2>1
<1>3. PICK r \in Seq(S) : r = <<x, y, z>> /\ Len(r) = 3 /\ r[1] = x /\ r[2] = y /\ r[3] = z
  <2>1. <<x, y, z>> \in Seq(S)
    BY Triple
  <2> QED
    BY <2>1, TripleIs
<1>4. PICK o \in Seq(S) : o = u \o v
  BY ConcatIs
<1>5. Len(o) = 3 /\ o[1] = x /\ o[2] = y /\ o[3] = z
  <2>1. Len(o) = Len(u) + Len(v)
    BY <1>4, ConcatIs
  <2>2. 1 \in 1 .. Len(u) /\ 1 \in 1 .. Len(v) /\ 2 \in 1 .. Len(v)
    BY <1>1, <1>2
  <2>3. o[1] = x
    BY <1>1, <1>4, <2>2, ConcatIs
  <2>4. o[1 + 1] = y /\ o[1 + 2] = z
    BY <1>1, <1>2, <1>4, <2>2, ConcatIs
  <2> QED
    BY <1>1, <1>2, <2>1, <2>3, <2>4
<1>6. \A n \in 1 .. 3 : o[n] = r[n]
  <2>1. \A n \in 1 .. 3 : n = 1 \/ n = 2 \/ n = 3
    OBVIOUS
  <2> QED
    BY <1>3, <1>5, <2>1
<1>7. o = r
  BY <1>3, <1>5, <1>6, SameSequence
<1> QED
  BY <1>1, <1>2, <1>3, <1>4, <1>7

\* What a builder has as its order.
Orders == {<<>>} \cup (Columns \X Directions)

\* The ORDER BY of a builder is a clause.
LEMMA OrderByClause ==
  ASSUME NEW b, b.order \in Orders
  PROVE  HasClause(OrderBy(b), "ORDER BY") /\ NoOne(OrderBy(b))
<1>1. CASE b.order = <<>>
  <2>1. OrderBy(b) = Nothing
    BY <1>1 DEF OrderBy
  <2> QED
    BY <2>1, KeywordFacts, NothingClause
<1>2. CASE b.order # <<>>
  <2>1. PICK c \in Columns, d \in Directions : b.order = <<c, d>>
    BY <1>2 DEF Orders
  <2>2. c \in Orderable
    BY DEF Orderable
  <2>3. c \in Word /\ d \in Word
    BY NameFacts DEF Word, Directions
  <2>4. <<"ORDER BY">> \o <<c, d>> = <<"ORDER BY", c, d>>
    <3>1. PICK w \in Word : w = "ORDER BY"
      BY KeywordFacts
    <3>2. <<w>> \o <<c, d>> = <<w, c, d>>
      BY <2>3, ConcatThree
    <3> QED
      BY <3>1, <3>2
  <2>5. OrderBy(b) = Words(<<"ORDER BY", c, d>>)
    BY <1>2, <2>1, <2>4 DEF OrderBy
  <2>6. LET f == Words(<<"ORDER BY", c, d>>) IN HasClause(f, "ORDER BY") /\ NoOne(f)
    BY <2>2, OrderClause
  <2> QED
    BY <2>5, <2>6
<1> QED
  BY <1>1, <1>2

\* What the database reads of a statement made of clauses.
LEMMA ReadCondition ==
  ASSUME NEW f, NEW P, Laid(f, P), NEW b, b.where \in Wheres, NEW rank, Piece(Where(b), "WHERE", rank) \in P
  PROVE  Condition(Numbered(f)) = b.where
<1>1. PICK at : \A p \in P : Found(Numbered(f), p, at[p])
  BY Stated
<1>2. Found(Numbered(f), Piece(Where(b), "WHERE", rank), at[Piece(Where(b), "WHERE", rank)])
  BY <1>1
<1>3. Numbered(f) \in Statement /\ IsNumbered(Numbered(f))
  BY NumberedIs DEF Laid
<1> QED
  BY <1>2, <1>3, WhereClause

\* The same of the condition of a search,
LEMMA ReadFilter ==
  ASSUME NEW f, NEW P, Laid(f, P), NEW b, b.where \in Wheres, NEW rank, Piece(Filter(b), "WHERE", rank) \in P
  PROVE  Condition(Numbered(f)) = IF b.where = NoExpr THEN IsNotNull("vector")
                                  ELSE And(b.where, IsNotNull("vector"))
<1>1. PICK at : \A p \in P : Found(Numbered(f), p, at[p])
  BY Stated
<1>2. Found(Numbered(f), Piece(Filter(b), "WHERE", rank), at[Piece(Filter(b), "WHERE", rank)])
  BY <1>1
<1>3. Numbered(f) \in Statement /\ IsNumbered(Numbered(f))
  BY NumberedIs DEF Laid
<1> QED
  BY <1>2, <1>3, FilterClause

\* The bound as the database stores it.
Stored(bound) == IF bound = <<>> THEN <<>> ELSE <<AsI64(bound[1])>>

\* ... of a number,
LEMMA ReadNumber ==
  ASSUME NEW f, NEW P, Laid(f, P), NEW w \in Bounds, NEW bound, bound # <<>> => AsI64(bound[1]) \in Int,
         NEW rank, Piece(BoundSql(w, bound), w, rank) \in P
  PROVE  Number(Numbered(f), w) = Stored(bound)
<1>1. PICK at : \A p \in P : Found(Numbered(f), p, at[p])
  BY Stated
<1>2. Found(Numbered(f), Piece(BoundSql(w, bound), w, rank), at[Piece(BoundSql(w, bound), w, rank)])
  BY <1>1
<1>3. Numbered(f) \in Statement /\ IsNumbered(Numbered(f))
  BY NumberedIs DEF Laid
<1>4. Number(Numbered(f), w) = IF bound = <<>> THEN <<>> ELSE <<AsI64(bound[1])>>
  BY <1>2, <1>3, BoundClause
<1> QED
  BY <1>4 DEF Stored

\* ... of a keyword that is not there,
LEMMA ReadNone ==
  ASSUME NEW f, NEW P, Laid(f, P), NEW w \in Keywords, \A p \in P : p.word # w
  PROVE  ~ Has(Numbered(f).text, w)
<1>1. ~ Has(f.text, w)
  BY Stated
<1>2. Numbered(f).text = f.text
  BY DEF Numbered
<1> QED
  BY <1>1, <1>2

\* ... and of the token 1.
LEMMA ReadNoOne ==
  ASSUME NEW f \in Fragment, NoOne(f)
  PROVE  ~ Has(Numbered(f).text, "1")
<1>1. Numbered(f).text = f.text /\ f.text \in Seq(Word)
  BY DEF Numbered, Fragment
<1>2. ~ \E m \in 1 .. Len(f.text) : f.text[m] = "1"
  BY DEF NoOne
<1> QED
  BY <1>1, <1>2, HasIs

\* Both bounds, one behind the other.
LEMMA ReadBoth ==
  ASSUME NEW f, NEW P, Laid(f, P), NEW limit, NEW offset, NEW i \in Nat, NEW j \in Nat, i < j,
         limit # <<>> => AsI64(limit[1]) \in Int, offset # <<>> => AsI64(offset[1]) \in Int,
         Piece(BoundSql("LIMIT", limit), "LIMIT", i) \in P,
         Piece(BoundSql("OFFSET", offset), "OFFSET", j) \in P
  PROVE  /\ Has(Numbered(f).text, "OFFSET") <=> offset # <<>>
         /\ limit # <<>> /\ offset # <<>> =>
              Place(Numbered(f).text, "LIMIT") \in 1 .. Place(Numbered(f).text, "OFFSET")
<1> DEFINE s == Numbered(f)
           g == BoundSql("LIMIT", limit)
           h == BoundSql("OFFSET", offset)
           p == Piece(g, "LIMIT", i)
           q == Piece(h, "OFFSET", j)
<1>1. PICK at : /\ \A r \in P : Found(s, r, at[r])
                /\ \A r, o \in P : r.rank < o.rank => End(at[r], r.f) <= at[o]
  BY Stated
<1>2. Found(s, p, at[p]) /\ Found(s, q, at[q]) /\ p.f = g /\ q.f = h /\ p.word = "LIMIT" /\ q.word = "OFFSET"
      /\ p.rank = i /\ q.rank = j
  BY <1>1 DEF Piece
<1>3. \A n \in Nat : (n < End(n, g) <=> limit # <<>>) /\ (n < End(n, h) <=> offset # <<>>)
  BY BoundClause DEF Bounds
<1> HIDE DEF s, g, h
<1>4. p \in P /\ q \in P
  BY DEF g, h
<1> HIDE DEF p, q
<1>5. End(at[p], g) <= at[q]
  BY <1>1, <1>2, <1>4
<1>6. PICK m \in Nat, n \in Nat : m = at[p] /\ n = at[q]
  BY <1>2 DEF Found
<1>7. Has(s.text, "OFFSET") <=> offset # <<>>
  BY <1>2, <1>3, <1>6 DEF Found
<1>8. ASSUME limit # <<>>, offset # <<>>
      PROVE  Place(s.text, "LIMIT") \in 1 .. Place(s.text, "OFFSET")
  <2>1. m < End(m, g) /\ n < End(n, h)
    BY <1>3, <1>8
  <2>2. Place(s.text, "LIMIT") = m + 1 /\ Place(s.text, "OFFSET") = n + 1
    BY <1>2, <1>6, <2>1 DEF Found
  <2>3. End(m, g) <= n
    BY <1>5, <1>6
  <2>4. End(m, g) \in Nat
    <3>1. g \in Fragment
      BY BoundClause DEF g, Bounds, HasClause
    <3> QED
      BY <3>1, EndType
  <2> QED
    BY <2>1, <2>2, <2>3, <2>4
<1> QED
  BY <1>7, <1>8 DEF s

\* The builders an author makes.
IsBuilder(b) ==
  /\ b = [kind |-> b.kind, where |-> b.where, all |-> b.all, set |-> b.set,
          order |-> b.order, limit |-> b.limit, offset |-> b.offset]
  /\ b.kind \in {"select", "select_cols", "search", "insert", "update", "delete"}
  /\ b.where \in Wheres /\ b.set \in Assigns /\ b.order \in Orders /\ b.all \in BOOLEAN
  /\ b.limit \in {<<>>} \cup {<<n>> : n \in Limits}
  /\ b.offset \in {<<>>} \cup {<<n>> : n \in Offsets}
  /\ b.kind = "insert" => b.where = NoExpr
  /\ b.kind \in {"insert", "update", "delete"} => b.limit = <<>>
  /\ b.kind \notin {"select", "select_cols"} => b.offset = <<>>

\* u64 as i64: a number the database has room for stays, another turns negative.
LEMMA AsI64Is ==
  ASSUME NEW n \in 0 .. 2 * Half - 1
  PROVE  /\ AsI64(n) \in Int
         /\ n < Half => AsI64(n) = n
         /\ n >= Half => AsI64(n) < 0
BY RangesAssumption DEF AsI64

\* The bounds of a builder are of the sets the author takes them from.
LEMMA BoundsOf ==
  ASSUME NEW b, IsBuilder(b)
  PROVE  /\ b.limit # <<>> => b.limit[1] \in Limits /\ b.limit = <<b.limit[1]>> /\ AsI64(b.limit[1]) \in Int
         /\ b.offset # <<>> => b.offset[1] \in Offsets /\ b.offset = <<b.offset[1]>> /\ AsI64(b.offset[1]) \in Int
         /\ Limit(b) = BoundSql("LIMIT", b.limit) /\ Offset(b) = BoundSql("OFFSET", b.offset)
<1>1. Limits \subseteq 0 .. 2 * Half - 1 /\ Offsets \subseteq 0 .. 2 * Half - 1
  BY RangesAssumption
<1>2. ASSUME NEW n \in 0 .. 2 * Half - 1
      PROVE  AsI64(n) \in Int
  BY AsI64Is
<1>3. b.limit # <<>> => b.limit[1] \in Limits /\ b.limit = <<b.limit[1]>>
  BY DEF IsBuilder
<1>4. b.offset # <<>> => b.offset[1] \in Offsets /\ b.offset = <<b.offset[1]>>
  BY DEF IsBuilder
<1>5. Limit(b) = BoundSql("LIMIT", b.limit) /\ Offset(b) = BoundSql("OFFSET", b.offset)
  BY DEF Limit, Offset, BoundSql
<1> QED
  BY <1>1, <1>2, <1>3, <1>4, <1>5

\* Both are clauses.
LEMMA BoundClauses ==
  ASSUME NEW b, IsBuilder(b)
  PROVE  /\ HasClause(Limit(b), "LIMIT") /\ NoOne(Limit(b))
         /\ HasClause(Offset(b), "OFFSET") /\ NoOne(Offset(b))
<1>1. /\ Limit(b) = BoundSql("LIMIT", b.limit) /\ Offset(b) = BoundSql("OFFSET", b.offset)
      /\ b.limit # <<>> => AsI64(b.limit[1]) \in Int
      /\ b.offset # <<>> => AsI64(b.offset[1]) \in Int
  BY BoundsOf
<1>2. PICK v \in Bounds, w \in Bounds : v = "LIMIT" /\ w = "OFFSET"
  BY DEF Bounds
<1>3. HasClause(BoundSql(v, b.limit), v) /\ NoOne(BoundSql(v, b.limit))
  BY <1>1, BoundClause
<1>4. HasClause(BoundSql(w, b.offset), w) /\ NoOne(BoundSql(w, b.offset))
  BY <1>1, BoundClause
<1> QED
  BY <1>1, <1>2, <1>3, <1>4

\* Two, four and five clauses one behind the other.
LEMMA LaidTwo ==
  ASSUME NEW f1, NEW w1, HasClause(f1, w1), NEW f2, NEW w2, HasClause(f2, w2), w1 # w2
  PROVE  Laid(Put(f1, f2), {Piece(f1, w1, 1), Piece(f2, w2, 2)})
<1>1. Laid(f1, {Piece(f1, w1, 1)})
  BY LaidOne
<1>2. \A p \in {Piece(f1, w1, 1)} : p.word # w2 /\ p.rank \in Nat /\ p.rank < 2
  BY DEF Piece
<1> DEFINE P == {Piece(f1, w1, 1)}
<1> HIDE DEF P
<1>3. Laid(Put(f1, f2), P \cup {Piece(f2, w2, 2)})
  BY <1>1, <1>2, LaidPut DEF P
<1> QED
  BY <1>3 DEF P

\* ... three clauses,
LEMMA LaidThree ==
  ASSUME NEW f1, NEW w1, HasClause(f1, w1), NEW f2, NEW w2, HasClause(f2, w2), w1 # w2,
         NEW f3, NEW w3, HasClause(f3, w3), w3 # w1, w3 # w2
  PROVE  Laid(Put(Put(f1, f2), f3), {Piece(f1, w1, 1), Piece(f2, w2, 2), Piece(f3, w3, 3)})
<1> DEFINE P == {Piece(f1, w1, 1), Piece(f2, w2, 2)}
<1>1. Laid(Put(f1, f2), P)
  BY LaidTwo
<1>2. \A p \in P : p.word # w3 /\ p.rank \in Nat /\ p.rank < 3
  BY DEF Piece
<1>3. P \cup {Piece(f3, w3, 3)} = {Piece(f1, w1, 1), Piece(f2, w2, 2), Piece(f3, w3, 3)}
  OBVIOUS
<1> HIDE DEF P
<1>4. Laid(Put(Put(f1, f2), f3), P \cup {Piece(f3, w3, 3)})
  BY <1>1, <1>2, LaidPut
<1> QED
  BY <1>3, <1>4

\* ... four,
LEMMA LaidFour ==
  ASSUME NEW f1, NEW w1, HasClause(f1, w1), NEW f2, NEW w2, HasClause(f2, w2), w1 # w2,
         NEW f3, NEW w3, HasClause(f3, w3), w3 # w1, w3 # w2,
         NEW f4, NEW w4, HasClause(f4, w4), w4 # w1, w4 # w2, w4 # w3
  PROVE  Laid(Put(Put(Put(f1, f2), f3), f4),
              {Piece(f1, w1, 1), Piece(f2, w2, 2), Piece(f3, w3, 3), Piece(f4, w4, 4)})
<1> DEFINE P == {Piece(f1, w1, 1), Piece(f2, w2, 2), Piece(f3, w3, 3)}
<1>1. Laid(Put(Put(f1, f2), f3), P)
  BY LaidThree
<1>2. \A p \in P : p.word # w4 /\ p.rank \in Nat /\ p.rank < 4
  BY DEF Piece
<1>3. P \cup {Piece(f4, w4, 4)} = {Piece(f1, w1, 1), Piece(f2, w2, 2), Piece(f3, w3, 3), Piece(f4, w4, 4)}
  OBVIOUS
<1> HIDE DEF P
<1>4. Laid(Put(Put(Put(f1, f2), f3), f4), P \cup {Piece(f4, w4, 4)})
  BY <1>1, <1>2, LaidPut
<1> QED
  BY <1>3, <1>4

\* ... five.
LEMMA LaidFive ==
  ASSUME NEW f1, NEW w1, HasClause(f1, w1), NEW f2, NEW w2, HasClause(f2, w2), w1 # w2,
         NEW f3, NEW w3, HasClause(f3, w3), w3 # w1, w3 # w2,
         NEW f4, NEW w4, HasClause(f4, w4), w4 # w1, w4 # w2, w4 # w3,
         NEW f5, NEW w5, HasClause(f5, w5), w5 # w1, w5 # w2, w5 # w3, w5 # w4
  PROVE  Laid(Put(Put(Put(Put(f1, f2), f3), f4), f5),
              {Piece(f1, w1, 1), Piece(f2, w2, 2), Piece(f3, w3, 3), Piece(f4, w4, 4), Piece(f5, w5, 5)})
<1> DEFINE P == {Piece(f1, w1, 1), Piece(f2, w2, 2), Piece(f3, w3, 3), Piece(f4, w4, 4)}
<1>1. Laid(Put(Put(Put(f1, f2), f3), f4), P)
  BY LaidFour
<1>2. \A p \in P : p.word # w5 /\ p.rank \in Nat /\ p.rank < 5
  BY DEF Piece
<1>3. P \cup {Piece(f5, w5, 5)}
        = {Piece(f1, w1, 1), Piece(f2, w2, 2), Piece(f3, w3, 3), Piece(f4, w4, 4), Piece(f5, w5, 5)}
  OBVIOUS
<1> HIDE DEF P
<1>4. Laid(Put(Put(Put(Put(f1, f2), f3), f4), f5), P \cup {Piece(f5, w5, 5)})
  BY <1>1, <1>2, LaidPut
<1> QED
  BY <1>3, <1>4

\* What the database reads is what the author asked for.
IsRead(s, b) ==
  /\ Condition(s) = Asked(b)
  /\ b.kind \in {"insert", "update"} => Assigned(s) = b.set
  /\ Number(s, "LIMIT") = Stored(b.limit) /\ Number(s, "OFFSET") = Stored(b.offset)
  /\ Assigning(s.text) => b.kind \in {"insert", "update"}
  /\ Has(s.text, "1") => HasTrue(b.where)
  /\ Has(s.text, "OFFSET") => b.offset # <<>>
  /\ b.limit # <<>> /\ b.offset # <<>> => Place(s.text, "LIMIT") \in 1 .. Place(s.text, "OFFSET")

\* A query assigns nothing.
LEMMA NotAssigning ==
  ASSUME NEW f1, NEW f2, NEW f3, NEW f4, NEW f5,
         NEW p \in {Piece(f1, "SELECT", 1), Piece(f2, "WHERE", 2), Piece(f3, "ORDER BY", 3),
                    Piece(f4, "LIMIT", 4), Piece(f5, "OFFSET", 5)}
  PROVE  p.word # "INSERT" /\ p.word # "SET"
<1>1. \A g, w, rank : Piece(g, w, rank).word = w
  BY DEF Piece
<1>2. CASE p = Piece(f1, "SELECT", 1)
  BY <1>1, <1>2
<1>3. CASE p = Piece(f2, "WHERE", 2)
  BY <1>1, <1>3
<1>4. CASE p = Piece(f3, "ORDER BY", 3)
  <2>1. "ORDER BY" # "INSERT" /\ "ORDER BY" # "SET"
    OBVIOUS
  <2>2. p.word = "ORDER BY"
    BY <1>1, <1>4
  <2> QED
    BY <2>1, <2>2
<1>5. CASE p = Piece(f4, "LIMIT", 4)
  BY <1>1, <1>5
<1>6. CASE p = Piece(f5, "OFFSET", 5)
  BY <1>1, <1>6
<1> QED
  BY <1>2, <1>3, <1>4, <1>5, <1>6

\* Select::to_sql and SelectCols::to_sql.
LEMMA SelectIsRead ==
  ASSUME NEW b, IsBuilder(b), b.kind \in {"select", "select_cols"}
  PROVE  IsRead(Numbered(SelectSql(b)), b)
<1> DEFINE h == Opening("SELECT")
           w == Where(b)
           o == OrderBy(b)
           l == BoundSql("LIMIT", b.limit)
           k == BoundSql("OFFSET", b.offset)
           f == Put(Put(Put(Put(h, w), o), l), k)
           P == {Piece(h, "SELECT", 1), Piece(w, "WHERE", 2), Piece(o, "ORDER BY", 3),
                 Piece(l, "LIMIT", 4), Piece(k, "OFFSET", 5)}
           s == Numbered(f)
<1>1. b.where \in Wheres /\ b.order \in Orders
  BY DEF IsBuilder
<1>2. /\ Limit(b) = l /\ Offset(b) = k
      /\ b.limit # <<>> => AsI64(b.limit[1]) \in Int
      /\ b.offset # <<>> => AsI64(b.offset[1]) \in Int
  BY BoundsOf
<1>3. SelectSql(b) = f
  BY <1>2 DEF SelectSql, Opening
<1>4. HasClause(h, "SELECT") /\ NoOne(h)
  BY KeywordFacts, OpeningClause
<1>5. HasClause(w, "WHERE") /\ (~ HasTrue(b.where) => NoOne(w))
  BY <1>1, WhereClause
<1>6. HasClause(o, "ORDER BY") /\ NoOne(o)
  BY <1>1, OrderByClause
<1>7. HasClause(l, "LIMIT") /\ NoOne(l) /\ HasClause(k, "OFFSET") /\ NoOne(k)
  BY <1>2, BoundClauses
<1> HIDE DEF h, o
<1>8. /\ Piece(w, "WHERE", 2) \in P /\ Piece(l, "LIMIT", 4) \in P /\ Piece(k, "OFFSET", 5) \in P
  OBVIOUS
<1>9. Laid(f, P)
  <2> HIDE DEF w, l, k
  <2> QED
    BY <1>4, <1>5, <1>6, <1>7, LaidFive
<1>16. \A p \in P : p.word # "INSERT" /\ p.word # "SET"
  <2> HIDE DEF w, l, k
  <2> QED
    BY NotAssigning, Zenon
<1> HIDE DEF P, f
<1>17. ~ Assigning(s.text)
  BY <1>9, <1>16, KeywordFacts, ReadNone DEF Assigning
<1>10. Condition(s) = b.where
  BY <1>1, <1>8, <1>9, ReadCondition
<1>11. Number(s, "LIMIT") = Stored(b.limit) /\ Number(s, "OFFSET") = Stored(b.offset)
  <2>1. PICK u \in Bounds, v \in Bounds : u = "LIMIT" /\ v = "OFFSET"
    BY DEF Bounds
  <2>2. Piece(BoundSql(u, b.limit), u, 4) \in P /\ Piece(BoundSql(v, b.offset), v, 5) \in P
    BY <1>8, <2>1
  <2>3. Number(s, u) = Stored(b.limit)
    BY <1>2, <1>9, <2>2, ReadNumber
  <2>4. Number(s, v) = Stored(b.offset)
    BY <1>2, <1>9, <2>2, ReadNumber
  <2> QED
    BY <2>1, <2>3, <2>4
<1>12. /\ Has(s.text, "OFFSET") => b.offset # <<>>
       /\ b.limit # <<>> /\ b.offset # <<>> => Place(s.text, "LIMIT") \in 1 .. Place(s.text, "OFFSET")
  <2>1. PICK i \in Nat, j \in Nat : i = 4 /\ j = 5 /\ i < j
    OBVIOUS
  <2>2. Piece(BoundSql("LIMIT", b.limit), "LIMIT", i) \in P /\ Piece(BoundSql("OFFSET", b.offset), "OFFSET", j) \in P
    BY <1>8, <2>1
  <2> QED
    BY <1>2, <1>9, <2>1, <2>2, ReadBoth
<1>13. ASSUME ~ HasTrue(b.where)
       PROVE  ~ Has(s.text, "1")
  <2>1. NoOne(w)
    BY <1>5, <1>13
  <2>2. h \in Fragment /\ w \in Fragment /\ o \in Fragment /\ l \in Fragment /\ k \in Fragment
    BY <1>4, <1>5, <1>6, <1>7 DEF HasClause
  <2> HIDE DEF w, l, k
  <2>3. NoOne(Put(h, w)) /\ Put(h, w) \in Fragment
    BY <1>4, <2>1, <2>2, NoOnePut, AtPut
  <2>4. NoOne(Put(Put(h, w), o)) /\ Put(Put(h, w), o) \in Fragment
    BY <1>6, <2>2, <2>3, NoOnePut, AtPut
  <2>5. NoOne(Put(Put(Put(h, w), o), l)) /\ Put(Put(Put(h, w), o), l) \in Fragment
    BY <1>7, <2>2, <2>4, NoOnePut, AtPut
  <2>6. NoOne(f) /\ f \in Fragment
    BY <1>7, <2>2, <2>5, NoOnePut, AtPut DEF f
  <2> QED
    BY <2>6, ReadNoOne
<1>14. Asked(b) = b.where /\ ~ (b.kind \in {"insert", "update"})
  BY DEF Asked
<1> HIDE DEF s
<1>15. IsRead(s, b)
  BY <1>10, <1>11, <1>12, <1>13, <1>14, <1>17 DEF IsRead
<1> QED
  BY <1>3, <1>15 DEF s

\* A search has no OFFSET.
LEMMA NoOffset ==
  ASSUME NEW f1, NEW f2, NEW f3, NEW f4,
         NEW p \in {Piece(f1, "SELECT", 1), Piece(f2, "WHERE", 2), Piece(f3, "ORDER BY", 3), Piece(f4, "LIMIT", 4)}
  PROVE  p.word # "OFFSET"
<1>1. \A g, w, rank : Piece(g, w, rank).word = w
  BY DEF Piece
<1>2. CASE p = Piece(f1, "SELECT", 1)
  BY <1>1, <1>2
<1>3. CASE p = Piece(f2, "WHERE", 2)
  BY <1>1, <1>3
<1>4. CASE p = Piece(f3, "ORDER BY", 3)
  <2>1. "ORDER BY" # "OFFSET"
    OBVIOUS
  <2>2. p.word = "ORDER BY"
    BY <1>1, <1>4
  <2> QED
    BY <2>1, <2>2
<1>5. CASE p = Piece(f4, "LIMIT", 4)
  BY <1>1, <1>5
<1> QED
  BY <1>2, <1>3, <1>4, <1>5

\* build_vector_search.
LEMMA SearchIsRead ==
  ASSUME NEW b, IsBuilder(b), b.kind = "search"
  PROVE  IsRead(Numbered(SearchSql(b)), b)
<1> DEFINE h == SearchHead
           w == Filter(b)
           o == Words(<<"ORDER BY", "distance", "ASC">>)
           l == BoundSql("LIMIT", b.limit)
           f == Put(Put(Put(h, w), o), l)
           P == {Piece(h, "SELECT", 1), Piece(w, "WHERE", 2), Piece(o, "ORDER BY", 3), Piece(l, "LIMIT", 4)}
           s == Numbered(f)
<1>1. b.where \in Wheres /\ b.offset = <<>>
  BY DEF IsBuilder
<1>2. Limit(b) = l /\ (b.limit # <<>> => AsI64(b.limit[1]) \in Int)
  BY BoundsOf
<1>3. SearchSql(b) = f
  BY <1>2 DEF SearchSql, SearchHead, Filter, Embedded
<1>4. HasClause(h, "SELECT") /\ NoOne(h)
  BY SearchHeadClause
<1>5. HasClause(w, "WHERE") /\ (~ HasTrue(b.where) => NoOne(w))
  BY <1>1, FilterClause
<1>6. HasClause(o, "ORDER BY") /\ NoOne(o)
  <2>1. PICK c \in Orderable, d \in Directions : c = "distance" /\ d = "ASC"
    BY DEF Orderable, Directions
  <2>2. LET g == Words(<<"ORDER BY", c, d>>) IN HasClause(g, "ORDER BY") /\ NoOne(g)
    BY OrderClause
  <2> QED
    BY <2>1, <2>2
<1>7. HasClause(l, "LIMIT") /\ NoOne(l)
  BY <1>2, BoundClauses
<1> HIDE DEF h, o
<1>8. Piece(w, "WHERE", 2) \in P /\ Piece(l, "LIMIT", 4) \in P
  OBVIOUS
<1>9. Laid(f, P)
  <2> HIDE DEF w, l
  <2> QED
    BY <1>4, <1>5, <1>6, <1>7, LaidFour
<1>10. \A p \in P : p.word # "OFFSET"
  <2> HIDE DEF w, l
  <2> QED
    BY NoOffset, Zenon
<1>18. \A p \in P : p.word # "INSERT" /\ p.word # "SET"
  <2>1. \A p \in P \cup {Piece(l, "OFFSET", 5)} : p.word # "INSERT" /\ p.word # "SET"
    <3> HIDE DEF w, l
    <3> QED
      BY NotAssigning, Zenon
  <2> QED
    BY <2>1, Zenon
<1> HIDE DEF P, f
<1>19. ~ Assigning(s.text)
  BY <1>9, <1>18, KeywordFacts, ReadNone DEF Assigning
<1>11. Condition(s) = Asked(b)
  <2>1. Condition(s) = IF b.where = NoExpr THEN IsNotNull("vector") ELSE And(b.where, IsNotNull("vector"))
    BY <1>1, <1>8, <1>9, ReadFilter
  <2> QED
    BY <2>1 DEF Asked
<1>12. Number(s, "LIMIT") = Stored(b.limit)
  <2>1. PICK u \in Bounds : u = "LIMIT"
    BY DEF Bounds
  <2>2. Piece(BoundSql(u, b.limit), u, 4) \in P
    BY <1>8, <2>1
  <2>3. Number(s, u) = Stored(b.limit)
    BY <1>2, <1>9, <2>2, ReadNumber
  <2> QED
    BY <2>1, <2>3
<1>13. ~ Has(s.text, "OFFSET")
  BY <1>9, <1>10, KeywordFacts, ReadNone
<1>14. Number(s, "OFFSET") = Stored(b.offset)
  BY <1>1, <1>13 DEF Number, Stored
<1>15. ASSUME ~ HasTrue(b.where)
       PROVE  ~ Has(s.text, "1")
  <2>1. NoOne(w)
    BY <1>5, <1>15
  <2>2. h \in Fragment /\ w \in Fragment /\ o \in Fragment /\ l \in Fragment
    BY <1>4, <1>5, <1>6, <1>7 DEF HasClause
  <2> HIDE DEF w, l
  <2>3. NoOne(Put(h, w)) /\ Put(h, w) \in Fragment
    BY <1>4, <2>1, <2>2, NoOnePut, AtPut
  <2>4. NoOne(Put(Put(h, w), o)) /\ Put(Put(h, w), o) \in Fragment
    BY <1>6, <2>2, <2>3, NoOnePut, AtPut
  <2>5. NoOne(f) /\ f \in Fragment
    BY <1>7, <2>2, <2>4, NoOnePut, AtPut DEF f
  <2> QED
    BY <2>5, ReadNoOne
<1> HIDE DEF s
<1>16. ~ (b.kind \in {"insert", "update"})
  OBVIOUS
<1>17. IsRead(s, b)
  BY <1>1, <1>11, <1>12, <1>13, <1>14, <1>15, <1>16, <1>19 DEF IsRead
<1> QED
  BY <1>3, <1>17 DEF s

\* A statement without LIMIT and OFFSET, with one condition at most.
LEMMA PlainIsRead ==
  ASSUME NEW b, IsBuilder(b), b.kind \in {"insert", "update", "delete"},
         NEW f, NEW P, Laid(f, P), \A p \in P : p.word # "LIMIT" /\ p.word # "OFFSET",
         Condition(Numbered(f)) = b.where, ~ HasTrue(b.where) => NoOne(f),
         b.kind \in {"insert", "update"} => Assigned(Numbered(f)) = b.set,
         Assigning(Numbered(f).text) => b.kind \in {"insert", "update"}
  PROVE  IsRead(Numbered(f), b)
<1> DEFINE s == Numbered(f)
<1>1. b.limit = <<>> /\ b.offset = <<>>
  BY DEF IsBuilder
<1>2. ~ Has(s.text, "LIMIT") /\ ~ Has(s.text, "OFFSET")
  BY KeywordFacts, ReadNone
<1>3. Number(s, "LIMIT") = Stored(b.limit) /\ Number(s, "OFFSET") = Stored(b.offset)
  BY <1>1, <1>2 DEF Number, Stored
<1>4. Has(s.text, "1") => HasTrue(b.where)
  <2>1. f \in Fragment
    BY DEF Laid
  <2> QED
    BY <2>1, ReadNoOne
<1>5. Asked(b) = b.where
  BY DEF Asked
<1> HIDE DEF s
<1>6. /\ Condition(s) = b.where /\ (b.kind \in {"insert", "update"} => Assigned(s) = b.set)
      /\ Assigning(s.text) => b.kind \in {"insert", "update"}
  BY DEF s
<1>7. IsRead(s, b)
  BY <1>1, <1>2, <1>3, <1>4, <1>5, <1>6 DEF IsRead
<1> QED
  BY <1>7 DEF s

\* Delete::to_sql.
LEMMA DeleteIsRead ==
  ASSUME NEW b, IsBuilder(b), b.kind = "delete"
  PROVE  IsRead(Numbered(DeleteSql(b)), b)
<1> DEFINE h == Opening("DELETE")
           w == Where(b)
           f == Put(h, w)
           P == {Piece(h, "DELETE", 1), Piece(w, "WHERE", 2)}
<1>1. b.where \in Wheres
  BY DEF IsBuilder
<1>2. DeleteSql(b) = f
  BY DEF DeleteSql, Opening
<1>3. HasClause(h, "DELETE") /\ NoOne(h)
  BY KeywordFacts, OpeningClause
<1>4. HasClause(w, "WHERE") /\ (~ HasTrue(b.where) => NoOne(w))
  BY <1>1, WhereClause
<1> HIDE DEF h
<1>5. Piece(w, "WHERE", 2) \in P
  OBVIOUS
<1>6. Laid(f, P)
  <2> HIDE DEF w
  <2> QED
    BY <1>3, <1>4, LaidTwo
<1>7. \A p \in P : p.word # "LIMIT" /\ p.word # "OFFSET" /\ p.word # "INSERT" /\ p.word # "SET"
  BY DEF Piece
<1> HIDE DEF P
<1>8. Condition(Numbered(f)) = b.where
  <2> HIDE DEF f
  <2> QED
    BY <1>1, <1>5, <1>6, ReadCondition
<1>9. ~ HasTrue(b.where) => NoOne(f)
  <2>1. h \in Fragment /\ w \in Fragment
    BY <1>3, <1>4 DEF HasClause
  <2> HIDE DEF w
  <2> QED
    BY <1>3, <1>4, <2>1, NoOnePut
<1> HIDE DEF f
<1>10. IsRead(Numbered(f), b)
  <2>1. ~ (b.kind \in {"insert", "update"}) /\ b.kind \in {"insert", "update", "delete"}
    OBVIOUS
  <2>2. ~ Assigning(Numbered(f).text)
    BY <1>6, <1>7, KeywordFacts, ReadNone DEF Assigning
  <2> QED
    BY <1>6, <1>7, <1>8, <1>9, <2>1, <2>2, PlainIsRead
<1> QED
  BY <1>2, <1>10

\* Update::to_sql.
LEMMA UpdateIsRead ==
  ASSUME NEW b, IsBuilder(b), b.kind = "update", b.set # <<>>
  PROVE  IsRead(Numbered(UpdateSql(b)), b)
<1> DEFINE h == Opening("UPDATE")
           a == Assignments(b)
           w == Where(b)
           f == Put(Put(h, a), w)
           P == {Piece(h, "UPDATE", 1), Piece(a, "SET", 2), Piece(w, "WHERE", 3)}
<1>1. b.where \in Wheres /\ b.set \in Assigns
  BY DEF IsBuilder
<1>2. UpdateSql(b) = f
  BY DEF UpdateSql, Opening
<1>3. HasClause(h, "UPDATE") /\ NoOne(h)
  BY KeywordFacts, OpeningClause
<1>4. HasClause(w, "WHERE") /\ (~ HasTrue(b.where) => NoOne(w))
  BY <1>1, WhereClause
<1>5. HasClause(a, "SET") /\ NoOne(a)
  BY <1>1, SetClause
<1> HIDE DEF h
<1>6. Piece(w, "WHERE", 3) \in P /\ Piece(a, "SET", 2) \in P
  OBVIOUS
<1>7. Laid(f, P)
  <2> HIDE DEF w, a
  <2> QED
    BY <1>3, <1>4, <1>5, LaidThree
<1>8. \A p \in P : p.word # "LIMIT" /\ p.word # "OFFSET" /\ p.word # "INSERT"
  BY DEF Piece
<1> HIDE DEF P
<1>9. ~ HasTrue(b.where) => NoOne(f)
  <2>1. h \in Fragment /\ w \in Fragment /\ a \in Fragment
    BY <1>3, <1>4, <1>5 DEF HasClause
  <2> HIDE DEF w, a
  <2>2. NoOne(Put(h, a)) /\ Put(h, a) \in Fragment
    BY <1>3, <1>5, <2>1, NoOnePut, AtPut
  <2> QED
    BY <1>4, <2>1, <2>2, NoOnePut
<1> HIDE DEF f
<1>10. Condition(Numbered(f)) = b.where
  BY <1>1, <1>6, <1>7, ReadCondition
<1>11. Assigned(Numbered(f)) = b.set
  <2>1. PICK at : \A p \in P : Found(Numbered(f), p, at[p])
    BY <1>7, Stated
  <2>2. Found(Numbered(f), Piece(a, "SET", 2), at[Piece(a, "SET", 2)])
    BY <1>6, <2>1
  <2>3. Numbered(f) \in Statement /\ IsNumbered(Numbered(f))
    BY <1>7, NumberedIs DEF Laid
  <2>4. ~ Has(Numbered(f).text, "INSERT")
    BY <1>7, <1>8, KeywordFacts, ReadNone
  <2> QED
    BY <1>1, <2>2, <2>3, <2>4, SetClause
<1>12. IsRead(Numbered(f), b)
  <2>1. b.kind \in {"insert", "update", "delete"}
    OBVIOUS
  <2> QED
    BY <1>7, <1>8, <1>9, <1>10, <1>11, <2>1, PlainIsRead
<1> QED
  BY <1>2, <1>12

\* InsertBuilder::execute.
LEMMA InsertIsRead ==
  ASSUME NEW b, IsBuilder(b), b.kind = "insert", b.set # <<>>
  PROVE  IsRead(Numbered(InsertSql(b)), b)
<1> DEFINE g == InsertColumns(b)
           h == InsertValues(b)
           f == Put(g, h)
           P == {Piece(g, "INSERT", 1), Piece(h, "VALUES", 2)}
<1>1. b.where = NoExpr /\ b.set \in Assigns
  BY DEF IsBuilder
<1>2. HasClause(g, "INSERT") /\ NoOne(g) /\ HasClause(h, "VALUES") /\ NoOne(h) /\ InsertSql(b) = f
  BY <1>1, InsertClauses
<1>3. Piece(g, "INSERT", 1) \in P /\ Piece(h, "VALUES", 2) \in P
  OBVIOUS
<1>4. Laid(f, P)
  <2> HIDE DEF g, h
  <2> QED
    BY <1>2, LaidTwo
<1>5. \A p \in P : p.word # "LIMIT" /\ p.word # "OFFSET" /\ p.word # "WHERE"
  BY DEF Piece
<1> HIDE DEF P
<1>6. NoOne(f)
  <2>1. g \in Fragment /\ h \in Fragment
    BY <1>2 DEF HasClause
  <2> HIDE DEF g, h
  <2> QED
    BY <1>2, <2>1, NoOnePut
<1> HIDE DEF f
<1>7. Condition(Numbered(f)) = b.where
  <2>1. ~ Has(Numbered(f).text, "WHERE")
    BY <1>4, <1>5, KeywordFacts, ReadNone
  <2> QED
    BY <1>1, <2>1, NoCondition
<1>8. Assigned(Numbered(f)) = b.set
  <2>1. PICK at : \A p \in P : Found(Numbered(f), p, at[p])
    BY <1>4, Stated
  <2>2. /\ Found(Numbered(f), Piece(g, "INSERT", 1), at[Piece(g, "INSERT", 1)])
        /\ Found(Numbered(f), Piece(h, "VALUES", 2), at[Piece(h, "VALUES", 2)])
    BY <1>3, <2>1
  <2>3. Numbered(f) \in Statement /\ IsNumbered(Numbered(f))
    BY <1>4, NumberedIs DEF Laid
  <2> QED
    BY <1>1, <2>2, <2>3, InsertClauses
<1>9. IsRead(Numbered(f), b)
  <2>1. b.kind \in {"insert", "update", "delete"}
    OBVIOUS
  <2> QED
    BY <1>4, <1>5, <1>6, <1>7, <1>8, <2>1, PlainIsRead
<1> QED
  BY <1>2, <1>9

\* Whatever the builder, the database reads what the author asked for.
LEMMA SqlIsRead ==
  ASSUME NEW b, IsBuilder(b), ~ Empty(b)
  PROVE  IsRead(Numbered(Sql(b)), b)
<1>1. CASE b.kind = "select"
  <2>1. Sql(b) = SelectSql(b)
    BY <1>1 DEF Sql
  <2> QED
    BY <1>1, <2>1, SelectIsRead
<1>2. CASE b.kind = "select_cols"
  <2>1. Sql(b) = SelectColsSql(b)
    BY <1>2 DEF Sql
  <2>2. SelectColsSql(b) = SelectSql(b)
    BY DEF SelectColsSql, SelectSql
  <2> QED
    BY <1>2, <2>1, <2>2, SelectIsRead
<1>3. CASE b.kind = "search"
  <2>1. Sql(b) = SearchSql(b)
    BY <1>3 DEF Sql
  <2> QED
    BY <1>3, <2>1, SearchIsRead
<1>4. CASE b.kind = "insert"
  <2>1. Sql(b) = InsertSql(b) /\ b.set # <<>>
    BY <1>4 DEF Sql, Empty
  <2> QED
    BY <1>4, <2>1, InsertIsRead
<1>5. CASE b.kind = "update"
  <2>1. Sql(b) = UpdateSql(b) /\ b.set # <<>>
    BY <1>5 DEF Sql, Empty
  <2> QED
    BY <1>5, <2>1, UpdateIsRead
<1>6. CASE b.kind = "delete"
  <2>1. Sql(b) = DeleteSql(b)
    BY <1>6 DEF Sql
  <2> QED
    BY <1>6, <2>1, DeleteIsRead
<1> QED
  BY <1>1, <1>2, <1>3, <1>4, <1>5, <1>6 DEF IsBuilder

-----------------------------------------------------------------------------
(* The author and the database *)

\* What was sent was built by the builder, which wanted something and was confirmed.
SentIsBuilt ==
  /\ result = "none" => sent = <<>>
  /\ sent # <<>> =>
       /\ sent = <<Numbered(Sql(builder))>>
       /\ ~ Empty(builder) /\ ~ Unconfirmed(builder)
       /\ result = "err" => ~ Accepted(sent[1])

\* The inductive invariant: a builder the methods can make, and a statement that is its own.
IInv == dialect \in Dialects /\ IsBuilder(builder) /\ SentIsBuilt

\* It holds of a new builder,
LEMMA InvariantInit ==
  Init => IInv
<1> SUFFICES ASSUME Init
             PROVE  IInv
  OBVIOUS
<1>1. PICK kind \in Kinds : builder = New(kind)
  BY DEF Init
<1>2. <<>> \in Assigns
  BY DEF Assigns
<1>3. IsBuilder(New(kind))
  BY <1>2, KindsAssumption DEF New, IsBuilder, Wheres, Orders
<1> QED
  BY <1>1, <1>3 DEF Init, IInv, SentIsBuilt

\* A method changes a builder into another; nothing was sent before.
LEMMA CallKeeps ==
  ASSUME NEW kinds, NEW b, Call(kinds, b), IInv, builder.kind \in kinds => IsBuilder(b)
  PROVE  IInv'
BY DEF Call, IInv, SentIsBuilt

\* ... and every call keeps it.
LEMMA InvariantNext ==
  IInv /\ [Next]_vars => IInv'
<1> SUFFICES ASSUME IInv, [Next]_vars
             PROVE  IInv'
  OBVIOUS
<1>1. IsBuilder(builder)
  BY DEF IInv
<1>2. ASSUME NEW e \in Predicates, CallWhere(e)
      PROVE  IInv'
  <2> DEFINE b == [builder EXCEPT !.where = e]
             kinds == {"select", "select_cols", "search", "update", "delete"}
  <2>1. Call(kinds, b)
    BY <1>2 DEF CallWhere
  <2>2. builder.kind \in kinds => IsBuilder(b)
    <3>1. e \in Wheres
      BY PredicatesAssumption DEF Wheres
    <3> QED
      BY <1>1, <3>1 DEF IsBuilder
  <2> HIDE DEF b, kinds
  <2> QED
    BY <2>1, <2>2, CallKeeps
<1>3. ASSUME CallAll
      PROVE  IInv'
  <2> DEFINE b == [builder EXCEPT !.all = TRUE]
             kinds == {"update", "delete"}
  <2>1. Call(kinds, b)
    BY <1>3 DEF CallAll
  <2>2. builder.kind \in kinds => IsBuilder(b)
    <3>1. b = [kind |-> builder.kind, where |-> builder.where, all |-> TRUE, set |-> builder.set,
               order |-> builder.order, limit |-> builder.limit, offset |-> builder.offset]
      <4>1. PICK y : y = TRUE
        OBVIOUS
      <4>2. [builder EXCEPT !.all = y]
              = [kind |-> builder.kind, where |-> builder.where, all |-> y, set |-> builder.set,
                 order |-> builder.order, limit |-> builder.limit, offset |-> builder.offset]
        BY <1>1 DEF IsBuilder
      <4> QED
        BY <4>1, <4>2, Zenon
    <3>2. /\ b.kind = builder.kind /\ b.where = builder.where /\ b.all = TRUE /\ b.set = builder.set
          /\ b.order = builder.order /\ b.limit = builder.limit /\ b.offset = builder.offset
      BY <3>1
    <3> HIDE DEF b
    <3> QED
      BY <1>1, <3>1, <3>2 DEF IsBuilder
  <2> HIDE DEF b, kinds
  <2> QED
    BY <2>1, <2>2, CallKeeps
<1>4. ASSUME NEW c \in Columns, NEW v \in Values, CallSet(c, v)
      PROVE  IInv'
  <2> DEFINE b == [builder EXCEPT !.set = Append(@, <<c, v>>)]
             kinds == {"insert", "update"}
  <2>1. Call(kinds, b)
    BY <1>4 DEF CallSet
  <2>2. builder.kind \in kinds => IsBuilder(b)
    <3>1. Append(builder.set, <<c, v>>) \in Assigns
      BY <1>1 DEF IsBuilder, Assigns
    <3>2. /\ b = [kind |-> builder.kind, where |-> builder.where, all |-> builder.all,
                  set |-> Append(builder.set, <<c, v>>),
                  order |-> builder.order, limit |-> builder.limit, offset |-> builder.offset]
      <4>1. PICK q : q = Append(builder.set, <<c, v>>)
        OBVIOUS
      <4>2. [builder EXCEPT !.set = q]
              = [kind |-> builder.kind, where |-> builder.where, all |-> builder.all, set |-> q,
                 order |-> builder.order, limit |-> builder.limit, offset |-> builder.offset]
        BY <1>1 DEF IsBuilder
      <4> QED
        BY <4>1, <4>2, Zenon
    <3>3. /\ b.kind = builder.kind /\ b.where = builder.where /\ b.all = builder.all
          /\ b.set = Append(builder.set, <<c, v>>)
          /\ b.order = builder.order /\ b.limit = builder.limit /\ b.offset = builder.offset
      BY <3>2
    <3> HIDE DEF b
    <3> QED
      BY <1>1, <3>1, <3>2, <3>3 DEF IsBuilder
  <2> HIDE DEF b, kinds
  <2> QED
    BY <2>1, <2>2, CallKeeps
<1>5. ASSUME NEW n \in Limits, CallLimit(n)
      PROVE  IInv'
  <2> DEFINE b == [builder EXCEPT !.limit = <<n>>]
             kinds == {"select", "select_cols", "search"}
  <2>1. Call(kinds, b)
    BY <1>5 DEF CallLimit
  <2>2. builder.kind \in kinds => IsBuilder(b)
    BY <1>1 DEF IsBuilder
  <2> HIDE DEF b, kinds
  <2> QED
    BY <2>1, <2>2, CallKeeps
<1>6. ASSUME NEW n \in Offsets, CallOffset(n)
      PROVE  IInv'
  <2> DEFINE b == [builder EXCEPT !.offset = <<n>>]
             kinds == {"select", "select_cols"}
  <2>1. Call(kinds, b)
    BY <1>6 DEF CallOffset
  <2>2. builder.kind \in kinds => IsBuilder(b)
    BY <1>1 DEF IsBuilder
  <2> HIDE DEF b, kinds
  <2> QED
    BY <2>1, <2>2, CallKeeps
<1>7. ASSUME NEW c \in Columns, NEW direction \in Directions, CallOrderBy(c, direction)
      PROVE  IInv'
  <2> DEFINE b == [builder EXCEPT !.order = <<c, direction>>]
             kinds == {"select", "select_cols"}
  <2>1. Call(kinds, b)
    BY <1>7 DEF CallOrderBy
  <2>2. builder.kind \in kinds => IsBuilder(b)
    <3>1. <<c, direction>> \in Orders
      BY DEF Orders
    <3> QED
      BY <1>1, <3>1 DEF IsBuilder
  <2> HIDE DEF b, kinds
  <2> QED
    BY <2>1, <2>2, CallKeeps
<1>8. ASSUME Execute
      PROVE  IInv'
  <2> DEFINE s == Numbered(Sql(builder))
  <2>1. /\ ~ Empty(builder) /\ ~ Unconfirmed(builder) /\ sent' = <<s>> /\ sent'[1] = s
        /\ result' = IF Accepted(sent'[1]) THEN "ok" ELSE "err"
        /\ dialect' = dialect /\ builder' = builder
    BY <1>8 DEF Execute
  <2> HIDE DEF s
  <2>2. result' = IF Accepted(s) THEN "ok" ELSE "err"
    BY <2>1
  <2>3. result' # "none" /\ (result' = "err" => ~ Accepted(s))
    BY <2>2
  <2>4. (~ Accepted(sent[1]))' <=> ~ Accepted(s)
    BY <2>1 DEF Accepted
  <2>5. (~ Empty(builder) /\ ~ Unconfirmed(builder))'
    BY <2>1
  <2>6. (sent = <<Numbered(Sql(builder))>>)'
    BY <2>1 DEF s
  <2>7. SentIsBuilt'
    BY <2>3, <2>4, <2>5, <2>6 DEF SentIsBuilt
  <2> QED
    BY <1>1, <2>1, <2>7 DEF IInv
<1>9. ASSUME ExecuteNothing
      PROVE  IInv'
  <2>1. sent = <<>> /\ sent' = <<>>
    BY <1>9 DEF ExecuteNothing, IInv, SentIsBuilt
  <2> QED
    BY <1>1, <1>9, <2>1 DEF ExecuteNothing, IInv, SentIsBuilt
<1>10. ASSUME UNCHANGED vars
       PROVE  IInv'
  <2>1. dialect' = dialect /\ builder' = builder /\ sent' = sent /\ result' = result
    BY <1>10 DEF vars
  <2>2. SentIsBuilt'
    <3>1. SentIsBuilt
      BY DEF IInv
    <3>2. (sent[1])' = sent[1]
      BY <2>1
    <3> QED
      BY <2>1, <3>1, <3>2 DEF SentIsBuilt, Accepted
  <2> QED
    BY <1>1, <2>1, <2>2 DEF IInv
<1> QED
  BY <1>2, <1>3, <1>4, <1>5, <1>6, <1>7, <1>8, <1>9, <1>10 DEF Next, Finished, Directions

\* Whatever methods are called, in whatever order and however often, the builder stays one its
\* methods can make, and what is sent is its text: execute() hands over to_sql of the builder.
THEOREM Invariant ==
  Spec => []IInv
<1> QED
  BY InvariantInit, InvariantNext, PTL DEF Spec

\* A statement that was sent is read as the builder was meant.
LEMMA SentIsRead ==
  ASSUME IInv, sent # <<>>
  PROVE  /\ sent = <<sent[1]>> /\ Range(sent) = {sent[1]}
         /\ IsRead(sent[1], builder) /\ ~ Unconfirmed(builder)
         /\ result = "err" => ~ Accepted(sent[1])
<1>1. /\ sent = <<Numbered(Sql(builder))>> /\ ~ Empty(builder) /\ ~ Unconfirmed(builder)
      /\ result = "err" => ~ Accepted(sent[1])
  BY DEF IInv, SentIsBuilt
<1>2. PICK s : s = Numbered(Sql(builder))
  OBVIOUS
<1>3. sent = <<s>> /\ sent[1] = s /\ Range(sent) = {s}
  BY <1>1, <1>2 DEF Range
<1>4. IsRead(s, builder)
  BY <1>1, <1>2, SqlIsRead DEF IInv
<1> QED
  BY <1>1, <1>3, <1>4

\* The database reads the predicate of the builder as the author nested it, each value at its
\* comparison, for predicates of any depth (Expr::to_sql, the to_sql functions and
\* build_vector_search).
THEOREM ConditionAsked ==
  Spec => []ConditionIsAsked
<1>1. IInv => ConditionIsAsked
  <2> SUFFICES ASSUME IInv, NEW s \in Range(sent)
               PROVE  Condition(s) = Asked(builder)
    BY DEF ConditionIsAsked
  <2>1. sent # <<>>
    BY DEF Range
  <2>2. s = sent[1] /\ IsRead(sent[1], builder)
    BY <2>1, SentIsRead
  <2> QED
    BY <2>2 DEF IsRead
<1> QED
  BY <1>1, Invariant, PTL

\* The text of an INSERT and an UPDATE of any number of columns assigns what the author set, in
\* the order of the calls, whatever the WHERE clause binds after it; a column set twice is in it
\* twice (InsertBuilder::execute, Update::to_sql).
THEOREM AssignmentAsked ==
  Spec => []AssignmentIsAsked
<1>1. IInv => AssignmentIsAsked
  <2> SUFFICES ASSUME IInv, NEW s \in Range(sent), builder.kind \in {"insert", "update"}
               PROVE  Assigned(s) = builder.set
    BY DEF AssignmentIsAsked
  <2>1. sent # <<>>
    BY DEF Range
  <2>2. s = sent[1] /\ IsRead(sent[1], builder)
    BY <2>1, SentIsRead
  <2> QED
    BY <2>2 DEF IsRead
<1> QED
  BY <1>1, Invariant, PTL

\* No UPDATE and no DELETE without a WHERE reaches the database unless the author called all()
\* (the guards of Update::to_sql and Delete::to_sql).
THEOREM NothingUnfilteredSent ==
  Spec => []NothingUnfiltered
<1>1. IInv => NothingUnfiltered
  <2> SUFFICES ASSUME IInv, NEW s \in Range(sent), builder.kind \in {"update", "delete"}, Condition(s) = NoExpr
               PROVE  builder.all
    BY DEF NothingUnfiltered
  <2>1. sent # <<>>
    BY DEF Range
  <2>2. s = sent[1] /\ IsRead(sent[1], builder) /\ ~ Unconfirmed(builder)
    BY <2>1, SentIsRead
  <2>3. builder.where = NoExpr
    <3>1. Condition(s) = Asked(builder)
      BY <2>2 DEF IsRead
    <3>2. builder.kind # "search"
      OBVIOUS
    <3> QED
      BY <3>1, <3>2 DEF Asked
  <2> QED
    BY <2>2, <2>3 DEF Unconfirmed
<1> QED
  BY <1>1, Invariant, PTL

\* A bound bounds the same rows as it is stored; one that turns negative never bounded any.
LEMMA WindowIs ==
  ASSUME NEW b, IsBuilder(b)
  PROVE  Window(Stored(b.limit), Stored(b.offset)) = Window(b.limit, b.offset)
<1>1. Stored(b.offset) = b.offset
  <2>1. CASE b.offset = <<>>
    BY <2>1 DEF Stored
  <2>2. CASE b.offset # <<>>
    <3>1. PICK n \in Offsets : b.offset[1] = n /\ b.offset = <<n>>
      BY <2>2, BoundsOf
    <3>2. AsI64(n) = n
      BY RangesAssumption DEF AsI64
    <3> QED
      BY <2>2, <3>1, <3>2 DEF Stored
  <2> QED
    BY <2>1, <2>2
<1>2. CASE b.limit = <<>>
  BY <1>1, <1>2 DEF Stored
<1>3. CASE b.limit # <<>>
  <2>1. PICK k \in Limits : b.limit[1] = k /\ b.limit = <<k>>
    BY <1>3, BoundsOf
  <2>2. Stored(b.limit) = <<AsI64(k)>>
    BY <1>3, <2>1 DEF Stored
  <2>3. CASE k < Half
    <3>1. AsI64(k) = k
      BY <2>3 DEF AsI64
    <3> QED
      BY <1>1, <2>1, <2>2, <3>1
  <2>4. CASE ~ (k < Half)
    <3>1. k \in 0 .. 2 * Half - 1 /\ Half \in Nat /\ Rows \in Nat /\ Rows < Half
      BY RangesAssumption
    <3>2. AsI64(k) < 0 /\ AsI64(k) \in Int /\ k >= Half /\ k \in Nat
      BY <2>4, <3>1, AsI64Is
    <3>3. PICK o \in Nat : o = IF b.offset = <<>> THEN 0 ELSE b.offset[1]
      <4>1. b.offset # <<>> => b.offset[1] \in Nat
        <5>1. Offsets \subseteq Nat
          BY RangesAssumption
        <5>2. b.offset # <<>> => b.offset[1] \in Offsets
          BY BoundsOf
        <5> QED
          BY <5>1, <5>2
      <4> QED
        BY <4>1
    <3>4. \A x : Range(<<x>>) = {x}
      BY DEF Range
    <3>5. ASSUME NEW n \in 1 .. Rows
          PROVE  /\ \A x \in Range(<<AsI64(k)>>) : x >= 0 => n <= x + o
                 /\ \A x \in Range(<<k>>) : x >= 0 => n <= x + o
      BY <3>1, <3>2, <3>4
    <3> QED
      BY <1>1, <2>1, <2>2, <3>3, <3>5 DEF Window
  <2> QED
    BY <2>3, <2>4
<1> QED
  BY <1>2, <1>3

\* The rows returned are those limit() and offset() ask for, for every u64 as a limit and
\* every offset below 2^63: a limit of 2^63 and more turns negative and is no limit, which no
\* table is large enough to tell (Select::to_sql, VectorSearch::append_limit).
THEOREM WindowAsked ==
  Spec => []WindowIsAsked
<1>1. IInv => WindowIsAsked
  <2> SUFFICES ASSUME IInv, NEW s \in Range(sent), result = "ok"
               PROVE  Window(Number(s, "LIMIT"), Number(s, "OFFSET")) = Window(builder.limit, builder.offset)
    BY DEF WindowIsAsked
  <2>1. sent # <<>>
    BY DEF Range
  <2>2. s = sent[1] /\ IsRead(sent[1], builder)
    BY <2>1, SentIsRead
  <2>3. Number(s, "LIMIT") = Stored(builder.limit) /\ Number(s, "OFFSET") = Stored(builder.offset)
    BY <2>2 DEF IsRead
  <2> QED
    BY <2>3, WindowIs DEF IInv
<1> QED
  BY <1>1, Invariant, PTL

\* A statement whose form the database refuses has an offset without a limit on SQLite, or on
\* PostgreSQL a limit that turned negative, the predicate that is always true, or a column set
\* twice (the to_sql functions, InsertBuilder and build_vector_search).
THEOREM AcceptedOrKnownCause ==
  Spec => []AcceptedOrKnown
<1>1. IInv => AcceptedOrKnown
  <2> SUFFICES ASSUME IInv, result = "err", sent # <<>>
               PROVE  \/ dialect = "sqlite" /\ builder.offset # <<>> /\ builder.limit = <<>>
                      \/ dialect = "postgres" /\ \E n \in Range(builder.limit) : n >= Half
                      \/ dialect = "postgres" /\ HasTrue(builder.where)
                      \/ dialect = "postgres" /\ NamedTwice(builder.set)
    BY DEF AcceptedOrKnown
  <2>1. PICK s : s = sent[1] /\ IsRead(s, builder) /\ ~ Accepted(s)
    BY SentIsRead
  <2>2. IsBuilder(builder) /\ (dialect = "sqlite" \/ dialect = "postgres")
    BY KindsAssumption DEF IInv
  <2>3. CASE dialect = "sqlite"
    <3>1. Has(s.text, "OFFSET") /\ ~ (Place(s.text, "LIMIT") \in 1 .. Place(s.text, "OFFSET"))
      BY <2>1, <2>3 DEF Accepted
    <3>2. builder.offset # <<>> /\ builder.limit = <<>>
      BY <2>1, <3>1 DEF IsRead
    <3> QED
      BY <2>3, <3>2
  <2>4. CASE dialect = "postgres"
    <3>1. dialect # "sqlite"
      BY <2>4
    <3>2. \/ Has(s.text, "1")
          \/ \E n \in Range(Number(s, "LIMIT")) : ~ (n >= 0)
          \/ Assigning(s.text) /\ NamedTwice(Assigned(s))
      BY <2>1, <3>1 DEF Accepted
    <3>3. CASE Has(s.text, "1")
      BY <2>1, <2>4, <3>3 DEF IsRead
    <3>4. ASSUME NEW n \in Range(Number(s, "LIMIT")), ~ (n >= 0)
          PROVE  \E m \in Range(builder.limit) : m >= Half
      <4>1. Number(s, "LIMIT") = Stored(builder.limit)
        BY <2>1 DEF IsRead
      <4>2. builder.limit # <<>>
        BY <3>4, <4>1 DEF Stored, Range
      <4>3. PICK k \in Limits : builder.limit[1] = k /\ builder.limit = <<k>>
        BY <2>2, <4>2, BoundsOf
      <4>4. n = AsI64(k)
        BY <3>4, <4>1, <4>2, <4>3 DEF Stored, Range
      <4>5. k \in 0 .. 2 * Half - 1 /\ Half \in Nat
        BY RangesAssumption
      <4>6. k >= Half
        BY <3>4, <4>4, <4>5 DEF AsI64
      <4>7. Range(<<k>>) = {k}
        BY DEF Range
      <4> QED
        BY <4>3, <4>6, <4>7
    <3>5. CASE Assigning(s.text) /\ NamedTwice(Assigned(s))
      <4>1. Assigned(s) = builder.set
        BY <2>1, <3>5 DEF IsRead
      <4> QED
        BY <2>4, <3>5, <4>1
    <3> QED
      BY <2>4, <3>2, <3>3, <3>4, <3>5
  <2> QED
    BY <2>2, <2>3, <2>4
<1> QED
  BY <1>1, Invariant, PTL
=============================================================================
