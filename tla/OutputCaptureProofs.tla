------------------------- MODULE OutputCaptureProofs -------------------------
(***************************************************************************)
(* Theorems about OutputCapture for every size of the pipe and every number *)
(* of bytes and failures.                                                  *)
(***************************************************************************)
EXTENDS OutputCapture, FiniteSetTheorems, SequenceTheorems, TLAPS

-----------------------------------------------------------------------------
(* Induction: a set of naturals has a least element, so what fails for some *)
(* number fails for a least one.                                           *)

LEMMA LeastOne ==
  ASSUME NEW T \in SUBSET Nat, T # {}
  PROVE  \E n \in T : \A m \in T : n <= m
  <1> DEFINE F == FiniteSubsetsOf(Nat)
             U == {0..n : n \in T}
             R == StrictSubsetOrdering(Nat)
  <1>1. IsWellFoundedOn(R, F)
    BY FS_StrictSubsetOrderingWellFounded
  <1>2. U \subseteq F /\ U # {}
    <2>1. \A n \in Nat : 0..n \in F
      BY FS_Interval DEF FiniteSubsetsOf
    <2>2. QED
      BY <2>1
  <1>3. PICK x \in U : \A y \in U : ~(<<y, x>> \in R)
    <2> HIDE DEF F, U, R
    <2>1. QED
      BY <1>1, <1>2, WFMin
  <1>4. PICK n \in T : x = 0..n
    BY <1>3
  <1>5. ASSUME NEW m \in T, m < n
        PROVE  FALSE
    <2>1. 0..m \in U /\ 0..m \in SUBSET Nat /\ 0..n \in SUBSET Nat
      OBVIOUS
    <2>2. n \in 0..n /\ n \notin 0..m
      BY <1>5
    <2>3. 0..m \subseteq 0..n /\ 0..m # 0..n
      BY <1>5, <2>2
    <2>4. <<0..m, 0..n>> \in R
      BY <2>1, <2>3 DEF StrictSubsetOrdering
    <2>5. QED
      BY <2>1, <2>4, <1>3, <1>4
  <1>6. QED
    BY <1>5

\* Induction over a set of naturals.
LEMMA Inductive ==
  ASSUME NEW T \in SUBSET Nat, 0 \in T, \A n \in T : n + 1 \in T
  PROVE  T = Nat
  <1> SUFFICES ASSUME Nat \ T # {} PROVE FALSE
    OBVIOUS
  <1>1. PICK n \in Nat \ T : \A m \in Nat \ T : n <= m
    BY LeastOne
  <1>2. n # 0 /\ n - 1 \in Nat /\ n - 1 \in T
    BY <1>1
  <1>3. (n - 1) + 1 = n
    BY <1>1
  <1>4. QED
    BY <1>1, <1>2, <1>3

\* Induction over sequences, from their ends.
LEMMA SeqInductive ==
  ASSUME NEW S, NEW T \in SUBSET Seq(S), <<>> \in T,
         \A s \in T, e \in S : Append(s, e) \in T
  PROVE  T = Seq(S)
  <1> DEFINE L == {n \in Nat : \A s \in Seq(S) : Len(s) = n => s \in T}
  <1>1. 0 \in L
    BY EmptySeq
  <1>2. ASSUME NEW n \in L
        PROVE  n + 1 \in L
    <2>1. ASSUME NEW s \in Seq(S), Len(s) = n + 1
          PROVE  s \in T
      <3>1. s # <<>>
        BY <2>1
      <3>2. PICK u \in Seq(S), e \in S : s = Append(u, e)
        BY <3>1, SequenceEmptyOrAppend
      <3>3. Len(u) \in Nat /\ Len(s) = Len(u) + 1
        BY <3>2, AppendProperties, LenProperties
      <3>4. u \in T
        BY <2>1, <3>3
      <3>5. QED
        BY <3>2, <3>4
    <2>2. QED
      BY <2>1
  <1>3. L = Nat
    <2>1. L \in SUBSET Nat
      OBVIOUS
    <2> HIDE DEF L
    <2>2. QED
      BY <1>1, <1>2, <2>1, Inductive
  <1>4. QED
    BY <1>3, LenProperties

LEMMA AppendOfConcat ==
  ASSUME NEW S, NEW s \in Seq(S), NEW t \in Seq(S), NEW e \in S
  PROVE  s \o Append(t, e) = Append(s \o t, e)
  <1>1. <<e>> \in Seq(S) /\ s \o t \in Seq(S)
    BY ConcatProperties
  <1>2. Append(t, e) = t \o <<e>> /\ Append(s \o t, e) = (s \o t) \o <<e>>
    BY <1>1, AppendIsConcat
  <1>3. QED
    BY <1>1, <1>2, ConcatAssociative

-----------------------------------------------------------------------------
(* Kept: what it is of more bytes, of two pieces, of one kind only          *)

\* The function that Kept is the last value of.
IsKept(f, bytes, kind, n) ==
  f = [i \in 0..n |-> IF i = 0 THEN <<>>
                      ELSE IF bytes[i] \in kind THEN Append(f[i - 1], bytes[i]) ELSE f[i - 1]]

LEMMA KeptExists ==
  ASSUME NEW bytes, NEW kind, NEW n \in Nat
  PROVE  \E f : IsKept(f, bytes, kind, n)
  <1> DEFINE T == {m \in Nat : \E f : IsKept(f, bytes, kind, m)}
  <1>1. 0 \in T
    <2> DEFINE g == [i \in 0..0 |-> <<>>]
    <2>1. IsKept(g, bytes, kind, 0)
      BY DEF IsKept
    <2>2. QED
      BY <2>1
  <1>2. ASSUME NEW m \in T
        PROVE  m + 1 \in T
    <2>1. PICK f : IsKept(f, bytes, kind, m)
      OBVIOUS
    <2> DEFINE last == IF bytes[m + 1] \in kind THEN Append(f[m], bytes[m + 1]) ELSE f[m]
               g == [i \in 0..(m + 1) |-> IF i = m + 1 THEN last ELSE f[i]]
    <2>2. \A i \in 0..m :
            f[i] = IF i = 0 THEN <<>>
                   ELSE IF bytes[i] \in kind THEN Append(f[i - 1], bytes[i]) ELSE f[i - 1]
      BY <2>1 DEF IsKept
    <2>3. \A i \in 0..(m + 1) :
            g[i] = IF i = 0 THEN <<>>
                   ELSE IF bytes[i] \in kind THEN Append(g[i - 1], bytes[i]) ELSE g[i - 1]
      BY <2>2
    <2>4. IsKept(g, bytes, kind, m + 1)
      <3>1. g = [i \in 0..(m + 1) |-> g[i]]
        OBVIOUS
      <3> HIDE DEF g
      <3>2. QED
        BY <2>3, <3>1 DEF IsKept
    <2>5. QED
      BY <2>4
  <1>3. T = Nat
    <2> HIDE DEF T
    <2>1. T \in SUBSET Nat
      BY DEF T
    <2>2. QED
      BY <1>1, <1>2, <2>1, Inductive
  <1>4. QED
    BY <1>3

LEMMA KeptIs ==
  ASSUME NEW bytes, NEW kind, Len(bytes) \in Nat
  PROVE  \E f : IsKept(f, bytes, kind, Len(bytes)) /\ Kept(bytes, kind) = f[Len(bytes)]
  <1> DEFINE f == CHOOSE f : IsKept(f, bytes, kind, Len(bytes))
  <1>1. IsKept(f, bytes, kind, Len(bytes))
    BY KeptExists
  <1>2. Kept(bytes, kind) = f[Len(bytes)]
    BY DEF Kept, IsKept
  <1>3. QED
    BY <1>1, <1>2

LEMMA KeptEmpty == \A kind : Kept(<<>>, kind) = <<>>
  <1> SUFFICES ASSUME NEW kind PROVE Kept(<<>>, kind) = <<>>
    OBVIOUS
  <1>1. Len(<<>>) = 0
    OBVIOUS
  <1>2. QED
    BY <1>1, KeptIs DEF IsKept

\* Two such functions agree as far as the bytes do.
LEMMA KeptAgree ==
  ASSUME NEW kind, NEW s, NEW t, NEW f, NEW g, NEW m \in Nat, NEW n \in Nat, m <= n,
         IsKept(f, s, kind, m), IsKept(g, t, kind, n), \A i \in 1..m : s[i] = t[i]
  PROVE  \A i \in 0..m : f[i] = g[i]
  <1> DEFINE T == {i \in Nat : i <= m => f[i] = g[i]}
  <1>1. /\ \A i \in 0..m : f[i] = IF i = 0 THEN <<>>
                   ELSE IF s[i] \in kind THEN Append(f[i - 1], s[i]) ELSE f[i - 1]
        /\ \A i \in 0..n : g[i] = IF i = 0 THEN <<>>
                   ELSE IF t[i] \in kind THEN Append(g[i - 1], t[i]) ELSE g[i - 1]
    BY DEF IsKept
  <1>2. 0 \in T
    BY <1>1
  <1>3. ASSUME NEW i \in T
        PROVE  i + 1 \in T
    BY <1>1
  <1>4. T = Nat
    <2>1. T \in SUBSET Nat
      OBVIOUS
    <2> HIDE DEF T
    <2>2. QED
      BY <1>2, <1>3, <2>1, Inductive
  <1>5. QED
    BY <1>4

\* How one more byte counts.
LEMMA KeptAppend ==
  ASSUME NEW S, NEW s \in Seq(S), NEW b \in S, NEW kind
  PROVE  Kept(Append(s, b), kind) =
           IF b \in kind THEN Append(Kept(s, kind), b) ELSE Kept(s, kind)
  <1> DEFINE t == Append(s, b)
             n == Len(s)
  <1>1. /\ n \in Nat /\ Len(t) = n + 1 /\ t[n + 1] = b
        /\ \A i \in 1..n : s[i] = t[i]
    BY AppendProperties, LenProperties
  <1> HIDE DEF t, n
  <1>2. PICK f : IsKept(f, s, kind, n) /\ Kept(s, kind) = f[n]
    BY <1>1, KeptIs DEF n
  <1>3. PICK g : IsKept(g, t, kind, n + 1) /\ Kept(t, kind) = g[n + 1]
    BY <1>1, KeptIs
  <1>4. f[n] = g[n]
    BY <1>1, <1>2, <1>3, KeptAgree
  <1>5. g[n + 1] = IF b \in kind THEN Append(g[n], b) ELSE g[n]
    <2>1. \A i \in 0..(n + 1) : g[i] = IF i = 0 THEN <<>>
                   ELSE IF t[i] \in kind THEN Append(g[i - 1], t[i]) ELSE g[i - 1]
      BY <1>3 DEF IsKept
    <2>2. n + 1 \in 0..(n + 1) /\ n + 1 # 0 /\ (n + 1) - 1 = n
      BY <1>1
    <2>3. QED
      BY <1>1, <2>1, <2>2
  <1>6. QED
    BY <1>2, <1>3, <1>4, <1>5 DEF t

LEMMA KeptType ==
  ASSUME NEW S, NEW s \in Seq(S), NEW kind
  PROVE  Kept(s, kind) \in Seq(S)
  <1> DEFINE T == {t \in Seq(S) : Kept(t, kind) \in Seq(S)}
  <1>1. <<>> \in T
    BY KeptEmpty, EmptySeq
  <1>2. ASSUME NEW t \in T, NEW e \in S
        PROVE  Append(t, e) \in T
    <2>1. Append(t, e) \in Seq(S) /\ Append(Kept(t, kind), e) \in Seq(S)
      BY AppendProperties
    <2>2. t \in Seq(S)
      OBVIOUS
    <2>3. Kept(Append(t, e), kind) =
            IF e \in kind THEN Append(Kept(t, kind), e) ELSE Kept(t, kind)
      BY <2>2, KeptAppend
    <2>4. QED
      BY <2>1, <2>3
  <1>3. T = Seq(S)
    <2>1. T \in SUBSET Seq(S)
      OBVIOUS
    <2> HIDE DEF T
    <2>2. QED
      BY <1>1, <1>2, <2>1, SeqInductive
  <1>4. QED
    BY <1>3

\* What is kept of two pieces is kept of the whole.
LEMMA KeptConcat ==
  ASSUME NEW S, NEW s \in Seq(S), NEW u \in Seq(S), NEW kind
  PROVE  Kept(s \o u, kind) = Kept(s, kind) \o Kept(u, kind)
  <1> DEFINE T == {t \in Seq(S) : Kept(s \o t, kind) = Kept(s, kind) \o Kept(t, kind)}
  <1>1. <<>> \in T
    <2>1. Kept(s, kind) \in Seq(S)
      BY KeptType
    <2>2. s \o <<>> = s /\ Kept(s, kind) \o <<>> = Kept(s, kind)
      BY <2>1, ConcatEmptySeq
    <2>3. QED
      BY <2>2, KeptEmpty, EmptySeq
  <1>2. ASSUME NEW t \in T, NEW e \in S
        PROVE  Append(t, e) \in T
    <2>1. Append(t, e) \in Seq(S) /\ s \o t \in Seq(S)
      BY AppendProperties, ConcatProperties
    <2>2. s \o Append(t, e) = Append(s \o t, e)
      BY AppendOfConcat
    <2>3. Kept(s, kind) \in Seq(S) /\ Kept(t, kind) \in Seq(S)
      BY KeptType
    <2>4. Kept(s \o Append(t, e), kind) =
            IF e \in kind THEN Append(Kept(s \o t, kind), e) ELSE Kept(s \o t, kind)
      <3> DEFINE w == s \o t
      <3> HIDE DEF w
      <3>1. w \in Seq(S)
        BY <2>1 DEF w
      <3>2. Kept(Append(w, e), kind) = IF e \in kind THEN Append(Kept(w, kind), e) ELSE Kept(w, kind)
        BY <3>1, KeptAppend
      <3>3. QED
        BY <2>2, <3>2 DEF w
    <2>5. Kept(Append(t, e), kind) =
            IF e \in kind THEN Append(Kept(t, kind), e) ELSE Kept(t, kind)
      BY KeptAppend
    <2>6. Kept(s, kind) \o Append(Kept(t, kind), e) = Append(Kept(s, kind) \o Kept(t, kind), e)
      BY <2>3, AppendOfConcat
    <2>7. QED
      BY <2>1, <2>4, <2>5, <2>6
  <1>3. T = Seq(S)
    <2>1. T \in SUBSET Seq(S)
      OBVIOUS
    <2> HIDE DEF T
    <2>2. QED
      BY <1>1, <1>2, <2>1, SeqInductive
  <1>4. QED
    BY <1>3

LEMMA KeptAll ==
  ASSUME NEW S, NEW s \in Seq(S), NEW kind, S \subseteq kind
  PROVE  Kept(s, kind) = s
  <1> DEFINE T == {t \in Seq(S) : Kept(t, kind) = t}
  <1>1. <<>> \in T
    BY KeptEmpty, EmptySeq
  <1>2. ASSUME NEW t \in T, NEW e \in S
        PROVE  Append(t, e) \in T
    <2>1. t \in Seq(S) /\ Kept(t, kind) = t /\ e \in kind
      OBVIOUS
    <2>2. Append(t, e) \in Seq(S)
      BY <2>1, AppendProperties
    <2>3. Kept(Append(t, e), kind) = Append(t, e)
      BY <2>1, KeptAppend
    <2>4. QED
      BY <2>2, <2>3
  <1>3. T = Seq(S)
    <2>1. T \in SUBSET Seq(S)
      OBVIOUS
    <2> HIDE DEF T
    <2>2. QED
      BY <1>1, <1>2, <2>1, SeqInductive
  <1>4. QED
    BY <1>3

LEMMA KeptNone ==
  ASSUME NEW S, NEW s \in Seq(S), NEW kind, S \cap kind = {}
  PROVE  Kept(s, kind) = <<>>
  <1> DEFINE T == {t \in Seq(S) : Kept(t, kind) = <<>>}
  <1>1. <<>> \in T
    BY KeptEmpty, EmptySeq
  <1>2. ASSUME NEW t \in T, NEW e \in S
        PROVE  Append(t, e) \in T
    <2>1. t \in Seq(S) /\ Kept(t, kind) = <<>> /\ e \notin kind
      OBVIOUS
    <2>2. Append(t, e) \in Seq(S)
      BY <2>1, AppendProperties
    <2>3. Kept(Append(t, e), kind) = <<>>
      BY <2>1, KeptAppend
    <2>4. QED
      BY <2>2, <2>3
  <1>3. T = Seq(S)
    <2>1. T \in SUBSET Seq(S)
      OBVIOUS
    <2> HIDE DEF T
    <2>2. QED
      BY <1>1, <1>2, <2>1, SeqInductive
  <1>4. QED
    BY <1>3

\* All that is kept is of the kind.
LEMMA KeptOf ==
  ASSUME NEW S, NEW s \in Seq(S), NEW kind
  PROVE  Kept(s, kind) \in Seq(kind)
  <1> DEFINE T == {t \in Seq(S) : Kept(t, kind) \in Seq(kind)}
  <1>1. <<>> \in T
    BY KeptEmpty, EmptySeq
  <1>2. ASSUME NEW t \in T, NEW e \in S
        PROVE  Append(t, e) \in T
    <2>1. t \in Seq(S) /\ Kept(t, kind) \in Seq(kind)
      OBVIOUS
    <2>2. Append(t, e) \in Seq(S)
      BY <2>1, AppendProperties
    <2>3. Kept(Append(t, e), kind) =
            IF e \in kind THEN Append(Kept(t, kind), e) ELSE Kept(t, kind)
      BY <2>1, KeptAppend
    <2>4. e \in kind => Append(Kept(t, kind), e) \in Seq(kind)
      BY <2>1, AppendProperties
    <2>5. QED
      BY <2>1, <2>2, <2>3, <2>4
  <1>3. T = Seq(S)
    <2>1. T \in SUBSET Seq(S)
      OBVIOUS
    <2> HIDE DEF T
    <2>2. QED
      BY <1>1, <1>2, <2>1, SeqInductive
  <1>4. QED
    BY <1>3
-----------------------------------------------------------------------------
(* Split: what it is of more bytes and of two pieces                       *)

\* A line as the journal shows it.
Shown(S) == {Rendered(line) : line \in Seq(S)}

\* What no bytes are split into.
Blank == [lines |-> <<>>, rest |-> <<>>]

\* One more byte, to what it is split into so far.
Grown(so, byte) ==
  IF byte = "nl"
  THEN [lines |-> Append(so.lines, Rendered(so.rest)), rest |-> <<>>]
  ELSE [so EXCEPT !.rest = Append(@, byte)]

\* The function that Split is the last value of.
IsSplit(f, bytes, n) ==
  f = [i \in 0..n |-> IF i = 0 THEN Blank ELSE Grown(f[i - 1], bytes[i])]

LEMMA SplitExists ==
  ASSUME NEW bytes, NEW n \in Nat
  PROVE  \E f : IsSplit(f, bytes, n)
  <1> DEFINE T == {m \in Nat : \E f : IsSplit(f, bytes, m)}
  <1>1. 0 \in T
    <2> DEFINE g == [i \in 0..0 |-> Blank]
    <2>1. IsSplit(g, bytes, 0)
      BY DEF IsSplit
    <2>2. QED
      BY <2>1
  <1>2. ASSUME NEW m \in T
        PROVE  m + 1 \in T
    <2>1. PICK f : IsSplit(f, bytes, m)
      OBVIOUS
    <2> DEFINE g == [i \in 0..(m + 1) |-> IF i = m + 1 THEN Grown(f[m], bytes[m + 1]) ELSE f[i]]
    <2>2. \A i \in 0..m : f[i] = IF i = 0 THEN Blank ELSE Grown(f[i - 1], bytes[i])
      BY <2>1 DEF IsSplit
    <2>3. \A i \in 0..(m + 1) : g[i] = IF i = 0 THEN Blank ELSE Grown(g[i - 1], bytes[i])
      BY <2>2
    <2>4. IsSplit(g, bytes, m + 1)
      <3>1. g = [i \in 0..(m + 1) |-> g[i]]
        OBVIOUS
      <3> HIDE DEF g
      <3>2. QED
        BY <2>3, <3>1 DEF IsSplit
    <2>5. QED
      BY <2>4
  <1>3. T = Nat
    <2>1. T \in SUBSET Nat
      OBVIOUS
    <2> HIDE DEF T
    <2>2. QED
      BY <1>1, <1>2, <2>1, Inductive
  <1>4. QED
    BY <1>3

LEMMA SplitIs ==
  ASSUME NEW bytes, Len(bytes) \in Nat
  PROVE  \E f : IsSplit(f, bytes, Len(bytes)) /\ Split(bytes) = f[Len(bytes)]
  <1> DEFINE f == CHOOSE f : IsSplit(f, bytes, Len(bytes))
  <1>1. IsSplit(f, bytes, Len(bytes))
    BY SplitExists
  <1>2. Split(bytes) = f[Len(bytes)]
    BY DEF Split, IsSplit, Grown, Blank
  <1>3. QED
    BY <1>1, <1>2

LEMMA SplitEmpty == Split(<<>>) = Blank
  <1>1. Len(<<>>) = 0
    OBVIOUS
  <1>2. PICK f : IsSplit(f, <<>>, 0) /\ Split(<<>>) = f[0]
    BY <1>1, SplitIs
  <1>3. f[0] = Blank
    BY <1>2 DEF IsSplit
  <1>4. QED
    BY <1>2, <1>3

LEMMA SplitAgree ==
  ASSUME NEW s, NEW t, NEW f, NEW g, NEW m \in Nat, NEW n \in Nat, m <= n,
         IsSplit(f, s, m), IsSplit(g, t, n), \A i \in 1..m : s[i] = t[i]
  PROVE  \A i \in 0..m : f[i] = g[i]
  <1> DEFINE T == {i \in Nat : i <= m => f[i] = g[i]}
  <1>1. /\ \A i \in 0..m : f[i] = IF i = 0 THEN Blank ELSE Grown(f[i - 1], s[i])
        /\ \A i \in 0..n : g[i] = IF i = 0 THEN Blank ELSE Grown(g[i - 1], t[i])
    BY DEF IsSplit
  <1>2. 0 \in T
    BY <1>1
  <1>3. ASSUME NEW i \in T
        PROVE  i + 1 \in T
    BY <1>1
  <1>4. T = Nat
    <2>1. T \in SUBSET Nat
      OBVIOUS
    <2> HIDE DEF T
    <2>2. QED
      BY <1>2, <1>3, <2>1, Inductive
  <1>5. QED
    BY <1>4

LEMMA SplitAppend ==
  ASSUME NEW S, NEW s \in Seq(S), NEW b \in S
  PROVE  Split(Append(s, b)) = Grown(Split(s), b)
  <1> DEFINE t == Append(s, b)
             n == Len(s)
  <1>1. /\ n \in Nat /\ Len(t) = n + 1 /\ t[n + 1] = b
        /\ \A i \in 1..n : s[i] = t[i]
    BY AppendProperties, LenProperties
  <1> HIDE DEF t, n
  <1>2. PICK f : IsSplit(f, s, n) /\ Split(s) = f[n]
    BY <1>1, SplitIs DEF n
  <1>3. PICK g : IsSplit(g, t, n + 1) /\ Split(t) = g[n + 1]
    BY <1>1, SplitIs
  <1>4. f[n] = g[n]
    BY <1>1, <1>2, <1>3, SplitAgree
  <1>5. g[n + 1] = Grown(g[n], b)
    <2>1. \A i \in 0..(n + 1) : g[i] = IF i = 0 THEN Blank ELSE Grown(g[i - 1], t[i])
      BY <1>3 DEF IsSplit
    <2>2. n + 1 \in 0..(n + 1) /\ n + 1 # 0 /\ (n + 1) - 1 = n
      BY <1>1
    <2>3. g[n + 1] = Grown(g[(n + 1) - 1], t[n + 1])
      BY <2>1, <2>2
    <2>4. QED
      BY <1>1, <2>2, <2>3
  <1>6. QED
    BY <1>2, <1>3, <1>4, <1>5 DEF t

\* Complete lines as they are shown, and behind them bytes that end no line.
Splits(S) == [lines : Seq(Shown(S)), rest : Seq(S \ {"nl"})]

LEMMA BlankType == \A S : Blank \in Splits(S)
  BY EmptySeq DEF Blank, Splits

LEMMA GrownType ==
  ASSUME NEW S, NEW so \in Splits(S), NEW b \in S
  PROVE  Grown(so, b) \in Splits(S)
  <1>1. so.lines \in Seq(Shown(S)) /\ so.rest \in Seq(S \ {"nl"})
    BY DEF Splits
  <1>2. CASE b = "nl"
    <2>1. so.rest \in Seq(S)
      BY <1>1, SeqMonotonic
    <2>2. Append(so.lines, Rendered(so.rest)) \in Seq(Shown(S))
      <3>1. Rendered(so.rest) \in Shown(S)
        BY <2>1 DEF Shown
      <3>2. QED
        BY <1>1, <3>1, AppendProperties
    <2>3. QED
      BY <1>2, <2>2, EmptySeq DEF Grown, Splits
  <1>3. CASE b # "nl"
    <2>1. Append(so.rest, b) \in Seq(S \ {"nl"})
      BY <1>1, <1>3, AppendProperties
    <2>2. Grown(so, b) = [so EXCEPT !.rest = Append(so.rest, b)]
      BY <1>3 DEF Grown
    <2>3. QED
      BY <2>1, <2>2 DEF Splits
  <1>4. QED
    BY <1>2, <1>3

LEMMA SplitType ==
  ASSUME NEW S, NEW s \in Seq(S)
  PROVE  Split(s) \in Splits(S)
  <1> DEFINE T == {t \in Seq(S) : Split(t) \in Splits(S)}
  <1>1. <<>> \in T
    BY SplitEmpty, BlankType, EmptySeq
  <1>2. ASSUME NEW t \in T, NEW e \in S
        PROVE  Append(t, e) \in T
    <2>1. t \in Seq(S) /\ Split(t) \in Splits(S)
      OBVIOUS
    <2>2. Append(t, e) \in Seq(S) /\ Split(Append(t, e)) = Grown(Split(t), e)
      BY <2>1, AppendProperties, SplitAppend
    <2>3. Grown(Split(t), e) \in Splits(S)
      BY <2>1, GrownType
    <2>4. QED
      BY <2>2, <2>3
  <1>3. T = Seq(S)
    <2>1. T \in SUBSET Seq(S)
      OBVIOUS
    <2> HIDE DEF T
    <2>2. QED
      BY <1>1, <1>2, <2>1, SeqInductive
  <1>4. QED
    BY <1>3

\* Bytes without a newline are the start of a line.
LEMMA SplitUnfinished ==
  ASSUME NEW S, NEW s \in Seq(S \ {"nl"})
  PROVE  Split(s) = [lines |-> <<>>, rest |-> s]
  <1> DEFINE N == S \ {"nl"}
             T == {t \in Seq(N) : Split(t) = [lines |-> <<>>, rest |-> t]}
  <1>1. <<>> \in T
    BY SplitEmpty, EmptySeq DEF Blank
  <1>2. ASSUME NEW t \in T, NEW e \in N
        PROVE  Append(t, e) \in T
    <2>1. t \in Seq(N) /\ Split(t) = [lines |-> <<>>, rest |-> t] /\ e # "nl"
      OBVIOUS
    <2>2. Append(t, e) \in Seq(N) /\ Split(Append(t, e)) = Grown(Split(t), e)
      BY <2>1, AppendProperties, SplitAppend
    <2>3. Grown(Split(t), e) = [lines |-> <<>>, rest |-> Append(t, e)]
      BY <2>1 DEF Grown
    <2>4. QED
      BY <2>2, <2>3
  <1>3. T = Seq(N)
    <2>1. T \in SUBSET Seq(N)
      OBVIOUS
    <2> HIDE DEF T, N
    <2>2. QED
      BY <1>1, <1>2, <2>1, SeqInductive
  <1>4. QED
    BY <1>3

\* What joins two pieces: the second is split behind what the first leaves open.
Joined(p, q) == [lines |-> p.lines \o q.lines, rest |-> q.rest]

LEMMA GrownJoined ==
  ASSUME NEW S, NEW p \in Splits(S), NEW q \in Splits(S), NEW b \in S
  PROVE  Grown(Joined(p, q), b) = Joined(p, Grown(q, b))
  <1>1. p.lines \in Seq(Shown(S)) /\ q.lines \in Seq(Shown(S)) /\ q.rest \in Seq(S)
    BY SeqMonotonic DEF Splits
  <1>2. CASE b = "nl"
    <2>1. Rendered(q.rest) \in Shown(S)
      BY <1>1 DEF Shown
    <2>2. p.lines \o Append(q.lines, Rendered(q.rest)) = Append(p.lines \o q.lines, Rendered(q.rest))
      <3> DEFINE a == p.lines
                 c == q.lines
                 e == Rendered(q.rest)
                 Line == Shown(S)
      <3>1. a \in Seq(Line) /\ c \in Seq(Line) /\ e \in Line
        BY <1>1, <2>1
      <3> HIDE DEF a, c, e, Line
      <3>2. a \o Append(c, e) = Append(a \o c, e)
        BY <3>1, AppendOfConcat
      <3>3. QED
        BY <3>2 DEF a, c, e
    <2>3. QED
      BY <1>2, <2>2 DEF Grown, Joined
  <1>3. CASE b # "nl"
    <2>1. q = [lines |-> q.lines, rest |-> q.rest]
      BY DEF Splits
    <2>2. Grown(q, b) = [lines |-> q.lines, rest |-> Append(q.rest, b)]
      BY <1>3, <2>1 DEF Grown
    <2>3. Grown(Joined(p, q), b) = [lines |-> p.lines \o q.lines, rest |-> Append(q.rest, b)]
      BY <1>3 DEF Grown, Joined
    <2>4. QED
      BY <2>2, <2>3 DEF Joined
  <1>4. QED
    BY <1>2, <1>3

\* However a stream is cut in two, it has the same lines.
LEMMA SplitConcat ==
  ASSUME NEW S, NEW s \in Seq(S), NEW u \in Seq(S)
  PROVE  Split(s \o u) = Joined(Split(s), Split(Split(s).rest \o u))
  <1> DEFINE p == Split(s)
             r == p.rest
             T == {t \in Seq(S) : Split(s \o t) = Joined(p, Split(r \o t))}
  <1>1. p \in Splits(S) /\ r \in Seq(S \ {"nl"}) /\ r \in Seq(S) /\ p.lines \in Seq(Shown(S))
    <2>1. p \in Splits(S)
      BY SplitType
    <2>2. p.rest \in Seq(S \ {"nl"}) /\ p.lines \in Seq(Shown(S))
      BY <2>1 DEF Splits
    <2>3. QED
      BY <2>1, <2>2, SeqMonotonic
  <1>2. <<>> \in T
    <2> HIDE DEF p
    <2>1. s \o <<>> = s /\ r \o <<>> = r /\ p.lines \o <<>> = p.lines
      BY <1>1, ConcatEmptySeq
    <2>2. Split(r) = [lines |-> <<>>, rest |-> r]
      BY <1>1, SplitUnfinished
    <2>3. Joined(p, Split(r)) = [lines |-> p.lines, rest |-> p.rest]
      BY <2>1, <2>2 DEF Joined
    <2>4. p = [lines |-> p.lines, rest |-> p.rest]
      BY <1>1 DEF Splits
    <2>5. QED
      BY <2>1, <2>3, <2>4, EmptySeq DEF p
  <1>3. ASSUME NEW t \in T, NEW e \in S
        PROVE  Append(t, e) \in T
    <2>1. t \in Seq(S) /\ Split(s \o t) = Joined(p, Split(r \o t))
      OBVIOUS
    <2> HIDE DEF p
    <2>2. Append(t, e) \in Seq(S) /\ s \o t \in Seq(S) /\ r \o t \in Seq(S)
      BY <1>1, <2>1, AppendProperties, ConcatProperties
    <2>3. s \o Append(t, e) = Append(s \o t, e) /\ r \o Append(t, e) = Append(r \o t, e)
      <3> HIDE DEF r, T
      <3>1. s \o Append(t, e) = Append(s \o t, e)
        BY <2>1, AppendOfConcat
      <3>2. r \o Append(t, e) = Append(r \o t, e)
        BY <1>1, <2>1, AppendOfConcat
      <3>3. QED
        BY <3>1, <3>2
    <2>4. Split(Append(s \o t, e)) = Grown(Split(s \o t), e)
      <3> DEFINE w == s \o t
      <3>1. w \in Seq(S)
        BY <2>2
      <3> HIDE DEF w
      <3>2. Split(Append(w, e)) = Grown(Split(w), e)
        BY <3>1, SplitAppend
      <3>3. QED
        BY <3>2 DEF w
    <2>5. Split(Append(r \o t, e)) = Grown(Split(r \o t), e)
      <3> DEFINE w == r \o t
      <3>1. w \in Seq(S)
        BY <2>2
      <3> HIDE DEF w
      <3>2. Split(Append(w, e)) = Grown(Split(w), e)
        BY <3>1, SplitAppend
      <3>3. QED
        BY <3>2 DEF w
    <2>6. Split(r \o t) \in Splits(S)
      BY <2>2, SplitType
    <2>7. Grown(Joined(p, Split(r \o t)), e) = Joined(p, Grown(Split(r \o t), e))
      BY <1>1, <2>6, GrownJoined
    <2>8. QED
      BY <2>1, <2>2, <2>3, <2>4, <2>5, <2>7
  <1>4. T = Seq(S)
    <2>1. T \in SUBSET Seq(S)
      OBVIOUS
    <2> HIDE DEF T
    <2>2. QED
      BY <1>2, <1>3, <2>1, SeqInductive
  <1>5. QED
    BY <1>4

-----------------------------------------------------------------------------
(* The invariant                                                           *)

\* What the caller prints, and what is written within the block.
Own == {"before", "after", "text", "cr", "nl"}
Within == {"text", "cr", "nl", "child"}
Byte == Own \cup Within

CallerType ==
  /\ sink \in {"none", "journal", "file"}
  /\ pc \in {"begin", "start", "body", "flushing", "joining"} \union Left
  /\ printed \in Seq(Own) /\ buffer \in Seq(Own)
  /\ out \in {"terminal", "pipe"} /\ slaveOpen \in BOOLEAN
StreamType ==
  /\ pipe \in Seq(Within) /\ data \in Seq(Within)
  /\ terminal \in Seq(Byte) /\ terminalOk \in BOOLEAN
ChildType ==
  /\ child \in {"none", "running", "ended"}
  /\ childOut \in {"terminal", "pipe"} /\ childWrote \in Nat
SinkType ==
  /\ pump \in {"off", "reading", "forwarding", "saving", "ended", "dead"}
  /\ tail \in Seq(Byte) /\ saved \in Seq(Byte \cup Shown(Byte))
  /\ faults \in Nat /\ sinkOk \in BOOLEAN
TypeInv == CallerType /\ StreamType /\ ChildType /\ SinkType

\* Where the descriptors lead, by where the caller is.
PlaceInv ==
  /\ out = "pipe" <=> sink # "none" /\ pc \in {"body", "flushing", "raised"}
  /\ slaveOpen <=> out = "pipe"
  /\ pump = "off" <=> sink = "none" \/ pc \in {"start", "refused"}
  /\ sink = "none" => pc \in {"begin", "body", "done"}
  /\ pc = "begin" => sink = "none"
ChildInv ==
  /\ child # "none" => pc \in {"body", "flushing", "joining", "done", "raised"}
  /\ child # "none" => (childOut = "terminal" <=> sink = "none")

\* What the pump has in hand, and when it is through.
PumpInv ==
  /\ pump \in {"off", "reading", "ended"} => data = <<>>
  /\ pump = "off" => pipe = <<>> /\ saved = <<>> /\ tail = <<>>
  /\ pump = "ended" =>
       pipe = <<>> /\ out = "terminal" /\ ~(child = "running" /\ childOut = "pipe")
  /\ pump = "dead" => ~terminalOk
  /\ pump # "off" /\ pc = "done" => pump \in {"ended", "dead"}

\* What may be buffered: each redirection finds the buffer empty.
BufferInv ==
  /\ pc \in {"begin", "start", "refused"} => buffer \in Seq({"before"}) /\ terminal \in Seq({"before"})
  /\ sink # "none" /\ pc \in {"body", "flushing", "raised"} => buffer \in Seq({"text", "cr", "nl"})
  /\ pc = "joining" => buffer = <<>>
  /\ sink # "none" /\ pc = "done" => buffer \in Seq({"after"})

\* Every byte written so far, on the terminal or on its way there.
InHand == IF pump = "forwarding" THEN data ELSE <<>>
Stream == (terminal \o InHand) \o pipe
LossInv ==
  terminalOk =>
    /\ Kept(Stream, Own) \o buffer = printed
    /\ Len(Stream) + Len(buffer) = Len(printed) + childWrote

\* The sink has what the pump has forwarded, but for what it has yet to save.
Unsaved == IF pump = "saving" THEN data ELSE <<>>
Unfinished(got) == IF Rest(got) # <<>> THEN <<Rendered(Rest(got))>> ELSE <<>>
Stored(got) ==
  /\ sink = "file" => saved = got
  /\ sink = "journal" /\ pc \notin Left => saved = Lines(got) /\ tail = Rest(got)
  /\ sink = "journal" /\ pc \in Left => saved = Lines(got) \o Unfinished(got)
SinkInv ==
  sinkOk /\ pump # "off" => \E got \in Seq(Within) : Inside(terminal) = got \o Unsaved /\ Stored(got)

IInv == TypeInv /\ PlaceInv /\ ChildInv /\ PumpInv /\ BufferInv /\ LossInv /\ SinkInv

-----------------------------------------------------------------------------
(* Each action preserves the invariant, part by part                       *)

LEMMA InitHolds == Init => IInv
  <1> SUFFICES ASSUME Init PROVE IInv
    OBVIOUS
  <1>1. TypeInv
    BY EmptySeq DEF Init, TypeInv, CallerType, StreamType, ChildType, SinkType
  <1>2. PlaceInv /\ ChildInv /\ PumpInv
    BY DEF Init, PlaceInv, ChildInv, PumpInv
  <1>3. BufferInv
    BY EmptySeq DEF Init, BufferInv
  <1>4. LossInv
    <2>1. InHand = <<>> /\ Stream = <<>>
      BY DEF Init, InHand, Stream
    <2>2. Kept(Stream, Own) = <<>>
      BY <2>1, KeptEmpty
    <2>3. QED
      BY <2>1, <2>2 DEF Init, LossInv
  <1>5. SinkInv
    BY DEF Init, SinkInv
  <1>6. QED
    BY <1>1, <1>2, <1>3, <1>4, <1>5 DEF IInv

\* The actions, those of one effect together.
Printing ==
  \E byte \in Own :
    /\ Prints(byte)
    /\ \/ pc = "begin" /\ byte = "before"
       \/ pc = "body" /\ byte \in {"text", "cr", "nl"}
       \/ pc = "done" /\ byte = "after"
Flushing == pc \in {"begin", "start", "body", "flushing"} \union Left /\ Flush

LEMMA NextIs ==
  ASSUME [Next]_vars
  PROVE  \/ Printing \/ Flushing \/ ChooseSink \/ Redirect \/ EndBody \/ Restore \/ Join
         \/ FlushFails \/ PumpRead \/ PumpEnds \/ PumpForward \/ PumpSave
         \/ StartChild \/ ChildWrites \/ ChildEnds \/ TerminalBreaks \/ UNCHANGED vars
  <1>1. CASE PrintBefore
    BY <1>1 DEF PrintBefore, Printing, Own
  <1>2. CASE PrintInside
    <2>1. PICK byte \in {"text", "cr", "nl"} : pc = "body" /\ Prints(byte)
      BY <1>2 DEF PrintInside
    <2>2. QED
      BY <2>1 DEF Printing, Own
  <1>3. CASE PrintAfter
    BY <1>3 DEF PrintAfter, Printing, Own
  <1>4. CASE FlushFirst \/ FlushLast \/ FlushByItself
    BY <1>4 DEF FlushFirst, FlushLast, FlushByItself, Flushing, Left
  <1>5. QED
    BY <1>1, <1>2, <1>3, <1>4 DEF Next, Caller, Pump, Environment

\* A write goes to the terminal or to the pipe.
LEMMA Written ==
  ASSUME NEW where, NEW bytes, WriteTo(where, bytes)
  PROVE  \/ where = "terminal" /\ UNCHANGED pipe
            /\ terminal' = (IF terminalOk THEN terminal \o bytes ELSE terminal)
         \/ where = "pipe" /\ UNCHANGED terminal /\ pipe' = pipe \o bytes
  BY DEF WriteTo

LEMMA PlaceNext ==
  ASSUME TypeInv, PlaceInv, [Next]_vars
  PROVE  PlaceInv'
  <1> USE DEF TypeInv, CallerType, PlaceInv, Left
  <1>1. CASE Printing \/ Flushing
    BY <1>1 DEF Printing, Flushing, Prints, Flush, callerVars, childVars, pumpVars
  <1>2. CASE ChooseSink
    BY <1>2 DEF ChooseSink, Goto, callerVars, childVars, pumpVars
  <1>3. CASE Redirect
    BY <1>3 DEF Redirect, Goto, callerVars, childVars, pumpVars
  <1>4. CASE EndBody
    BY <1>4 DEF EndBody, Goto, callerVars, childVars, pumpVars
  <1>5. CASE Restore
    BY <1>5 DEF Restore, Goto, callerVars, childVars, pumpVars
  <1>6. CASE Join
    BY <1>6 DEF Join, Goto, callerVars, childVars, pumpVars
  <1>7. CASE PumpRead \/ PumpEnds \/ PumpForward \/ PumpSave
    BY <1>7 DEF PumpRead, PumpEnds, PumpForward, PumpSave, callerVars, childVars, pumpVars
  <1>8. CASE StartChild \/ ChildWrites \/ ChildEnds \/ TerminalBreaks \/ UNCHANGED vars
    BY <1>8 DEF StartChild, ChildWrites, ChildEnds, TerminalBreaks, vars, callerVars, childVars, pumpVars
  <1>9. CASE FlushFails
    BY <1>9 DEF FlushFails, Goto, childVars
  <1>10. QED
    BY <1>1, <1>2, <1>3, <1>4, <1>5, <1>6, <1>7, <1>8, <1>9, NextIs

LEMMA ChildNext ==
  ASSUME TypeInv, PlaceInv, ChildInv, [Next]_vars
  PROVE  ChildInv'
  <1> USE DEF TypeInv, CallerType, ChildType, PlaceInv, ChildInv
  <1>1. CASE Printing \/ Flushing
    BY <1>1 DEF Printing, Flushing, Prints, Flush, callerVars, childVars, pumpVars
  <1>2. CASE ChooseSink \/ Redirect \/ EndBody \/ Restore \/ Join
    BY <1>2 DEF ChooseSink, Redirect, EndBody, Restore, Join, Goto, callerVars, childVars, pumpVars
  <1>3. CASE PumpRead \/ PumpEnds \/ PumpForward \/ PumpSave
    BY <1>3 DEF PumpRead, PumpEnds, PumpForward, PumpSave, callerVars, childVars, pumpVars
  <1>4. CASE StartChild
    BY <1>4 DEF StartChild, callerVars
  <1>5. CASE ChildWrites \/ ChildEnds \/ TerminalBreaks \/ UNCHANGED vars
    BY <1>5 DEF ChildWrites, ChildEnds, TerminalBreaks, vars, callerVars, childVars, pumpVars
  <1>6. CASE FlushFails
    BY <1>6 DEF FlushFails, Goto, childVars
  <1>7. QED
    BY <1>1, <1>2, <1>3, <1>4, <1>5, <1>6, NextIs

LEMMA PumpNext ==
  ASSUME TypeInv, PlaceInv, ChildInv, PumpInv, [Next]_vars
  PROVE  PumpInv'
  <1> USE DEF TypeInv, CallerType, ChildType, PlaceInv, ChildInv, PumpInv
  <1>1. CASE Printing
    BY <1>1 DEF Printing, Prints, childVars, pumpVars
  <1>2. CASE Flushing
    <2>1. pump = "off" \/ pump = "ended" => UNCHANGED pipe
      BY <1>2, Written DEF Flushing, Flush
    <2>2. QED
      BY <1>2, <2>1 DEF Flushing, Flush, childVars, pumpVars
  <1>3. CASE ChooseSink \/ Redirect \/ EndBody \/ Restore
    BY <1>3 DEF ChooseSink, Redirect, EndBody, Restore, Goto, childVars, pumpVars
  <1>4. CASE Join
    BY <1>4 DEF Join, Goto, childVars
  <1>5. CASE PumpRead \/ PumpEnds \/ PumpForward
    BY <1>5 DEF PumpRead, PumpEnds, PumpForward, callerVars, childVars
  <1>6. CASE PumpSave
    BY <1>6 DEF PumpSave, callerVars, childVars
  <1>7. CASE StartChild \/ ChildEnds \/ TerminalBreaks \/ UNCHANGED vars
    BY <1>7 DEF StartChild, ChildEnds, TerminalBreaks, vars, callerVars, childVars, pumpVars
  <1>8. CASE ChildWrites
    <2>1. pump = "off" \/ pump = "ended" => UNCHANGED pipe
      BY <1>8, Written DEF ChildWrites
    <2>2. QED
      BY <1>8, <2>1 DEF ChildWrites, callerVars, pumpVars
  <1>9. CASE FlushFails
    BY <1>9 DEF FlushFails, CloseSink, Goto, childVars
  <1>10. QED
    BY <1>1, <1>2, <1>3, <1>4, <1>5, <1>6, <1>7, <1>8, <1>9, NextIs

-----------------------------------------------------------------------------
(* Types                                                                   *)

LEMMA FirstByte ==
  ASSUME NEW S, NEW s \in Seq(S), s # <<>>
  PROVE  /\ Head(s) \in S /\ Tail(s) \in Seq(S) /\ <<Head(s)>> \in Seq(S)
         /\ s = <<Head(s)>> \o Tail(s) /\ Len(s) = Len(Tail(s)) + 1
  <1>1. Head(s) \in S /\ Tail(s) \in Seq(S) /\ Len(Tail(s)) = Len(s) - 1
    BY HeadTailProperties
  <1>2. Len(s) \in Nat \ {0}
    BY EmptySeq
  <1>3. s = <<s[1]>> \o SubSeq(s, 2, Len(s))
    <2>1. 1 \in 1..Len(s) /\ Len(s) \in 1..Len(s)
      BY <1>2
    <2>2. SubSeq(s, 1, Len(s)) = <<s[1]>> \o SubSeq(s, 1 + 1, Len(s))
      BY <2>1, SubSeqRecursiveFirst
    <2>3. SubSeq(s, 1, Len(s)) = s
      BY SubSeqFull
    <2>4. QED
      BY <2>2, <2>3
  <1>4. Tail(s) = SubSeq(s, 2, Len(s)) /\ Head(s) = s[1]
    BY TailIsSubSeq
  <1>5. QED
    BY <1>1, <1>2, <1>3, <1>4

LEMMA Cut ==
  ASSUME NEW S, NEW s \in Seq(S), NEW n \in 0..Len(s)
  PROVE  /\ SubSeq(s, 1, n) \in Seq(S) /\ SubSeq(s, n + 1, Len(s)) \in Seq(S)
         /\ SubSeq(s, 1, n) \o SubSeq(s, n + 1, Len(s)) = s
  <1>1. Len(s) \in Nat /\ \A i \in 1..Len(s) : s[i] \in S
    BY LenProperties, ElementOfSeq
  <1>2. SubSeq(s, 1, n) \in Seq(S)
    <2>1. n \in Int /\ \A i \in 1..n : s[i] \in S
      BY <1>1
    <2>2. QED
      BY <2>1, SubSeqProperties
  <1>3. SubSeq(s, n + 1, Len(s)) \in Seq(S)
    <2>1. n + 1 \in Int /\ Len(s) \in Int /\ \A i \in (n + 1)..Len(s) : s[i] \in S
      BY <1>1
    <2>2. QED
      BY <2>1, SubSeqProperties
  <1>4. SubSeq(s, 1, n) \o SubSeq(s, n + 1, Len(s)) = SubSeq(s, 1, Len(s))
    <2>1. 1 \in 1..Len(s) + 1 /\ n \in 1 - 1..Len(s) /\ Len(s) \in n..Len(s)
      BY <1>1
    <2>2. QED
      BY <2>1, ConcatAdjacentSubSeq
  <1>5. QED
    BY <1>2, <1>3, <1>4, SubSeqFull

LEMMA RemovedType ==
  ASSUME NEW S, NEW s \in Seq(S), NEW k \in DOMAIN s
  PROVE  RemoveAt(s, k) \in Seq(S)
  <1>1. Len(s) \in Nat /\ k \in 1..Len(s)
    BY LenProperties
  <1>2. k - 1 \in 0..Len(s) /\ k \in 0..Len(s)
    BY <1>1
  <1>3. SubSeq(s, 1, k - 1) \in Seq(S) /\ SubSeq(s, k + 1, Len(s)) \in Seq(S)
    BY <1>2, Cut
  <1>4. QED
    BY <1>3, ConcatProperties DEF RemoveAt

LEMMA CallerTypeNext ==
  ASSUME TypeInv, [Next]_vars
  PROVE  CallerType'
  <1> USE DEF TypeInv, CallerType, Left
  <1>1. CASE Printing
    <2>1. PICK byte \in Own : Prints(byte)
      BY <1>1 DEF Printing
    <2>2. printed' = Append(printed, byte) /\ buffer' = Append(buffer, byte) /\ UNCHANGED <<sink, pc, out, slaveOpen>>
      BY <2>1 DEF Prints
    <2>3. printed' \in Seq(Own) /\ buffer' \in Seq(Own)
      BY <2>2, AppendProperties
    <2>4. QED
      BY <2>2, <2>3
  <1>2. CASE Flushing
    <2>1. buffer # <<>> /\ buffer' = Tail(buffer) /\ UNCHANGED <<sink, pc, printed, out, slaveOpen>>
      BY <1>2 DEF Flushing, Flush
    <2>2. buffer' \in Seq(Own)
      BY <2>1, FirstByte
    <2>3. QED
      BY <2>1, <2>2
  <1>3. CASE ChooseSink \/ Redirect \/ EndBody \/ Restore \/ Join \/ FlushFails
    BY <1>3 DEF ChooseSink, Redirect, EndBody, Restore, Join, FlushFails, Goto
  <1>4. CASE PumpRead \/ PumpEnds \/ PumpForward \/ PumpSave
    BY <1>4 DEF PumpRead, PumpEnds, PumpForward, PumpSave, callerVars
  <1>5. CASE StartChild \/ ChildWrites \/ ChildEnds \/ TerminalBreaks \/ UNCHANGED vars
    BY <1>5 DEF StartChild, ChildWrites, ChildEnds, TerminalBreaks, vars, callerVars
  <1>6. QED
    BY <1>1, <1>2, <1>3, <1>4, <1>5, NextIs

LEMMA ChildTypeNext ==
  ASSUME TypeInv, [Next]_vars
  PROVE  ChildType'
  <1> USE DEF TypeInv, CallerType, ChildType
  <1>1. CASE Printing \/ Flushing
    BY <1>1 DEF Printing, Prints, Flushing, Flush, childVars
  <1>2. CASE ChooseSink \/ Redirect \/ EndBody \/ Restore \/ Join \/ FlushFails
    BY <1>2 DEF ChooseSink, Redirect, EndBody, Restore, Join, FlushFails, childVars
  <1>3. CASE PumpRead \/ PumpEnds \/ PumpForward \/ PumpSave
    BY <1>3 DEF PumpRead, PumpEnds, PumpForward, PumpSave, childVars
  <1>4. CASE StartChild \/ ChildWrites \/ ChildEnds \/ TerminalBreaks \/ UNCHANGED vars
    BY <1>4 DEF StartChild, ChildWrites, ChildEnds, TerminalBreaks, vars, childVars
  <1>5. QED
    BY <1>1, <1>2, <1>3, <1>4, NextIs

\* What is written through the pipe is written within the block.
LEMMA FlushedByte ==
  ASSUME TypeInv, PlaceInv, BufferInv, buffer # <<>>
  PROVE  /\ Head(buffer) \in Own
         /\ out = "pipe" => Head(buffer) \in Within
         /\ pc \in {"begin", "start", "refused"} => Head(buffer) = "before"
         /\ sink # "none" /\ pc = "done" => Head(buffer) = "after"
  <1>1. buffer \in Seq(Own)
    BY DEF TypeInv, CallerType
  <1>2. Head(buffer) \in Own
    BY <1>1, FirstByte
  <1>3. ASSUME out = "pipe"
        PROVE  Head(buffer) \in Within
    <2>1. buffer \in Seq({"text", "cr", "nl"})
      BY <1>3 DEF PlaceInv, BufferInv
    <2>2. Head(buffer) \in {"text", "cr", "nl"}
      BY <2>1, FirstByte
    <2>3. QED
      BY <2>2 DEF Within
  <1>4. ASSUME pc \in {"begin", "start", "refused"}
        PROVE  Head(buffer) = "before"
    <2>1. buffer \in Seq({"before"})
      BY <1>4 DEF BufferInv
    <2>2. Head(buffer) \in {"before"}
      BY <2>1, FirstByte
    <2>3. QED
      BY <2>2
  <1>5. ASSUME sink # "none", pc = "done"
        PROVE  Head(buffer) = "after"
    <2>1. buffer \in Seq({"after"})
      BY <1>5 DEF BufferInv
    <2>2. Head(buffer) \in {"after"}
      BY <2>1, FirstByte
    <2>3. QED
      BY <2>2
  <1>6. QED
    BY <1>2, <1>3, <1>4, <1>5

LEMMA WrittenType ==
  ASSUME StreamType, NEW where, NEW byte \in Byte, where = "pipe" => byte \in Within,
         WriteTo(where, <<byte>>)
  PROVE  pipe' \in Seq(Within) /\ terminal' \in Seq(Byte)
  <1> USE DEF StreamType
  <1>1. CASE where = "terminal"
    <2>1. <<byte>> \in Seq(Byte)
      OBVIOUS
    <2>2. terminal \o <<byte>> \in Seq(Byte)
      BY <2>1, ConcatProperties
    <2>3. pipe' = pipe /\ (terminal' = terminal \/ terminal' = terminal \o <<byte>>)
      BY <1>1 DEF WriteTo
    <2>4. QED
      BY <2>2, <2>3
  <1>2. CASE where = "pipe"
    <2>1. <<byte>> \in Seq(Within)
      BY <1>2
    <2>2. pipe \o <<byte>> \in Seq(Within)
      BY <2>1, ConcatProperties
    <2>3. terminal' = terminal /\ pipe' = pipe \o <<byte>>
      BY <1>2 DEF WriteTo
    <2>4. QED
      BY <2>2, <2>3
  <1>3. QED
    BY <1>1, <1>2, Written

LEMMA StreamTypeNext ==
  ASSUME TypeInv, PlaceInv, BufferInv, [Next]_vars
  PROVE  StreamType'
  <1>1. StreamType
    BY DEF TypeInv
  <1>2. CASE Printing \/ ChooseSink \/ Redirect \/ EndBody \/ Restore \/ Join \/ FlushFails
    BY <1>1, <1>2 DEF StreamType, Printing, Prints, ChooseSink, Redirect, EndBody, Restore, Join, FlushFails, pumpVars
  <1>3. CASE Flushing
    <2>1. buffer # <<>> /\ WriteTo(out, <<Head(buffer)>>) /\ UNCHANGED <<data, terminalOk>>
      BY <1>3 DEF Flushing, Flush, pumpVars
    <2>2. Head(buffer) \in Byte /\ (out = "pipe" => Head(buffer) \in Within)
      BY <2>1, FlushedByte DEF Byte
    <2>3. pipe' \in Seq(Within) /\ terminal' \in Seq(Byte)
      BY <1>1, <2>1, <2>2, WrittenType
    <2>4. QED
      BY <1>1, <2>1, <2>3 DEF StreamType
  <1>4. CASE ChildWrites
    <2>1. WriteTo(childOut, <<"child">>) /\ UNCHANGED <<data, terminalOk>>
      BY <1>4 DEF ChildWrites, pumpVars
    <2>2. "child" \in Byte /\ "child" \in Within
      BY DEF Byte, Within
    <2>3. pipe' \in Seq(Within) /\ terminal' \in Seq(Byte)
      BY <1>1, <2>1, <2>2, WrittenType
    <2>4. QED
      BY <1>1, <2>1, <2>3 DEF StreamType
  <1>5. CASE PumpRead
    <2>1. PICK n \in 1..Len(pipe) : data' = SubSeq(pipe, 1, n) /\ pipe' = SubSeq(pipe, n + 1, Len(pipe))
      BY <1>5 DEF PumpRead
    <2>2. n \in 0..Len(pipe) /\ pipe \in Seq(Within)
      BY <1>1 DEF StreamType
    <2>3. data' \in Seq(Within) /\ pipe' \in Seq(Within)
      BY <2>1, <2>2, Cut
    <2>4. UNCHANGED <<terminal, terminalOk>>
      BY <1>5 DEF PumpRead
    <2>5. QED
      BY <1>1, <2>3, <2>4 DEF StreamType
  <1>6. CASE PumpEnds
    BY <1>1, <1>6 DEF PumpEnds, StreamType
  <1>7. CASE PumpForward
    <2>1. data \in Seq(Byte) /\ terminal \in Seq(Byte)
      BY <1>1, SeqMonotonic DEF StreamType, Byte
    <2>2. terminal \o data \in Seq(Byte)
      BY <2>1, ConcatProperties
    <2>3. QED
      BY <1>1, <1>7, <2>2 DEF PumpForward, StreamType
  <1>8. CASE PumpSave
    BY <1>1, <1>8, EmptySeq DEF PumpSave, StreamType
  <1>9. CASE StartChild \/ ChildEnds \/ TerminalBreaks \/ UNCHANGED vars
    BY <1>1, <1>9 DEF StreamType, StartChild, ChildEnds, TerminalBreaks, vars, pumpVars
  <1>10. QED
    BY <1>2, <1>3, <1>4, <1>5, <1>6, <1>7, <1>8, <1>9, NextIs

LEMMA SinkTypeNext ==
  ASSUME TypeInv, [Next]_vars
  PROVE  SinkType'
  <1> DEFINE Entry == Byte \cup Shown(Byte)
  <1>1. SinkType /\ saved \in Seq(Entry) /\ tail \in Seq(Byte) /\ data \in Seq(Byte)
    <2>1. Within \subseteq Byte
      BY DEF Byte
    <2>2. QED
      BY <2>1, SeqMonotonic DEF TypeInv, StreamType, SinkType
  <1> HIDE DEF Entry
  <1>2. CASE Printing \/ Flushing \/ ChooseSink \/ EndBody \/ Restore
    BY <1>1, <1>2 DEF SinkType, Printing, Prints, Flushing, Flush, ChooseSink, EndBody, Restore, pumpVars
  <1>3. CASE Redirect \/ PumpRead \/ PumpEnds \/ PumpForward
    BY <1>1, <1>3 DEF SinkType, Redirect, PumpRead, PumpEnds, PumpForward
  <1>4. CASE StartChild \/ ChildWrites \/ ChildEnds \/ TerminalBreaks \/ UNCHANGED vars
    BY <1>1, <1>4 DEF SinkType, StartChild, ChildWrites, ChildEnds, TerminalBreaks, vars, pumpVars
  <1>5. CASE Join \/ FlushFails
    <2>1. /\ UNCHANGED <<pump, sinkOk>> /\ faults' \in {faults, faults + 1} /\ tail' = <<>>
          /\ saved' \in {saved, Append(saved, Rendered(tail))}
      BY <1>5 DEF Join, FlushFails, CloseSink
    <2>2. Rendered(tail) \in Entry
      BY <1>1 DEF Entry, Shown
    <2>3. saved' \in Seq(Entry) /\ tail' \in Seq(Byte)
      <3>1. Append(saved, Rendered(tail)) \in Seq(Entry)
        BY <1>1, <2>2, AppendProperties
      <3>2. <<>> \in Seq(Byte)
        BY EmptySeq
      <3>3. QED
        BY <1>1, <2>1, <3>1, <3>2
    <2>4. QED
      BY <1>1, <2>1, <2>3 DEF SinkType, Entry
  <1>6. CASE PumpSave /\ pc = "raised"
    BY <1>1, <1>6 DEF PumpSave, SinkType
  <1>7. CASE PumpSave /\ pc # "raised"
    <2>1. pump' = "reading" /\ (JournalWrite(data) \/ FileWrite(data))
      BY <1>7 DEF PumpSave
    <2>2. faults' \in Nat /\ sinkOk' \in BOOLEAN
      <3>1. (faults' = faults \/ faults' = faults + 1) /\ (sinkOk' = sinkOk \/ sinkOk' = FALSE)
        BY <2>1, Zenon DEF JournalWrite, FileWrite
      <3>2. faults' \in Nat
        <4>1. faults \in Nat
          BY <1>1 DEF SinkType
        <4>2. QED
          BY <3>1, <4>1
      <3>3. sinkOk' \in BOOLEAN
        BY <1>1, <3>1, Zenon DEF SinkType
      <3>4. QED
        BY <3>2, <3>3
    <2>3. CASE JournalWrite(data)
      <3> DEFINE bytes == tail \o data
      <3>1. bytes \in Seq(Byte)
        BY <1>1, ConcatProperties
      <3>2. tail' = Rest(bytes)
            /\ (saved' = saved \o Lines(bytes)
                 \/ \E k \in DOMAIN Lines(bytes) : saved' = saved \o RemoveAt(Lines(bytes), k))
        BY <2>3 DEF JournalWrite
      <3> HIDE DEF bytes
      <3>3. Lines(bytes) \in Seq(Shown(Byte)) /\ Rest(bytes) \in Seq(Byte \ {"nl"})
        BY <3>1, SplitType DEF Lines, Rest, Splits
      <3>4. Lines(bytes) \in Seq(Entry) /\ Rest(bytes) \in Seq(Byte)
        <4>1. Shown(Byte) \subseteq Entry
          BY DEF Entry
        <4>2. QED
          BY <3>3, <4>1, SeqMonotonic
      <3>5. \A k \in DOMAIN Lines(bytes) : RemoveAt(Lines(bytes), k) \in Seq(Entry)
        BY <3>4, RemovedType
      <3>6. saved' \in Seq(Entry)
        BY <1>1, <3>2, <3>4, <3>5, ConcatProperties
      <3>7. QED
        BY <2>1, <2>2, <3>2, <3>4, <3>6 DEF SinkType, Entry
    <2>4. CASE FileWrite(data)
      <3>1. tail' = tail /\ (saved' = saved \o data
                   \/ \E n \in 0..Len(data) - 1 : saved' = saved \o SubSeq(data, 1, n))
        BY <2>4 DEF FileWrite
      <3>2. data \in Seq(Entry)
        <4>1. Byte \subseteq Entry
          BY DEF Entry
        <4>2. QED
          BY <1>1, <4>1, SeqMonotonic
      <3>3. \A n \in 0..Len(data) - 1 : SubSeq(data, 1, n) \in Seq(Entry)
        <4>1. Len(data) \in Nat
          BY <1>1, LenProperties
        <4>2. \A n \in 0..Len(data) : SubSeq(data, 1, n) \in Seq(Entry)
          BY <3>2, Cut
        <4>3. QED
          BY <4>1, <4>2
      <3>4. saved' \in Seq(Entry)
        BY <1>1, <3>1, <3>2, <3>3, ConcatProperties
      <3>5. QED
        BY <1>1, <2>1, <2>2, <3>1, <3>4 DEF SinkType, Entry
    <2>5. QED
      BY <2>1, <2>3, <2>4
  <1>8. QED
    BY <1>2, <1>3, <1>4, <1>5, <1>6, <1>7, NextIs

LEMMA TypeNext ==
  ASSUME TypeInv, PlaceInv, BufferInv, [Next]_vars
  PROVE  TypeInv'
  BY CallerTypeNext, StreamTypeNext, ChildTypeNext, SinkTypeNext DEF TypeInv

-----------------------------------------------------------------------------
(* What is buffered                                                        *)

LEMMA BufferNext ==
  ASSUME TypeInv, PlaceInv, ChildInv, BufferInv, [Next]_vars
  PROVE  BufferInv'
  <1>1. CASE Printing
    <2>1. PICK byte \in Own :
            /\ Prints(byte)
            /\ \/ pc = "begin" /\ byte = "before"
               \/ pc = "body" /\ byte \in {"text", "cr", "nl"}
               \/ pc = "done" /\ byte = "after"
      BY <1>1 DEF Printing
    <2>2. buffer' = Append(buffer, byte) /\ UNCHANGED <<sink, pc, terminal>>
      BY <2>1 DEF Prints
    <2>3. CASE pc = "begin"
      <3>1. buffer \in Seq({"before"}) /\ byte \in {"before"}
        BY <2>1, <2>3 DEF BufferInv
      <3>2. Append(buffer, byte) \in Seq({"before"})
        BY <3>1, AppendProperties
      <3>3. QED
        BY <2>2, <2>3, <3>2 DEF BufferInv
    <2>4. CASE pc = "body"
      <3>1. CASE sink # "none"
        <4> DEFINE I == {"text", "cr", "nl"}
        <4>1. buffer \in Seq(I) /\ byte \in I
          BY <2>1, <2>4, <3>1 DEF BufferInv
        <4>2. Append(buffer, byte) \in Seq(I)
          BY <4>1, AppendProperties
        <4>3. QED
          BY <2>2, <2>4, <4>2 DEF BufferInv
      <3>2. QED
        BY <2>2, <2>4, <3>1 DEF BufferInv
    <2>5. CASE pc = "done"
      <3>1. CASE sink # "none"
        <4>1. buffer \in Seq({"after"}) /\ byte \in {"after"}
          BY <2>1, <2>5, <3>1 DEF BufferInv
        <4>2. Append(buffer, byte) \in Seq({"after"})
          BY <4>1, AppendProperties
        <4>3. QED
          BY <2>2, <2>5, <4>2 DEF BufferInv
      <3>2. QED
        BY <2>2, <2>5, <3>1 DEF BufferInv
    <2>6. QED
      BY <2>1, <2>3, <2>4, <2>5
  <1>2. CASE Flushing
    <2>1. /\ buffer # <<>> /\ WriteTo(out, <<Head(buffer)>>) /\ buffer' = Tail(buffer)
          /\ pc \in {"begin", "start", "body", "flushing"} \union Left /\ UNCHANGED <<sink, pc>>
      BY <1>2 DEF Flushing, Flush
    <2>2. ASSUME NEW S, buffer \in Seq(S)
          PROVE  buffer' \in Seq(S)
      BY <2>1, <2>2, FirstByte
    <2>3. CASE pc \in {"begin", "start", "refused"}
      <3> DEFINE B == {"before"}
      <3>1. buffer \in Seq(B) /\ terminal \in Seq(B)
        BY <2>3 DEF BufferInv
      <3>2. <<Head(buffer)>> \in Seq(B)
        BY <2>1, <3>1, FirstByte
      <3>3. out = "terminal"
        BY <2>3 DEF PlaceInv, TypeInv, CallerType
      <3>4. terminal' = terminal \/ terminal' = terminal \o <<Head(buffer)>>
        BY <2>1, <3>3 DEF WriteTo
      <3>5. terminal \o <<Head(buffer)>> \in Seq(B)
        BY <3>1, <3>2, ConcatProperties
      <3>6. terminal' \in Seq(B) /\ buffer' \in Seq(B)
        BY <2>2, <3>1, <3>4, <3>5
      <3>7. QED
        BY <2>1, <2>3, <3>6 DEF BufferInv
    <2>4. CASE pc \in {"body", "flushing", "done", "raised"}
      <3>1. sink # "none" /\ pc \in {"body", "flushing", "raised"} => buffer' \in Seq({"text", "cr", "nl"})
        BY <2>2 DEF BufferInv
      <3>2. sink # "none" /\ pc = "done" => buffer' \in Seq({"after"})
        BY <2>2 DEF BufferInv
      <3>3. QED
        BY <2>1, <2>4, <3>1, <3>2 DEF BufferInv
    <2>5. QED
      BY <2>1, <2>3, <2>4 DEF Left
  <1>3. CASE ChooseSink \/ EndBody
    BY <1>3 DEF ChooseSink, EndBody, Goto, BufferInv
  <1>4. CASE Redirect \/ Restore
    BY <1>4, EmptySeq DEF Redirect, Restore, Goto, BufferInv
  <1>5. CASE Join
    BY <1>5, EmptySeq DEF Join, Goto, BufferInv
  <1>6. CASE PumpRead \/ PumpEnds \/ PumpForward \/ PumpSave
    <2>1. UNCHANGED <<sink, pc, buffer>>
      BY <1>6 DEF PumpRead, PumpEnds, PumpForward, PumpSave, callerVars
    <2>2. pc \in {"begin", "start", "refused"} => FALSE
      BY <1>6 DEF PumpRead, PumpEnds, PumpForward, PumpSave, PlaceInv
    <2>3. QED
      BY <2>1, <2>2 DEF BufferInv
  <1>7. CASE ChildWrites
    <2>1. UNCHANGED <<sink, pc, buffer>> /\ pc \notin {"begin", "start", "refused"}
      BY <1>7 DEF ChildWrites, callerVars, ChildInv
    <2>2. QED
      BY <2>1 DEF BufferInv
  <1>8. CASE StartChild \/ ChildEnds \/ TerminalBreaks \/ UNCHANGED vars
    BY <1>8 DEF StartChild, ChildEnds, TerminalBreaks, vars, callerVars, BufferInv
  <1>9. CASE FlushFails
    BY <1>9 DEF FlushFails, Goto, BufferInv
  <1>10. QED
    BY <1>1, <1>2, <1>3, <1>4, <1>5, <1>6, <1>7, <1>8, <1>9, NextIs

-----------------------------------------------------------------------------
(* Nothing is lost                                                         *)

LEMMA StreamParts ==
  ASSUME TypeInv
  PROVE  /\ terminal \in Seq(Byte) /\ pipe \in Seq(Byte) /\ data \in Seq(Byte) /\ InHand \in Seq(Byte)
         /\ terminal \o InHand \in Seq(Byte) /\ Stream \in Seq(Byte)
         /\ buffer \in Seq(Own) /\ printed \in Seq(Own)
  <1>1. Within \subseteq Byte
    BY DEF Byte
  <1>2. terminal \in Seq(Byte) /\ pipe \in Seq(Byte) /\ data \in Seq(Byte)
    BY <1>1, SeqMonotonic DEF TypeInv, StreamType
  <1>3. InHand \in Seq(Byte)
    BY <1>2, EmptySeq DEF InHand
  <1>4. terminal \o InHand \in Seq(Byte)
    BY <1>2, <1>3, ConcatProperties
  <1>5. Stream \in Seq(Byte)
    BY <1>2, <1>4, ConcatProperties DEF Stream
  <1>6. QED
    BY <1>2, <1>3, <1>4, <1>5 DEF TypeInv, CallerType

\* What is written joins the end of the stream, wherever it enters.
LEMMA StreamGrows ==
  ASSUME TypeInv, NEW where, NEW byte \in Byte, WriteTo(where, <<byte>>), terminalOk,
         UNCHANGED <<pump, data>>, where = "terminal" => InHand = <<>> /\ pipe = <<>>
  PROVE  Stream' = Append(Stream, byte)
  <1> DEFINE w == <<byte>>
  <1>1. InHand' = InHand
    BY DEF InHand
  <1>2. w \in Seq(Byte)
    OBVIOUS
  <1>3. CASE where = "terminal"
    <2>1. terminal' = terminal \o w /\ pipe' = pipe
      BY <1>3 DEF WriteTo
    <2> HIDE DEF w
    <2>2. terminal \o w \in Seq(Byte)
      BY <1>2, StreamParts, ConcatProperties
    <2>3. ((terminal \o w) \o <<>>) \o <<>> = terminal \o w /\ (terminal \o <<>>) \o <<>> = terminal
      BY <2>2, StreamParts, ConcatEmptySeq
    <2>4. Stream' = Stream \o w
      BY <1>1, <1>3, <2>1, <2>3 DEF Stream
    <2>5. QED
      BY <2>4, StreamParts, AppendIsConcat DEF w
  <1>4. CASE where = "pipe"
    <2>1. terminal' = terminal /\ pipe' = pipe \o w
      BY <1>4 DEF WriteTo
    <2> HIDE DEF w
    <2> DEFINE front == terminal \o InHand
    <2>2. front \in Seq(Byte) /\ pipe \in Seq(Byte)
      BY StreamParts
    <2>3. Stream' = front \o (pipe \o w) /\ Stream = front \o pipe
      BY <1>1, <2>1 DEF Stream
    <2> HIDE DEF front
    <2>4. Stream' = Stream \o w
      BY <1>2, <2>2, <2>3, ConcatAssociative
    <2>5. QED
      BY <2>4, StreamParts, AppendIsConcat DEF w
  <1>5. QED
    BY <1>3, <1>4 DEF WriteTo

\* Nothing is on its way where something is written to the terminal directly.
LEMMA NothingUnderWay ==
  ASSUME PlaceInv, PumpInv, terminalOk,
         sink = "none" \/ pc \in {"begin", "start", "refused", "done"}
  PROVE  InHand = <<>> /\ pipe = <<>>
  <1>1. pump = "off" \/ pump = "ended"
    BY DEF PlaceInv, PumpInv
  <1>2. QED
    BY <1>1 DEF PumpInv, InHand

LEMMA LossNext ==
  ASSUME TypeInv, PlaceInv, ChildInv, PumpInv, BufferInv, LossInv, [Next]_vars
  PROVE  LossInv'
  <1> SUFFICES ASSUME terminalOk'
               PROVE  (Kept(Stream, Own) \o buffer = printed
                       /\ Len(Stream) + Len(buffer) = Len(printed) + childWrote)'
    BY DEF LossInv
  <1>1. terminalOk
    <2>1. terminalOk' = terminalOk \/ terminalOk' = FALSE
      BY NextIs, Zenon DEF Printing, Prints, Flushing, Flush, ChooseSink, Redirect, EndBody, Restore, Join,
         FlushFails, PumpRead, PumpEnds, PumpForward, PumpSave, StartChild, ChildWrites, ChildEnds, TerminalBreaks, vars
    <2>2. QED
      BY <2>1
  <1>2. /\ Kept(Stream, Own) \o buffer = printed
        /\ Len(Stream) + Len(buffer) = Len(printed) + childWrote
    BY <1>1 DEF LossInv
  <1>3. Stream \in Seq(Byte) /\ buffer \in Seq(Own) /\ printed \in Seq(Own)
        /\ Len(Stream) \in Nat /\ Len(buffer) \in Nat /\ Len(printed) \in Nat /\ childWrote \in Nat
    BY StreamParts, LenProperties DEF TypeInv, ChildType
  <1>4. ASSUME UNCHANGED <<buffer, printed, childWrote>>, Stream' = Stream
        PROVE  (Kept(Stream, Own) \o buffer = printed
                /\ Len(Stream) + Len(buffer) = Len(printed) + childWrote)'
    <2>1. Kept(Stream, Own)' = Kept(Stream, Own)
      BY <1>4
    <2>2. QED
      BY <1>2, <1>4, <2>1
  <1>5. CASE Printing
    <2>1. PICK byte \in Own : Prints(byte)
      BY <1>5 DEF Printing
    <2>2. /\ printed' = Append(printed, byte) /\ buffer' = Append(buffer, byte)
          /\ UNCHANGED <<pipe, terminal, pump, data, childWrote>>
      BY <2>1 DEF Prints, childVars, pumpVars
    <2>3. Stream' = Stream
      BY <2>2 DEF Stream, InHand
    <2> DEFINE k == Kept(Stream, Own)
    <2>4. k' = k
      BY <2>3
    <2>5. k \in Seq(Own)
      <3>1. k \in Seq(Byte)
        BY <1>3, KeptType
      <3>2. QED
        BY <1>3, KeptOf
    <2> HIDE DEF k
    <2>6. k \o Append(buffer, byte) = Append(k \o buffer, byte)
      BY <1>3, <2>5, AppendOfConcat
    <2>7. k' \o buffer' = printed'
      BY <1>2, <2>2, <2>4, <2>6 DEF k
    <2>8. Len(buffer') = Len(buffer) + 1 /\ Len(printed') = Len(printed) + 1
      BY <1>3, <2>2, AppendProperties
    <2>9. Len(Stream') + Len(buffer') = Len(printed') + childWrote'
      BY <1>2, <1>3, <2>2, <2>3, <2>8
    <2>10. QED
      BY <2>7, <2>9 DEF k
  <1>6. CASE Flushing
    <2> DEFINE h == Head(buffer)
    <2>1. /\ buffer # <<>> /\ WriteTo(out, <<h>>) /\ buffer' = Tail(buffer)
          /\ UNCHANGED <<pump, data, printed, childWrote>>
          /\ pc \in {"begin", "start", "body", "flushing"} \union Left
      BY <1>6 DEF Flushing, Flush, childVars, pumpVars
    <2>2. /\ h \in Own /\ Tail(buffer) \in Seq(Own) /\ <<h>> \in Seq(Own)
          /\ buffer = <<h>> \o Tail(buffer) /\ Len(buffer) = Len(Tail(buffer)) + 1
      BY <1>3, <2>1, FirstByte
    <2>3. out = "terminal" => InHand = <<>> /\ pipe = <<>>
      <3>1. out = "terminal" => sink = "none" \/ pc \in {"begin", "start", "refused", "done"}
        BY <2>1 DEF PlaceInv, Left
      <3>2. QED
        BY <1>1, <3>1, NothingUnderWay
    <2> HIDE DEF h
    <2>4. Stream' = Append(Stream, h)
      <3>1. h \in Byte
        BY <2>2 DEF Byte
      <3>2. QED
        BY <1>1, <2>1, <2>3, <3>1, StreamGrows
    <2> DEFINE k == Kept(Stream, Own)
               s == Stream
    <2>5. k \in Seq(Own)
      BY <1>3, KeptOf
    <2>6. Kept(Append(s, h), Own) = Append(k, h) /\ Len(Append(s, h)) = Len(s) + 1
      <3>1. s \in Seq(Byte) /\ h \in Byte
        BY <1>3, <2>2 DEF Byte
      <3> HIDE DEF s
      <3>2. Kept(Append(s, h), Own) = Append(Kept(s, Own), h)
        BY <2>2, <3>1, KeptAppend
      <3>3. Len(Append(s, h)) = Len(s) + 1
        BY <3>1, AppendProperties
      <3>4. QED
        BY <3>2, <3>3 DEF s
    <2> HIDE DEF k
    <2>7. Append(k, h) \o Tail(buffer) = k \o buffer
      <3> DEFINE rest == Tail(buffer)
                 w == <<h>>
      <3>1. rest \in Seq(Own) /\ w \in Seq(Own) /\ buffer = w \o rest
        BY <2>2
      <3>2. Append(k, h) = k \o w
        BY <2>2, <2>5, AppendIsConcat
      <3> HIDE DEF rest, w
      <3>3. (k \o w) \o rest = k \o (w \o rest)
        BY <2>5, <3>1, ConcatAssociative
      <3>4. QED
        BY <3>1, <3>2, <3>3 DEF rest
    <2>8. Kept(Stream', Own) \o buffer' = printed'
      BY <1>2, <2>1, <2>4, <2>6, <2>7 DEF k
    <2>9. Len(Stream') + Len(buffer') = Len(printed') + childWrote'
      <3>1. Len(Stream') = Len(Stream) + 1 /\ Len(buffer) = Len(buffer') + 1 /\ Len(buffer') \in Nat
        BY <2>1, <2>2, <2>4, <2>6, LenProperties
      <3>2. Len(printed') = Len(printed) /\ childWrote' = childWrote
        BY <2>1
      <3>3. QED
        BY <1>2, <1>3, <3>1, <3>2
    <2>10. QED
      BY <2>8, <2>9
  <1>7. CASE ChildWrites
    <2>1. /\ child = "running" /\ WriteTo(childOut, <<"child">>) /\ childWrote' = childWrote + 1
          /\ UNCHANGED <<pump, data, printed, buffer>>
      BY <1>7 DEF ChildWrites, callerVars, pumpVars
    <2>2. childOut = "terminal" => InHand = <<>> /\ pipe = <<>>
      <3>1. childOut = "terminal" => sink = "none"
        BY <2>1 DEF ChildInv
      <3>2. QED
        BY <1>1, <3>1, NothingUnderWay
    <2> DEFINE b == "child"
               s == Stream
    <2>3. b \in Byte /\ b \notin Own
      BY DEF Byte, Own, Within
    <2>4. WriteTo(childOut, <<b>>)
      BY <2>1
    <2> HIDE DEF b
    <2>5. s' = Append(s, b)
      BY <1>1, <2>1, <2>2, <2>3, <2>4, StreamGrows
    <2>6. Kept(Append(s, b), Own) = Kept(s, Own) /\ Len(Append(s, b)) = Len(s) + 1
      <3>1. s \in Seq(Byte)
        BY <1>3
      <3> HIDE DEF s
      <3>2. QED
        BY <2>3, <3>1, KeptAppend, AppendProperties
    <2>7. Kept(Stream', Own) \o buffer' = printed'
      BY <1>2, <2>1, <2>5, <2>6
    <2>8. Len(Stream') + Len(buffer') = Len(printed') + childWrote'
      <3>1. Len(Stream') = Len(Stream) + 1
        BY <2>5, <2>6
      <3>2. Len(buffer') = Len(buffer) /\ Len(printed') = Len(printed) /\ childWrote' = childWrote + 1
        BY <2>1
      <3>3. QED
        BY <1>2, <1>3, <3>1, <3>2
    <2>9. QED
      BY <2>7, <2>8
  <1>8. CASE PumpRead
    <2>1. PICK n \in 1..Len(pipe) : data' = SubSeq(pipe, 1, n) /\ pipe' = SubSeq(pipe, n + 1, Len(pipe))
      BY <1>8 DEF PumpRead
    <2>2. pump = "reading" /\ pump' = "forwarding" /\ UNCHANGED <<terminal, buffer, printed, childWrote>>
      BY <1>8 DEF PumpRead, callerVars, childVars
    <2>3. data' \in Seq(Byte) /\ pipe' \in Seq(Byte) /\ data' \o pipe' = pipe
      <3>1. n \in 0..Len(pipe) /\ pipe \in Seq(Byte)
        BY StreamParts
      <3>2. QED
        BY <2>1, <3>1, Cut
    <2>4. Stream' = (terminal \o data') \o pipe' /\ Stream = (terminal \o <<>>) \o pipe
      BY <2>2 DEF Stream, InHand
    <2>5. terminal \o <<>> = terminal /\ (terminal \o data') \o pipe' = terminal \o (data' \o pipe')
      <3> DEFINE d == data'
                 p == pipe'
                 t == terminal
      <3>1. d \in Seq(Byte) /\ p \in Seq(Byte) /\ t \in Seq(Byte)
        BY <2>3, StreamParts
      <3> HIDE DEF d, p, t
      <3>2. t \o <<>> = t /\ (t \o d) \o p = t \o (d \o p)
        BY <3>1, ConcatEmptySeq, ConcatAssociative
      <3>3. QED
        BY <3>2 DEF d, p, t
    <2>6. Stream' = Stream
      BY <2>3, <2>4, <2>5
    <2>7. QED
      BY <1>4, <2>2, <2>6
  <1>9. CASE PumpForward
    <2>1. /\ pump = "forwarding" /\ pump' = "saving" /\ terminal' = terminal \o data
          /\ UNCHANGED <<pipe, data, buffer, printed, childWrote>>
      BY <1>1, <1>9 DEF PumpForward, callerVars, childVars
    <2>2. Stream' = ((terminal \o data) \o <<>>) \o pipe /\ Stream = (terminal \o data) \o pipe
      BY <2>1 DEF Stream, InHand
    <2>3. (terminal \o data) \o <<>> = terminal \o data
      <3> DEFINE t == terminal \o data
      <3>1. t \in Seq(Byte)
        BY StreamParts, ConcatProperties
      <3> HIDE DEF t
      <3>2. t \o <<>> = t
        BY <3>1, ConcatEmptySeq
      <3>3. QED
        BY <3>2 DEF t
    <2>4. Stream' = Stream
      BY <2>2, <2>3
    <2>5. QED
      BY <1>4, <2>1, <2>4
  <1>10. CASE PumpSave \/ PumpEnds \/ Redirect
    <2>1. /\ pump # "forwarding" /\ pump' # "forwarding"
          /\ UNCHANGED <<terminal, pipe, buffer, printed, childWrote>>
      BY <1>10 DEF PumpSave, PumpEnds, Redirect, PlaceInv, Goto, callerVars, childVars
    <2>2. Stream' = Stream
      BY <2>1 DEF Stream, InHand
    <2>3. QED
      BY <1>4, <2>1, <2>2
  <1>11. CASE ChooseSink \/ EndBody \/ Restore \/ Join \/ FlushFails \/ StartChild \/ ChildEnds
              \/ TerminalBreaks \/ UNCHANGED vars
    <2>1. UNCHANGED <<terminal, pipe, pump, data, buffer, printed, childWrote>>
      BY <1>11 DEF ChooseSink, EndBody, Restore, Join, FlushFails, StartChild, ChildEnds, TerminalBreaks,
                   vars, callerVars, childVars, pumpVars
    <2>2. Stream' = Stream
      BY <2>1 DEF Stream, InHand
    <2>3. QED
      BY <1>4, <2>1, <2>2
  <1>12. QED
    BY <1>5, <1>6, <1>7, <1>8, <1>9, <1>10, <1>11, NextIs

-----------------------------------------------------------------------------
(* The sink is faithful                                                    *)

LEMMA SinkOkNext ==
  ASSUME [Next]_vars, sinkOk'
  PROVE  sinkOk
  <1>1. sinkOk' = sinkOk \/ sinkOk' = FALSE
    BY NextIs, Zenon DEF Printing, Prints, Flushing, Flush, ChooseSink, Redirect, EndBody, Restore, Join,
       FlushFails, PumpRead, PumpEnds, PumpForward, PumpSave, JournalWrite, FileWrite,
       StartChild, ChildWrites, ChildEnds, TerminalBreaks, vars, pumpVars
  <1>2. QED
    BY <1>1

LEMMA InsideType == TypeInv => Inside(terminal) \in Seq(Within)
  BY StreamParts, KeptOf DEF Inside, Within

LEMMA LinesType ==
  ASSUME NEW got \in Seq(Within)
  PROVE  Lines(got) \in Seq(Shown(Within)) /\ Rest(got) \in Seq(Within)
  <1>1. Split(got) \in Splits(Within)
    BY SplitType
  <1>2. Rest(got) \in Seq(Within \ {"nl"}) /\ Lines(got) \in Seq(Shown(Within))
    BY <1>1 DEF Splits, Lines, Rest
  <1>3. QED
    BY <1>2, SeqMonotonic

\* A journal that writes what it completes, and keeps the rest, cuts no line.
LEMMA LinesOfTwo ==
  ASSUME NEW got \in Seq(Within), NEW more \in Seq(Within)
  PROVE  /\ Lines(got \o more) = Lines(got) \o Lines(Rest(got) \o more)
         /\ Rest(got \o more) = Rest(Rest(got) \o more)
  <1> DEFINE p == Split(got)
             q == Split(p.rest \o more)
  <1>1. Split(got \o more) = Joined(p, q)
    BY SplitConcat
  <1>2. Split(got \o more).lines = p.lines \o q.lines /\ Split(got \o more).rest = q.rest
    <2> DEFINE w == Split(got \o more)
    <2>1. w = Joined(p, q)
      BY <1>1
    <2> HIDE DEF p, q, w
    <2>2. w.lines = p.lines \o q.lines /\ w.rest = q.rest
      BY <2>1 DEF Joined
    <2>3. QED
      BY <2>2 DEF w
  <1>3. QED
    BY <1>2 DEF Lines, Rest

\* The inductive step of what stays the same.
LEMMA StoredStill ==
  ASSUME NEW got, Stored(got), UNCHANGED <<sink, saved, tail>>, pc' \in Left <=> pc \in Left
  PROVE  Stored(got)'
  BY DEF Stored

\* What the caller writes to the terminal beside the pump is written after the block.
LEMMA InsideFlushed ==
  ASSUME TypeInv, PlaceInv, BufferInv, pump # "off", Flushing
  PROVE  Inside(terminal') = Inside(terminal)
  <1> DEFINE h == Head(buffer)
             t == terminal
  <1>1. /\ buffer # <<>> /\ WriteTo(out, <<h>>)
        /\ pc \in {"begin", "start", "body", "flushing"} \union Left
    BY DEF Flushing, Flush
  <1>2. CASE out = "pipe"
    BY <1>1, <1>2 DEF WriteTo
  <1>3. CASE out = "terminal"
    <2>1. sink # "none" /\ pc = "done"
      BY <1>1, <1>3 DEF PlaceInv, Left
    <2>2. h = "after"
      BY <1>1, <2>1, FlushedByte
    <2>3. h \in Byte /\ h \notin Within /\ t \in Seq(Byte)
      BY <2>2, StreamParts DEF Byte, Own, Within
    <2>4. terminal' = t \/ terminal' = t \o <<h>>
      BY <1>1, <1>3 DEF WriteTo
    <2> HIDE DEF h, t
    <2>5. Kept(Append(t, h), Within) = Kept(t, Within) /\ Append(t, h) = t \o <<h>>
      BY <2>3, KeptAppend, AppendIsConcat
    <2>6. terminal' = t \/ terminal' = Append(t, h)
      BY <2>4, <2>5
    <2>7. QED
      BY <2>5, <2>6 DEF Inside, Within, t
  <1>4. QED
    BY <1>2, <1>3 DEF TypeInv, CallerType

LEMMA SinkNext ==
  ASSUME TypeInv, PlaceInv, ChildInv, PumpInv, BufferInv, SinkInv, [Next]_vars
  PROVE  SinkInv'
  <1> DEFINE Faithful(got) == Inside(terminal) = got \o Unsaved /\ Stored(got)
  <1> SUFFICES ASSUME sinkOk', pump' # "off"
               PROVE  \E got \in Seq(Within) : Faithful(got)'
    BY DEF SinkInv
  <1>1. sinkOk
    BY SinkOkNext
  <1>2. CASE Redirect
    <2>1. /\ pc = "start" /\ pc' = "body" /\ pump' = "reading"
          /\ UNCHANGED <<sink, terminal, saved, tail>>
      BY <1>2 DEF Redirect, Goto
    <2>2. pump = "off" /\ terminal \in Seq({"before"})
      BY <2>1 DEF PlaceInv, BufferInv
    <2>3. saved = <<>> /\ tail = <<>>
      BY <2>2 DEF PumpInv
    <2>4. Inside(terminal) = <<>>
      <3>1. {"before"} \cap {"text", "cr", "nl", "child"} = {}
        OBVIOUS
      <3>2. QED
        BY <2>2, <3>1, KeptNone DEF Inside
    <2>5. Lines(<<>>) = <<>> /\ Rest(<<>>) = <<>>
      BY SplitEmpty DEF Blank, Lines, Rest
    <2>6. Inside(terminal') = <<>> \o Unsaved'
      BY <2>1, <2>4 DEF Unsaved
    <2>7. Stored(<<>>)'
      BY <2>1, <2>3, <2>5 DEF Stored, Left
    <2>8. QED
      BY <2>6, <2>7, EmptySeq
  <1>3. CASE ~Redirect
    <2>1. pump # "off"
      BY <1>3, NextIs DEF Printing, Prints, Flushing, Flush, ChooseSink, EndBody, Restore, Join,
         FlushFails, PlaceInv, Goto, PumpRead, PumpEnds, PumpForward, PumpSave,
         StartChild, ChildWrites, ChildEnds, TerminalBreaks, vars, pumpVars
    <2>2. sink \in {"journal", "file"} /\ pc \in {"body", "flushing", "joining", "done", "raised"}
      BY <2>1 DEF PlaceInv, TypeInv, CallerType, Left
    <2>3. PICK got \in Seq(Within) : Inside(terminal) = got \o Unsaved /\ Stored(got)
      BY <1>1, <2>1 DEF SinkInv
    <2> HIDE DEF Faithful
    <2>4. ASSUME UNCHANGED <<sink, saved, tail, Unsaved>>, Inside(terminal') = Inside(terminal),
                 pc' \in Left <=> pc \in Left
          PROVE  \E g \in Seq(Within) : Faithful(g)'
      <3>1. Stored(got)'
        BY <2>3, <2>4, StoredStill
      <3>2. Faithful(got)'
        BY <2>3, <2>4, <3>1 DEF Faithful
      <3>3. QED
        BY <3>2
    <2>5. CASE Printing
      BY <2>4, <2>5 DEF Printing, Prints, pumpVars, Unsaved
    <2>6. CASE Flushing
      <3>1. UNCHANGED <<sink, pc, saved, tail, pump, data>>
        BY <2>6 DEF Flushing, Flush, pumpVars
      <3>2. QED
        BY <2>1, <2>4, <2>6, <3>1, InsideFlushed DEF Unsaved
    <2>7. CASE ChooseSink
      BY <2>2, <2>7 DEF ChooseSink, Goto
    <2>8. CASE EndBody \/ Restore
      BY <2>2, <2>4, <2>8 DEF EndBody, Restore, Goto, pumpVars, Unsaved, Left
    <2>9. CASE Join \/ FlushFails
      <3>1. /\ pc \notin Left /\ pc' \in Left /\ CloseSink
            /\ UNCHANGED <<sink, terminal, pump, data>>
        BY <2>9 DEF Join, FlushFails, Goto, Left
      <3>2. Inside(terminal') = got \o Unsaved'
        BY <2>3, <3>1 DEF Unsaved
      <3>3. CASE sink = "file"
        <4>1. Stored(got)'
          BY <2>3, <3>1, <3>3 DEF Stored, CloseSink
        <4>2. QED
          BY <3>2, <4>1 DEF Faithful
      <3>4. CASE sink = "journal"
        <4> DEFINE lines == Lines(got)
                   line == Rendered(Rest(got))
                   Line == Shown(Within)
        <4>1. saved = lines /\ tail = Rest(got)
          BY <2>3, <3>1, <3>4 DEF Stored
        <4>2. lines \in Seq(Line) /\ line \in Line
          BY LinesType DEF Shown
        <4>3. saved' = IF Rest(got) # <<>> THEN Append(lines, line) ELSE lines
          BY <3>1, <3>4, <4>1 DEF CloseSink
        <4>4. saved' = lines \o Unfinished(got)
          <5> HIDE DEF lines, Line
          <5>1. Append(lines, line) = lines \o <<line>>
            BY <4>2, AppendIsConcat
          <5>2. lines \o <<>> = lines
            BY <4>2, ConcatEmptySeq
          <5>3. QED
            BY <4>3, <5>1, <5>2 DEF Unfinished
        <4>5. Stored(got)'
          BY <3>1, <3>4, <4>4 DEF Stored
        <4>6. QED
          BY <3>2, <4>5 DEF Faithful
      <3>5. QED
        BY <2>2, <3>3, <3>4
    <2>10. CASE PumpRead \/ PumpEnds
      BY <2>4, <2>10 DEF PumpRead, PumpEnds, callerVars, Unsaved
    <2>11. CASE PumpForward
      <3>1. pump = "forwarding" /\ UNCHANGED <<sink, pc, saved, tail, data>>
        BY <2>11 DEF PumpForward, callerVars
      <3>2. CASE ~terminalOk
        <4>1. pump' = "dead" /\ terminal' = terminal
          BY <2>11, <3>2 DEF PumpForward
        <4>2. QED
          BY <2>4, <3>1, <4>1 DEF Unsaved
      <3>3. CASE terminalOk
        <4>1. pump' = "saving" /\ terminal' = terminal \o data
          BY <2>11, <3>3 DEF PumpForward
        <4> DEFINE t == terminal
                   d == data
        <4>2. t \in Seq(Byte) /\ d \in Seq(Byte) /\ d \in Seq(Within)
          BY StreamParts DEF TypeInv, StreamType
        <4>3. Inside(t) = got
          <5>1. got \o <<>> = got
            BY ConcatEmptySeq
          <5>2. QED
            BY <2>3, <3>1, <5>1 DEF Unsaved
        <4> HIDE DEF t, d
        <4>4. Kept(t \o d, Within) = Kept(t, Within) \o Kept(d, Within)
          BY <4>2, KeptConcat
        <4>5. Kept(d, Within) = d
          BY <4>2, KeptAll
        <4>6. Inside(terminal') = got \o Unsaved'
          <5>1. Unsaved' = d
            BY <3>1, <4>1 DEF Unsaved, d
          <5>2. Inside(t \o d) = got \o d
            BY <4>3, <4>4, <4>5 DEF Inside, Within
          <5>3. QED
            BY <4>1, <5>1, <5>2 DEF t, d
        <4>7. Stored(got)'
          BY <2>3, <3>1, StoredStill
        <4>8. QED
          BY <4>6, <4>7 DEF Faithful
      <3>4. QED
        BY <3>2, <3>3
    <2>12. CASE PumpSave
      <3> DEFINE d == data
      <3>1. /\ pump = "saving" /\ pump' = "reading" /\ (JournalWrite(d) \/ FileWrite(d))
            /\ UNCHANGED <<sink, pc, terminal>>
        BY <2>12 DEF PumpSave, callerVars
      <3>2. pc \notin Left
        BY <2>2, <2>12, <3>1 DEF PumpSave, PumpInv, Left
      <3>3. d \in Seq(Within) /\ got \o d \in Seq(Within)
        BY ConcatProperties DEF TypeInv, StreamType
      <3>4. PICK g \in Seq(Within) : g = got \o d
        BY <3>3
      <3>5. Inside(terminal') = g \o Unsaved'
        <4>1. Inside(terminal') = g /\ Unsaved' = <<>>
          BY <2>3, <3>1, <3>4 DEF Unsaved
        <4>2. g \o <<>> = g
          BY ConcatEmptySeq
        <4>3. QED
          BY <4>1, <4>2
      <3>6. CASE JournalWrite(d)
        <4>1. /\ sink = "journal" /\ tail' = Rest(tail \o d)
              /\ saved' = saved \o Lines(tail \o d)
          <5>1. sinkOk' # FALSE
            OBVIOUS
          <5>2. QED
            BY <3>6, <5>1, Zenon DEF JournalWrite
        <4>2. saved = Lines(got) /\ tail = Rest(got)
          BY <2>3, <3>2, <4>1 DEF Stored
        <4> HIDE DEF d
        <4>3. Lines(got \o d) = Lines(got) \o Lines(Rest(got) \o d)
              /\ Rest(got \o d) = Rest(Rest(got) \o d)
          BY <3>3, LinesOfTwo
        <4>4. saved' = Lines(g) /\ tail' = Rest(g)
          BY <3>4, <4>1, <4>2, <4>3
        <4>5. Stored(g)'
          BY <3>1, <3>2, <4>1, <4>4 DEF Stored
        <4>6. QED
          BY <3>5, <4>5 DEF Faithful
      <3>7. CASE FileWrite(d)
        <4>1. sink = "file" /\ saved' = saved \o d
          <5>1. sinkOk' # FALSE
            OBVIOUS
          <5>2. QED
            BY <3>7, <5>1, Zenon DEF FileWrite
        <4>2. saved = got
          BY <2>3, <4>1 DEF Stored
        <4>3. saved' = g
          BY <3>4, <4>1, <4>2
        <4>4. Stored(g)'
          BY <3>1, <4>1, <4>3 DEF Stored
        <4>5. QED
          BY <3>5, <4>4 DEF Faithful
      <3>8. QED
        BY <3>1, <3>6, <3>7
    <2>13. CASE ChildWrites
      <3>1. child = "running" /\ WriteTo(childOut, <<"child">>) /\ UNCHANGED <<sink, pc, saved, tail, pump, data>>
        BY <2>13 DEF ChildWrites, callerVars, pumpVars
      <3>2. terminal' = terminal
        BY <2>2, <3>1 DEF ChildInv, WriteTo
      <3>3. QED
        BY <2>4, <3>1, <3>2 DEF Unsaved
    <2>14. CASE StartChild \/ ChildEnds \/ TerminalBreaks \/ UNCHANGED vars
      <3>1. UNCHANGED <<sink, pc, saved, tail, pump, data, terminal>>
        BY <2>14 DEF StartChild, ChildEnds, TerminalBreaks, vars, callerVars, pumpVars
      <3>2. QED
        BY <2>4, <3>1 DEF Unsaved
    <2>15. QED
      BY <1>3, <2>5, <2>6, <2>7, <2>8, <2>9, <2>10, <2>11, <2>12, <2>13, <2>14, NextIs
  <1>4. QED
    BY <1>2, <1>3

-----------------------------------------------------------------------------
(* The theorems                                                            *)

LEMMA IInvNext == IInv /\ [Next]_vars => IInv'
  BY TypeNext, PlaceNext, ChildNext, PumpNext, BufferNext, LossNext, SinkNext DEF IInv

LEMMA Invariance == Spec => []IInv
  BY InitHolds, IInvNext, PTL DEF Spec

\* Every variable of the capture has its type; what is in the pipe was written
\* within the block, whatever was buffered before it.
THEOREM TypeCorrect == Spec => []TypeInv
  <1>1. IInv => TypeInv
    BY DEF IInv
  <1>2. QED
    BY Invariance, <1>1, PTL

\* tee_output(): when the block is left and the terminal works, all that the caller
\* and its child wrote is on the terminal, the caller's in order, and nothing is in
\* the pipe, for every size of the pipe and every failure of the sink.
THEOREM BlockLosesNothing == Spec => []NothingIsLost
  <1>1. IInv => NothingIsLost
    <2> SUFFICES ASSUME IInv, pc = "done", terminalOk PROVE NothingIsLost
      BY DEF NothingIsLost
    <2>1. TypeInv /\ PlaceInv /\ PumpInv /\ LossInv
      BY DEF IInv
    <2>2. out = "terminal"
      BY <2>1 DEF TypeInv, CallerType, PlaceInv
    <2>3. InHand = <<>> /\ pipe = <<>>
      BY <2>1, NothingUnderWay
    <2>4. Stream = terminal
      <3>1. terminal \o <<>> = terminal
        BY <2>1, StreamParts, ConcatEmptySeq
      <3>2. QED
        BY <2>3, <3>1 DEF Stream
    <2>5. Kept(terminal, Own) \o buffer = printed /\ Len(terminal) + Len(buffer) = Len(printed) + childWrote
      BY <2>1, <2>4 DEF LossInv
    <2>6. QED
      BY <2>2, <2>3, <2>5 DEF NothingIsLost, Own
  <1>2. QED
    BY Invariance, <1>1, PTL

\* _pump() and the sinks: however the stream is cut into reads, the log file has the
\* bytes of the block in the terminal's order, and the journal its lines as the
\* terminal shows them, until a write of the sink fails.
THEOREM SinksAreFaithful == Spec => []SinkIsFaithful
  <1>1. IInv => SinkIsFaithful
    <2> DEFINE shown == Inside(terminal)
               unfinished == IF pc \in Left /\ Rest(shown) # <<>> THEN <<Rendered(Rest(shown))>> ELSE <<>>
    <2> SUFFICES ASSUME IInv, sinkOk, pump \notin {"off", "saving"}
                 PROVE  saved = IF sink = "file" THEN shown ELSE Lines(shown) \o unfinished
      BY DEF SinkIsFaithful
    <2>1. TypeInv /\ PlaceInv /\ SinkInv
      BY DEF IInv
    <2>2. PICK got \in Seq(Within) : shown = got \o Unsaved /\ Stored(got)
      BY <2>1 DEF SinkInv
    <2>3. shown = got
      <3>1. got \o <<>> = got
        BY ConcatEmptySeq
      <3>2. QED
        BY <2>2, <3>1 DEF Unsaved
    <2> HIDE DEF shown
    <2>4. sink \in {"journal", "file"}
      BY <2>1 DEF PlaceInv, TypeInv, CallerType
    <2>5. CASE sink = "file"
      BY <2>2, <2>3, <2>5 DEF Stored
    <2>6. CASE sink = "journal" /\ pc \notin Left
      <3>1. Lines(got) \o <<>> = Lines(got)
        BY LinesType, ConcatEmptySeq
      <3>2. QED
        BY <2>2, <2>3, <2>6, <3>1 DEF Stored
    <2>7. CASE sink = "journal" /\ pc \in Left
      BY <2>2, <2>3, <2>7 DEF Stored, Unfinished
    <2>8. QED
      BY <2>4, <2>5, <2>6, <2>7
  <1>2. QED
    BY Invariance, <1>1, PTL

=============================================================================
