------------------------------ MODULE LogProofs ------------------------------
(***************************************************************************)
(* Proofs about LogTailer, for any number of launches, lines, rewrites,    *)
(* starts and faults and any buffer sizes: what was delivered live is      *)
(* exactly what was read, and no line comes twice.  At the end, about      *)
(* Radar, for any number of players, pages and lines: once the log is      *)
(* quiet, the radar shows the room as the log has it.                      *)
(***************************************************************************)
EXTENDS LogTailer, Radar, SequenceTheorems, WellFoundedInduction, TLAPS

(***************************************************************************)
(* Induction.  Cut and FlattenSeq are folds, so what they return is shown  *)
(* by induction on the length of a sequence.  The library states induction *)
(* for a predicate; here it is stated for a set, whose members are the     *)
(* numbers or sequences that have the property, and follows from the fact  *)
(* that < is well-founded on Nat.                                          *)
(***************************************************************************)
LEMMA LessIsWellFounded == IsWellFoundedOn({ss \in Nat \X Nat : ss[1] < ss[2]}, Nat)
  BY NatLessThanWellFounded DEF OpToRel

LEMMA LeastElement ==
  ASSUME NEW T \in SUBSET Nat, T # {}
  PROVE  \E x \in T : \A y \in T : x <= y
<1> DEFINE R == {ss \in Nat \X Nat : ss[1] < ss[2]}
<1>1. IsWellFoundedOn(R, Nat)
  BY LessIsWellFounded
<1> HIDE DEF R
<1>2. PICK x \in T : \A y \in T : ~(<<y, x>> \in R)
  BY <1>1, WFMin
<1>3. \A y \in T : <<y, x>> \in R <=> y < x
  BY DEF R
<1>4. \A y \in T : x <= y
  <2> TAKE y \in T
  <2>1. ~(y < x) /\ x \in Nat /\ y \in Nat
    BY <1>2, <1>3
  <2> QED
    BY <2>1
<1> QED
  BY <1>4

LEMMA InductionOnNat ==
  ASSUME NEW T, 0 \in T, \A n \in Nat : n \in T => n + 1 \in T
  PROVE  \A n \in Nat : n \in T
<1> SUFFICES ASSUME Nat \ T # {} PROVE FALSE
  OBVIOUS
<1> DEFINE U == Nat \ T
<1>1. U \in SUBSET Nat /\ U # {}
  OBVIOUS
<1> HIDE DEF U
<1>2. PICK x \in U : \A y \in U : x <= y
  BY <1>1, LeastElement
<1>3. x \in Nat /\ x \notin T /\ \A y \in Nat : y \notin T => x <= y
  BY <1>2 DEF U
<1>4. x # 0 /\ x - 1 \in Nat /\ (x - 1) + 1 = x
  BY <1>3
<1>5. x - 1 \in T
  BY <1>3, <1>4
<1>6. x \in T
  BY <1>4, <1>5
<1> QED
  BY <1>3, <1>6

LEMMA InductionOnSeq ==
  ASSUME NEW S, NEW T, <<>> \in T,
         \A s \in Seq(S), c \in S : s \in T => Append(s, c) \in T
  PROVE  \A s \in Seq(S) : s \in T
<1> DEFINE N == {n \in Nat : \A s \in Seq(S) : Len(s) = n => s \in T}
<1>1. 0 \in N
  <2>1. \A s \in Seq(S) : Len(s) = 0 => s = <<>>
    BY EmptySeq
  <2> QED
    BY <2>1
<1>2. ASSUME NEW n \in Nat, n \in N PROVE n + 1 \in N
  <2> SUFFICES ASSUME NEW s \in Seq(S), Len(s) = n + 1 PROVE s \in T
    BY <1>2
  <2>1. s # <<>>
    BY EmptySeq
  <2>2. PICK r \in Seq(S), c \in S : s = Append(r, c)
    BY <2>1, SequenceEmptyOrAppend
  <2>3. Len(r) = n
    BY <2>2, AppendProperties, LenProperties
  <2>4. r \in T
    BY <1>2, <2>3
  <2> QED
    BY <2>2, <2>4
<1> HIDE DEF N
<1>3. \A n \in Nat : n \in N
  BY <1>1, <1>2, InductionOnNat
<1> QED
  <2> TAKE s \in Seq(S)
  <2>1. Len(s) \in Nat /\ Len(s) \in N
    BY <1>3, LenProperties
  <2> QED
    BY <2>1 DEF N
-----------------------------------------------------------------------------
(* FlattenSeq                                                              *)

\* The partial concatenations of a sequence of sequences.
Next1(f, ss, i) == IF i = 1 THEN ss[i] ELSE f[i-1] \o ss[i]
AreJoins(f, ss, n) == f = [i \in 1..n |-> IF i = 1 THEN ss[i] ELSE f[i-1] \o ss[i]]

LEMMA JoinsAre ==
  ASSUME NEW f, NEW ss, NEW n \in Nat
  PROVE  AreJoins(f, ss, n) <=> /\ f = [i \in 1..n |-> f[i]]
                                /\ \A i \in 1..n : f[i] = Next1(f, ss, i)
<1> DEFINE g == [i \in 1..n |-> Next1(f, ss, i)]
<1>1. AreJoins(f, ss, n) <=> f = g
  BY DEF AreJoins, Next1
<1>2. g = [i \in 1..n |-> g[i]] /\ \A i \in 1..n : g[i] = Next1(f, ss, i)
  OBVIOUS
<1>3. /\ f = [i \in 1..n |-> f[i]]
      /\ \A i \in 1..n : f[i] = Next1(f, ss, i)
      => f = g
  OBVIOUS
<1> HIDE DEF g
<1> QED
  BY <1>1, <1>2, <1>3

LEMMA JoinsExist ==
  ASSUME NEW ss, NEW n \in Nat
  PROVE  \E f : AreJoins(f, ss, n)
<1> DEFINE T == {m \in Nat : \E f : AreJoins(f, ss, m)}
<1>1. 0 \in T
  <2> DEFINE f == [i \in 1..0 |-> ss[i]]
  <2>1. f = [i \in 1..0 |-> f[i]] /\ \A i \in 1..0 : f[i] = Next1(f, ss, i)
    OBVIOUS
  <2> HIDE DEF f
  <2> QED
    BY <2>1, JoinsAre
<1>2. ASSUME NEW m \in Nat, m \in T PROVE m + 1 \in T
  <2>1. PICK f : AreJoins(f, ss, m)
    BY <1>2
  <2>2. \A i \in 1..m : f[i] = Next1(f, ss, i)
    BY <2>1, JoinsAre
  <2> DEFINE g == [i \in 1..(m+1) |-> IF i = m + 1 THEN Next1(f, ss, i) ELSE f[i]]
  <2>3. /\ \A i \in 1..m : g[i] = f[i]
        /\ g[m+1] = Next1(f, ss, m+1)
        /\ g = [i \in 1..(m+1) |-> g[i]]
    OBVIOUS
  <2> HIDE DEF g
  <2>4. \A i \in 1..(m+1) : g[i] = Next1(g, ss, i)
    <3> TAKE i \in 1..(m+1)
    <3>1. i # 1 => i - 1 \in 1..m
      OBVIOUS
    <3>2. Next1(g, ss, i) = Next1(f, ss, i)
      BY <2>3, <3>1 DEF Next1
    <3>3. CASE i = m + 1
      BY <2>3, <3>2, <3>3
    <3>4. CASE i # m + 1
      BY <2>2, <2>3, <3>2, <3>4
    <3> QED
      BY <3>3, <3>4
  <2> QED
    BY SMTT(30), <2>3, <2>4, JoinsAre
<1> HIDE DEF T
<1>3. \A m \in Nat : m \in T
  BY <1>1, <1>2, InductionOnNat
<1> QED
  BY <1>3 DEF T

LEMMA FlattenIs ==
  ASSUME NEW ss, Len(ss) \in Nat
  PROVE  \E f : /\ \A i \in 1..Len(ss) : f[i] = Next1(f, ss, i)
                /\ FlattenSeq(ss) = IF Len(ss) = 0 THEN ss ELSE f[Len(ss)]
<1> DEFINE f == CHOOSE g : AreJoins(g, ss, Len(ss))
<1>1. FlattenSeq(ss) = IF Len(ss) = 0 THEN ss ELSE f[Len(ss)]
  BY DEF FlattenSeq, AreJoins
<1>2. AreJoins(f, ss, Len(ss))
  BY JoinsExist
<1> HIDE DEF f
<1> QED
  BY <1>1, <1>2, JoinsAre

LEMMA FlattenEmpty == FlattenSeq(<<>>) = <<>>
  BY FlattenIs

LEMMA FlattenAppend ==
  ASSUME NEW S, NEW ss \in Seq(Seq(S)), NEW x \in Seq(S)
  PROVE  FlattenSeq(Append(ss, x)) = FlattenSeq(ss) \o x
<1> DEFINE tt == Append(ss, x)
           n == Len(ss)
<1>1. n \in Nat /\ Len(tt) = n + 1 /\ tt[n+1] = x /\ \A i \in 1..n : tt[i] = ss[i]
  BY AppendProperties, LenProperties
<1>2. n = 0 => ss = <<>>
  BY EmptySeq
<1> HIDE DEF tt, n
<1>3. PICK f : /\ \A i \in 1..n : f[i] = Next1(f, ss, i)
               /\ FlattenSeq(ss) = IF n = 0 THEN ss ELSE f[n]
  BY <1>1, FlattenIs DEF n
<1>4. PICK g : /\ \A i \in 1..(n+1) : g[i] = Next1(g, tt, i)
               /\ FlattenSeq(tt) = g[n+1]
  BY <1>1, FlattenIs
<1> DEFINE T == {m \in Nat : m \in 1..n => g[m] = f[m]}
<1>5. 0 \in T
  OBVIOUS
<1>6. ASSUME NEW m \in Nat, m \in T PROVE m + 1 \in T
  <2> SUFFICES ASSUME m + 1 \in 1..n PROVE g[m+1] = f[m+1]
    OBVIOUS
  <2>1. m + 1 \in 1..(n+1) /\ (m + 1) - 1 = m /\ (m # 0 => m \in 1..n)
    BY <1>1
  <2>2. m # 0 => g[m] = f[m]
    BY <1>6, <2>1
  <2>3. g[m+1] = Next1(g, tt, m+1) /\ f[m+1] = Next1(f, ss, m+1) /\ tt[m+1] = ss[m+1]
    BY <1>1, <1>3, <1>4, <2>1
  <2>4. Next1(g, tt, m+1) = Next1(f, ss, m+1)
    BY <2>1, <2>2, <2>3 DEF Next1
  <2> QED
    BY <2>3, <2>4
<1> HIDE DEF T
<1>7. n \in T
  BY <1>1, <1>5, <1>6, InductionOnNat
<1>8. n # 0 => g[n] = f[n]
  BY <1>1, <1>7 DEF T
<1>9. g[n+1] = IF n = 0 THEN x ELSE g[n] \o x
  <2>1. n + 1 \in 1..(n+1) /\ (n + 1) - 1 = n /\ (n + 1 = 1 <=> n = 0)
    BY <1>1
  <2>2. g[n+1] = Next1(g, tt, n+1)
    BY <1>4, <2>1
  <2> QED
    BY <1>1, <2>1, <2>2 DEF Next1
<1>10. CASE n = 0
  <2>1. FlattenSeq(ss) = <<>>
    BY <1>2, <1>3, <1>10
  <2>2. <<>> \o x = x
    BY ConcatEmptySeq
  <2> QED
    BY <1>4, <1>9, <1>10, <2>1, <2>2 DEF tt
<1>11. CASE n # 0
  BY <1>3, <1>4, <1>8, <1>9, <1>11 DEF tt
<1> QED
  BY <1>10, <1>11

LEMMA FlattenType ==
  ASSUME NEW S
  PROVE  \A ss \in Seq(Seq(S)) : FlattenSeq(ss) \in Seq(S)
<1> DEFINE T == {ss \in Seq(Seq(S)) : FlattenSeq(ss) \in Seq(S)}
<1>1. <<>> \in T
  BY FlattenEmpty, EmptySeq
<1>2. ASSUME NEW ss \in Seq(Seq(S)), NEW x \in Seq(S), ss \in T PROVE Append(ss, x) \in T
  <2>1. FlattenSeq(Append(ss, x)) = FlattenSeq(ss) \o x
    BY FlattenAppend
  <2>2. FlattenSeq(ss) \in Seq(S)
    BY <1>2
  <2> QED
    BY <2>1, <2>2, ConcatProperties, AppendProperties
<1> HIDE DEF T
<1>3. \A ss \in Seq(Seq(S)) : ss \in T
  BY <1>1, <1>2, InductionOnSeq
<1> QED
  BY <1>3 DEF T

LEMMA AppendConcat ==
  ASSUME NEW S, NEW s \in Seq(S), NEW t \in Seq(S), NEW c \in S
  PROVE  s \o Append(t, c) = Append(s \o t, c)
<1>1. Append(t, c) = t \o <<c>> /\ <<c>> \in Seq(S)
  BY AppendIsConcat
<1>2. s \o t \in Seq(S)
  BY ConcatProperties
<1>3. Append(s \o t, c) = (s \o t) \o <<c>>
  BY <1>2, AppendIsConcat
<1> QED
  BY <1>1, <1>3, ConcatAssociative

LEMMA FlattenConcat ==
  ASSUME NEW S, NEW ss \in Seq(Seq(S))
  PROVE  \A tt \in Seq(Seq(S)) : FlattenSeq(ss \o tt) = FlattenSeq(ss) \o FlattenSeq(tt)
<1> DEFINE T == {tt \in Seq(Seq(S)) : FlattenSeq(ss \o tt) = FlattenSeq(ss) \o FlattenSeq(tt)}
<1>0. FlattenSeq(ss) \in Seq(S)
  BY FlattenType
<1>1. <<>> \in T
  <2>1. ss \o <<>> = ss /\ <<>> \in Seq(Seq(S))
    BY ConcatEmptySeq, EmptySeq
  <2>2. FlattenSeq(ss) \o <<>> = FlattenSeq(ss)
    BY <1>0, ConcatEmptySeq
  <2> QED
    BY <2>1, <2>2, FlattenEmpty
<1>2. ASSUME NEW tt \in Seq(Seq(S)), NEW x \in Seq(S), tt \in T PROVE Append(tt, x) \in T
  <2>1. ss \o Append(tt, x) = Append(ss \o tt, x)
    BY AppendConcat
  <2>2. ss \o tt \in Seq(Seq(S)) /\ Append(tt, x) \in Seq(Seq(S))
    BY ConcatProperties, AppendProperties
  <2>3. FlattenSeq(ss \o Append(tt, x)) = FlattenSeq(ss \o tt) \o x
    BY <2>1, <2>2, FlattenAppend
  <2>4. FlattenSeq(ss \o tt) = FlattenSeq(ss) \o FlattenSeq(tt)
    BY <1>2
  <2>5. FlattenSeq(tt) \in Seq(S)
    BY FlattenType
  <2>6. FlattenSeq(Append(tt, x)) = FlattenSeq(tt) \o x
    BY FlattenAppend
  <2>7. (FlattenSeq(ss) \o FlattenSeq(tt)) \o x = FlattenSeq(ss) \o (FlattenSeq(tt) \o x)
    BY <1>0, <2>5, ConcatAssociative
  <2> QED
    BY <2>2, <2>3, <2>4, <2>6, <2>7
<1> HIDE DEF T
<1>3. \A tt \in Seq(Seq(S)) : tt \in T
  BY <1>1, <1>2, InductionOnSeq
<1> QED
  BY <1>3 DEF T
-----------------------------------------------------------------------------
(* Cut                                                                     *)

\* The fold of Cut: its first value, its step, and its values at all sets of
\* positions.
Uncut == [pieces |-> <<>>, rest |-> <<>>]
Joined(acc, chunk) ==
  IF chunk.part = 2
  THEN [pieces |-> Append(acc.pieces, Append(acc.rest, chunk)), rest |-> <<>>]
  ELSE [acc EXCEPT !.rest = Append(@, chunk)]
Next2(f, s, q) == IF q = {} THEN Uncut ELSE Joined(f[q \ {Max(q)}], s[Max(q)])
AreCuts(f, s, D) ==
  f = [q \in SUBSET D |-> IF q = {} THEN Uncut ELSE Joined(f[q \ {Max(q)}], s[Max(q)])]

LEMMA MaxIs ==
  ASSUME NEW q \in SUBSET Nat, NEW x \in q, \A y \in q : y <= x
  PROVE  Max(q) = x
<1>1. \A y \in q : x >= y
  OBVIOUS
<1>2. \A z \in q : (\A y \in q : z >= y) => z = x
  OBVIOUS
<1> QED
  BY <1>1, <1>2 DEF Max

LEMMA CutsAre ==
  ASSUME NEW f, NEW s, NEW D
  PROVE  AreCuts(f, s, D) <=> /\ f = [q \in SUBSET D |-> f[q]]
                              /\ \A q \in SUBSET D : f[q] = Next2(f, s, q)
<1> DEFINE g == [q \in SUBSET D |-> Next2(f, s, q)]
<1>1. AreCuts(f, s, D) <=> f = g
  BY DEF AreCuts, Next2
<1>2. g = [q \in SUBSET D |-> g[q]] /\ \A q \in SUBSET D : g[q] = Next2(f, s, q)
  OBVIOUS
<1>3. /\ f = [q \in SUBSET D |-> f[q]]
      /\ \A q \in SUBSET D : f[q] = Next2(f, s, q)
      => f = g
  OBVIOUS
<1> HIDE DEF g
<1> QED
  BY <1>1, <1>2, <1>3

LEMMA CutsExist ==
  ASSUME NEW s, NEW n \in Nat
  PROVE  \E f : AreCuts(f, s, 1..n)
<1> DEFINE T == {m \in Nat : \E f : AreCuts(f, s, 1..m)}
<1>1. 0 \in T
  <2> DEFINE f == [q \in SUBSET (1..0) |-> Uncut]
  <2>1. f = [q \in SUBSET (1..0) |-> f[q]] /\ \A q \in SUBSET (1..0) : f[q] = Uncut /\ q = {}
    OBVIOUS
  <2> HIDE DEF f
  <2>2. \A q \in SUBSET (1..0) : f[q] = Next2(f, s, q)
    BY <2>1 DEF Next2
  <2> QED
    BY <2>1, <2>2, CutsAre
<1>2. ASSUME NEW m \in Nat, m \in T PROVE m + 1 \in T
  <2>1. PICK f : AreCuts(f, s, 1..m)
    BY <1>2
  <2>2. \A q \in SUBSET (1..m) : f[q] = Next2(f, s, q)
    BY <2>1, CutsAre
  <2> DEFINE D == 1..(m+1)
             g == [q \in SUBSET D |->
                     IF m + 1 \in q THEN Joined(f[q \ {m+1}], s[m+1]) ELSE f[q]]
  <2>3. /\ g = [q \in SUBSET D |-> g[q]]
        /\ \A q \in SUBSET D : m + 1 \in q => g[q] = Joined(f[q \ {m+1}], s[m+1])
        /\ \A q \in SUBSET D : m + 1 \notin q => g[q] = f[q]
    OBVIOUS
  <2> HIDE DEF g
  <2>4. \A q \in SUBSET D : m + 1 \notin q => q \in SUBSET (1..m)
    OBVIOUS
  <2>5. \A q \in SUBSET D : g[q] = Next2(g, s, q)
    <3> TAKE q \in SUBSET D
    <3>1. CASE m + 1 \in q
      <4>1. Max(q) = m + 1
        <5>1. q \in SUBSET Nat /\ \A y \in q : y <= m + 1
          OBVIOUS
        <5> QED
          BY <3>1, <5>1, MaxIs
      <4>2. q \ {m+1} \in SUBSET D /\ m + 1 \notin q \ {m+1}
        OBVIOUS
      <4> QED
        BY <2>3, <3>1, <4>1, <4>2 DEF Next2
    <3>2. CASE m + 1 \notin q
      <4>1. q \in SUBSET (1..m) /\ q \ {Max(q)} \in SUBSET D /\ m + 1 \notin q \ {Max(q)}
        BY <2>4, <3>2
      <4>2. g[q] = f[q] /\ g[q \ {Max(q)}] = f[q \ {Max(q)}] /\ f[q] = Next2(f, s, q)
        BY <2>2, <2>3, <3>2, <4>1
      <4> QED
        BY <4>2 DEF Next2
    <3> QED
      BY <3>1, <3>2
  <2> HIDE DEF D
  <2>6. AreCuts(g, s, D)
    BY <2>3, <2>5, CutsAre
  <2> QED
    BY <2>6 DEF D
<1> HIDE DEF T
<1>3. \A m \in Nat : m \in T
  BY <1>1, <1>2, InductionOnNat
<1> QED
  BY <1>3 DEF T

\* Cut goes through the chunks from the first to the last.
LEMMA CutIs ==
  ASSUME NEW S, NEW s \in Seq(S)
  PROVE  \E h : /\ h[0] = Uncut
                /\ \A i \in 1..Len(s) : h[i] = Joined(h[i-1], s[i])
                /\ Cut(s) = h[Len(s)]
<1> DEFINE n == Len(s)
           f == CHOOSE g : AreCuts(g, s, 1..n)
           h == [i \in 0..n |-> f[1..i]]
<1>1. n \in Nat /\ DOMAIN s = 1..n
  BY LenProperties
<1>2. Cut(s) = (CHOOSE g : AreCuts(g, s, DOMAIN s))[DOMAIN s]
  BY DEF Cut, FoldLeft, MapThenFoldSet, AreCuts, Joined, Uncut
<1>3. AreCuts(f, s, 1..n)
  BY <1>1, CutsExist
<1>4. Cut(s) = f[1..n]
  BY <1>1, <1>2
<1> HIDE DEF f, n
<1>5. \A q \in SUBSET (1..n) : f[q] = Next2(f, s, q)
  BY <1>3, CutsAre
<1>6. h[0] = Uncut
  <2>1. 1..0 = {} /\ {} \in SUBSET (1..n)
    OBVIOUS
  <2>2. f[{}] = Uncut
    BY <1>5, <2>1 DEF Next2
  <2> QED
    BY <1>1, <2>1, <2>2
<1>7. \A i \in 1..n : h[i] = Joined(h[i-1], s[i])
  <2> TAKE i \in 1..n
  <2>1. 1..i \in SUBSET (1..n) /\ 1..i # {} /\ (1..i) \ {i} = 1..(i-1) /\ i \in Nat
    BY <1>1
  <2>2. Max(1..i) = i
    BY <2>1, MaxIs
  <2>3. f[1..i] = Joined(f[1..(i-1)], s[i])
    BY <1>5, <2>1, <2>2 DEF Next2
  <2>4. i \in 0..n /\ i - 1 \in 0..n
    BY <1>1
  <2> QED
    BY <2>3, <2>4
<1>8. Cut(s) = h[n]
  BY <1>1, <1>4
<1> QED
  BY <1>6, <1>7, <1>8 DEF n

LEMMA CutEmpty == Cut(<<>>) = Uncut
<1>1. <<>> \in Seq({}) /\ Len(<<>>) = 0
  BY EmptySeq
<1> QED
  BY <1>1, CutIs

LEMMA CutAppend ==
  ASSUME NEW S, NEW s \in Seq(S), NEW c \in S
  PROVE  Cut(Append(s, c)) = Joined(Cut(s), c)
<1> DEFINE t == Append(s, c)
           n == Len(s)
<1>1. n \in Nat /\ t \in Seq(S) /\ Len(t) = n + 1 /\ t[n+1] = c /\ \A i \in 1..n : t[i] = s[i]
  BY AppendProperties, LenProperties
<1>2. PICK f : f[0] = Uncut /\ (\A i \in 1..n : f[i] = Joined(f[i-1], s[i])) /\ Cut(s) = f[n]
  BY CutIs
<1> HIDE DEF t, n
<1>3. PICK g : /\ g[0] = Uncut
               /\ \A i \in 1..(n+1) : g[i] = Joined(g[i-1], t[i])
               /\ Cut(t) = g[n+1]
  BY <1>1, CutIs
<1> DEFINE T == {m \in Nat : m \in 0..n => g[m] = f[m]}
<1>4. 0 \in T
  BY <1>2, <1>3
<1>5. ASSUME NEW m \in Nat, m \in T PROVE m + 1 \in T
  <2> SUFFICES ASSUME m + 1 \in 0..n PROVE g[m+1] = f[m+1]
    OBVIOUS
  <2>1. m + 1 \in 1..n /\ m + 1 \in 1..(n+1) /\ (m + 1) - 1 = m /\ m \in 0..n
    BY <1>1
  <2>2. g[m] = f[m]
    BY <1>5, <2>1
  <2> QED
    BY <1>1, <1>2, <1>3, <2>1, <2>2
<1> HIDE DEF T
<1>6. n \in T
  BY <1>1, <1>4, <1>5, InductionOnNat
<1>7. g[n] = f[n]
  BY <1>1, <1>6 DEF T
<1>8. n + 1 \in 1..(n+1) /\ (n + 1) - 1 = n
  BY <1>1
<1> QED
  BY <1>1, <1>2, <1>3, <1>7, <1>8 DEF t

\* What Cut returns: pieces and a rest without newline which together are s,
\* every piece ending where its newline was.
NoNewline(s) == \A i \in 1..Len(s) : s[i].part = 1
EndsIn(pieces, s, at) ==
  /\ at \in [1..Len(pieces) -> 1..Len(s)]
  /\ \A i \in 1..Len(pieces) : s[at[i]] = Last(pieces[i])
  /\ \A i, j \in 1..Len(pieces) : i < j => at[i] < at[j]
IsCut(parts, s) ==
  /\ parts \in [pieces : Seq(Seq(Chunks)), rest : Seq(Chunks)]
  /\ FlattenSeq(parts.pieces) \o parts.rest = s
  /\ \A i \in 1..Len(parts.pieces) : IsPiece(parts.pieces[i])
  /\ NoNewline(parts.rest)
  /\ \E at : EndsIn(parts.pieces, s, at)

LEMMA ChunkParts == \A c \in Chunks : c.line \in 1..MaxLines /\ c.part \in {1, 2}
  BY DEF Chunks

LEMMA JoinedHalf ==
  ASSUME NEW P, NEW R, NEW c, c.part # 2
  PROVE  Joined([pieces |-> P, rest |-> R], c) = [pieces |-> P, rest |-> Append(R, c)]
<1> DEFINE acc == [pieces |-> P, rest |-> R]
<1>1. Joined(acc, c) = [acc EXCEPT !.rest = Append(@, c)]
  BY DEF Joined
<1>2. [acc EXCEPT !.rest = Append(@, c)] = [pieces |-> P, rest |-> Append(R, c)]
  OBVIOUS
<1> QED
  BY <1>1, <1>2

LEMMA CutProperties ==
  \A s \in Seq(Chunks) : IsCut(Cut(s), s)
<1> DEFINE T == {s \in Seq(Chunks) : IsCut(Cut(s), s)}
<1>1. <<>> \in T
  <2>1. /\ Cut(<<>>) = Uncut /\ <<>> \in Seq(Chunks) /\ <<>> \in Seq(Seq(Chunks))
        /\ Len(<<>>) = 0 /\ FlattenSeq(<<>>) = <<>> /\ <<>> \o <<>> = <<>>
    BY CutEmpty, EmptySeq, FlattenEmpty, ConcatEmptySeq
  <2>2. EndsIn(<<>>, <<>>, [i \in 1..0 |-> 0])
    BY <2>1 DEF EndsIn
  <2>3. NoNewline(<<>>)
    BY <2>1 DEF NoNewline
  <2>4. Uncut.pieces = <<>> /\ Uncut.rest = <<>>
    BY DEF Uncut
  <2>5. Uncut \in [pieces : Seq(Seq(Chunks)), rest : Seq(Chunks)]
    BY <2>1 DEF Uncut
  <2>6. IsCut(Uncut, <<>>)
    BY <2>1, <2>2, <2>3, <2>4, <2>5 DEF IsCut
  <2> QED
    BY <2>1, <2>6
<1>2. ASSUME NEW s \in Seq(Chunks), NEW c \in Chunks, s \in T PROVE Append(s, c) \in T
  <2> DEFINE P == Cut(s).pieces
             R == Cut(s).rest
             t == Append(s, c)
             d == Cut(t)
             n == Len(s)
             k == Len(P)
  <2>1. IsCut(Cut(s), s)
    BY <1>2
  <2>2. Cut(s) = [pieces |-> P, rest |-> R] /\ P \in Seq(Seq(Chunks)) /\ R \in Seq(Chunks)
    BY <2>1 DEF IsCut
  <2>3. /\ FlattenSeq(P) \o R = s /\ NoNewline(R)
        /\ \A i \in 1..k : IsPiece(P[i])
    BY <2>1 DEF IsCut
  <2>4. PICK at : EndsIn(P, s, at)
    BY <2>1 DEF IsCut
  <2>5. d = Joined(Cut(s), c)
    BY CutAppend
  <2>6. /\ t \in Seq(Chunks) /\ Len(t) = n + 1 /\ t[n+1] = c
        /\ \A i \in 1..n : t[i] = s[i]
        /\ n \in Nat /\ k \in Nat
    BY <2>2, AppendProperties, LenProperties
  <2>7. FlattenSeq(P) \in Seq(Chunks)
    BY <2>2, FlattenType
  <2>8. FlattenSeq(P) \o Append(R, c) = t
    BY <2>2, <2>3, <2>7, AppendConcat
  <2>9. /\ Append(R, c) \in Seq(Chunks) /\ Len(Append(R, c)) = Len(R) + 1
        /\ Append(R, c)[Len(R)+1] = c /\ Append(R, c) # <<>>
        /\ \A i \in 1..Len(R) : Append(R, c)[i] = R[i]
        /\ Len(R) \in Nat
    BY <2>2, AppendProperties, LenProperties
  <2> HIDE DEF P, R, t, d, n, k
  <2>10. CASE c.part = 2
    <3> DEFINE L == Append(R, c)
               Q == Append(P, L)
    <3>1. d = [pieces |-> Q, rest |-> <<>>]
      BY <2>2, <2>5, <2>10 DEF Joined
    <3>2. /\ Q \in Seq(Seq(Chunks)) /\ Len(Q) = k + 1 /\ Q[k+1] = L
          /\ \A i \in 1..k : Q[i] = P[i]
      BY <2>2, <2>9, AppendProperties DEF k
    <3>3. FlattenSeq(Q) \o <<>> = t
      <4>1. FlattenSeq(Q) = t
        BY <2>2, <2>8, <2>9, FlattenAppend
      <4> QED
        BY <2>6, <4>1, ConcatEmptySeq
    <3>4. Last(L) = c
      BY <2>9 DEF Last
    <3>5. IsPiece(L)
      <4>1. \A i \in 1..(Len(L) - 1) : L[i].part = 1
        BY <2>3, <2>9 DEF NoNewline
      <4> QED
        BY <2>9, <2>10, <3>4, <4>1 DEF IsPiece
    <3> HIDE DEF Q, L
    <3>6. \A i \in 1..Len(Q) : IsPiece(Q[i])
      <4> TAKE i \in 1..Len(Q)
      <4>1. i = k + 1 \/ i \in 1..k
        BY <2>6, <3>2
      <4> QED
        BY <2>3, <3>2, <3>5, <4>1
    <3> DEFINE bt == [i \in 1..(k+1) |-> IF i = k + 1 THEN n + 1 ELSE at[i]]
    <3>7. EndsIn(Q, t, bt)
      <4>1. /\ at \in [1..k -> 1..n]
            /\ \A i \in 1..k : s[at[i]] = Last(P[i])
            /\ \A i, j \in 1..k : i < j => at[i] < at[j]
        BY <2>4 DEF EndsIn, k, n
      <4>2. bt[k+1] = n + 1 /\ \A i \in 1..k : bt[i] = at[i]
        BY <2>6
      <4>3. \A i \in 1..(k+1) : i = k + 1 \/ i \in 1..k
        BY <2>6
      <4>4. bt \in [1..(k+1) -> 1..(n+1)]
        <5>1. \A i \in 1..(k+1) : bt[i] \in 1..(n+1)
          BY <2>6, <4>1, <4>2, <4>3
        <5> QED
          BY <5>1
      <4> HIDE DEF bt
      <4>5. \A i \in 1..(k+1) : t[bt[i]] = Last(Q[i])
        <5> TAKE i \in 1..(k+1)
        <5>1. CASE i = k + 1
          BY <2>6, <3>2, <3>4, <4>2, <5>1
        <5>2. CASE i \in 1..k
          BY <2>6, <3>2, <4>1, <4>2, <5>2
        <5> QED
          BY <4>3, <5>1, <5>2
      <4>6. \A i, j \in 1..(k+1) : i < j => bt[i] < bt[j]
        <5> TAKE i, j \in 1..(k+1)
        <5> HAVE i < j
        <5>1. i \in 1..k
          BY <2>6
        <5>2. CASE j = k + 1
          BY <2>6, <4>1, <4>2, <5>1, <5>2
        <5>3. CASE j \in 1..k
          BY <4>1, <4>2, <5>1, <5>3
        <5> QED
          BY <4>3, <5>2, <5>3
      <4> QED
        BY <2>6, <3>2, <4>4, <4>5, <4>6 DEF EndsIn
    <3>8. <<>> \in Seq(Chunks) /\ NoNewline(<<>>)
      BY EmptySeq DEF NoNewline
    <3>9. IsCut(d, t)
      BY <3>1, <3>2, <3>3, <3>6, <3>7, <3>8 DEF IsCut
    <3> QED
      BY <2>6, <3>9 DEF d, t
  <2>11. CASE c.part # 2
    <3>1. c.part = 1
      BY <2>11, ChunkParts
    <3>2. d = [pieces |-> P, rest |-> Append(R, c)]
      BY <2>2, <2>5, <2>11, JoinedHalf
    <3>3. NoNewline(Append(R, c))
      <4> SUFFICES ASSUME NEW i \in 1..(Len(R) + 1) PROVE Append(R, c)[i].part = 1
        BY <2>9 DEF NoNewline
      <4>1. CASE i = Len(R) + 1
        BY <2>9, <3>1, <4>1
      <4>2. CASE i \in 1..Len(R)
        BY <2>3, <2>9, <4>2 DEF NoNewline
      <4> QED
        BY <2>9, <4>1, <4>2
    <3>4. EndsIn(P, t, at)
      BY SMTT(30), <2>4, <2>6 DEF EndsIn, n
    <3>5. IsCut(d, t)
      BY <2>2, <2>3, <2>8, <2>9, <3>2, <3>3, <3>4 DEF IsCut, k
    <3> QED
      BY <2>6, <3>5 DEF d, t
  <2> QED
    BY <2>10, <2>11
<1> HIDE DEF T
<1>3. \A s \in Seq(Chunks) : s \in T
  BY <1>1, <1>2, InductionOnSeq
<1> QED
  BY <1>3 DEF T
-----------------------------------------------------------------------------
(* What the tailer reads and delivers                                      *)

LEMMA SmallerIs ==
  ASSUME NEW a \in Nat, NEW b \in Nat
  PROVE  /\ Smaller(a, b) \in Nat /\ Smaller(a, b) <= a /\ Smaller(a, b) <= b
         /\ Smaller(a, b) = a \/ Smaller(a, b) = b
  BY DEF Smaller

LEMMA PartOf ==
  ASSUME NEW S, NEW s \in Seq(S), NEW m \in Nat, NEW n \in Nat, n <= Len(s)
  PROVE  /\ SubSeq(s, m + 1, n) \in Seq(S)
         /\ Len(SubSeq(s, m + 1, n)) = IF m <= n THEN n - m ELSE 0
         /\ \A i \in 1..Len(SubSeq(s, m + 1, n)) : SubSeq(s, m + 1, n)[i] = s[m + i]
<1>1. \A i \in (m+1)..n : s[i] \in S
  <2> TAKE i \in (m+1)..n
  <2>1. i \in 1..Len(s)
    BY LenProperties
  <2> QED
    BY <2>1, ElementOfSeq
<1>2. m + 1 \in Int /\ n \in Int /\ n - (m + 1) + 1 = n - m /\ (m + 1 <= n <=> m < n)
  OBVIOUS
<1>3. /\ SubSeq(s, m + 1, n) \in Seq(S)
      /\ Len(SubSeq(s, m + 1, n)) = IF m + 1 <= n THEN n - (m + 1) + 1 ELSE 0
      /\ \A i \in 1..(n - (m + 1) + 1) : SubSeq(s, m + 1, n)[i] = s[(m + 1) + i - 1]
  BY <1>1, <1>2, SubSeqProperties
<1>4. Len(SubSeq(s, m + 1, n)) = IF m <= n THEN n - m ELSE 0
  BY <1>2, <1>3
<1>5. \A i \in 1..Len(SubSeq(s, m + 1, n)) : i \in 1..(n - (m + 1) + 1) /\ (m + 1) + i - 1 = m + i
  BY <1>2, <1>4
<1> QED
  BY <1>3, <1>4, <1>5

Outs == [text : Seq(Chunks), backfill : BOOLEAN]
AsLines(pieces, b) == [i \in 1..Len(pieces) |-> Line(pieces[i], b)]
ArePieces(pieces) == /\ pieces \in Seq(Seq(Chunks))
                     /\ \A i \in 1..Len(pieces) : IsPiece(pieces[i])

LEMMA SeqFromFunction ==
  ASSUME NEW S, NEW n \in Nat, NEW f \in [1..n -> S]
  PROVE  f \in Seq(S) /\ Len(f) = n
  OBVIOUS

LEMMA LinesAre ==
  ASSUME NEW pieces \in Seq(Seq(Chunks)), NEW b \in BOOLEAN
  PROVE  /\ AsLines(pieces, b) \in Seq(Outs) /\ Len(AsLines(pieces, b)) = Len(pieces)
         /\ \A i \in 1..Len(pieces) : /\ AsLines(pieces, b)[i].text = pieces[i]
                                      /\ AsLines(pieces, b)[i].backfill = b
<1>1. Len(pieces) \in Nat /\ \A i \in 1..Len(pieces) : pieces[i] \in Seq(Chunks)
  BY LenProperties, ElementOfSeq
<1>2. \A i \in 1..Len(pieces) : /\ Line(pieces[i], b) \in Outs
                                /\ Line(pieces[i], b).text = pieces[i]
                                /\ Line(pieces[i], b).backfill = b
  BY <1>1 DEF Line, Outs
<1>3. AsLines(pieces, b) \in [1..Len(pieces) -> Outs]
  BY <1>2 DEF AsLines
<1>4. AsLines(pieces, b) \in Seq(Outs) /\ Len(AsLines(pieces, b)) = Len(pieces)
  BY <1>1, <1>3, SeqFromFunction
<1>5. \A i \in 1..Len(pieces) : AsLines(pieces, b)[i] = Line(pieces[i], b)
  BY DEF AsLines
<1> QED
  BY <1>2, <1>4, <1>5

LEMMA BytesAre ==
  ASSUME NEW s \in Seq(Chunks), s = logs[file], offset \in Nat, size \in Nat
  PROVE  /\ Bytes \in Seq(Chunks)
         /\ \A i \in 1..Len(Bytes) : Bytes[i] = s[offset + i]
         /\ Len(Bytes) \in Nat
         /\ offset <= Len(s) => offset + Len(Bytes) <= Len(s)
         /\ Len(s) < offset => Len(Bytes) = 0
         /\ offset + Len(Bytes) <= size \/ Bytes = <<>>
         /\ offset <= Len(s) => Bytes = SubSeq(s, offset + 1, offset + Len(Bytes))
<1> DEFINE m == Smaller(Smaller(offset + ReadSize, size), Len(s))
<1>1. ReadSize \in Nat /\ Len(s) \in Nat
  BY LogTailerAssumption, LenProperties
<1>2. m \in Nat /\ m <= size /\ m <= Len(s)
  <2> DEFINE q == Smaller(offset + ReadSize, size)
  <2>1. q \in Nat /\ q <= size
    <3>1. offset + ReadSize \in Nat
      BY <1>1
    <3> QED
      BY <3>1, SmallerIs
  <2> HIDE DEF q
  <2>2. Smaller(q, Len(s)) \in Nat /\ Smaller(q, Len(s)) <= q /\ Smaller(q, Len(s)) <= Len(s)
    BY <1>1, <2>1, SmallerIs
  <2> QED
    BY <1>1, <2>1, <2>2 DEF q
<1>3. Bytes = SubSeq(s, offset + 1, m)
  BY DEF Bytes
<1> HIDE DEF m
<1>4. /\ Bytes \in Seq(Chunks) /\ Len(Bytes) = IF offset <= m THEN m - offset ELSE 0
      /\ \A i \in 1..Len(Bytes) : Bytes[i] = s[offset + i]
  BY <1>2, <1>3, PartOf
<1>5. Len(Bytes) = 0 => Bytes = <<>>
  BY <1>4, EmptySeq
<1>6. ASSUME offset <= Len(s) PROVE Bytes = SubSeq(s, offset + 1, offset + Len(Bytes))
  <2>1. CASE offset <= m
    BY <1>2, <1>3, <1>4, <2>1
  <2>2. CASE m < offset
    <3>1. Len(Bytes) = 0 /\ offset + Len(Bytes) < offset + 1
      BY <1>2, <1>4, <2>2
    <3> QED
      BY <1>5, <3>1, SubSeqEmpty
  <2> QED
    BY <1>2, <2>1, <2>2
<1>7. Len(Bytes) \in Nat
  BY <1>2, <1>4
<1>8. offset <= Len(s) => offset + Len(Bytes) <= Len(s)
  BY <1>1, <1>2, <1>4
<1>9. offset + Len(Bytes) <= size \/ Len(Bytes) = 0
  BY <1>2, <1>4
<1>10. Len(s) < offset => Len(Bytes) = 0
  BY <1>1, <1>2, <1>4
<1> QED
  BY <1>4, <1>5, <1>6, <1>7, <1>8, <1>9, <1>10

\* The pieces end where these chunks lie in s, one after the other.
EndAt(pieces, s, lo, hi, at) ==
  /\ at \in [1..Len(pieces) -> (lo+1)..hi]
  /\ \A i \in 1..Len(pieces) : s[at[i]] = Last(pieces[i])
  /\ \A i, j \in 1..Len(pieces) : i < j => at[i] < at[j]

LEMMA ReadDelivers ==
  ASSUME NEW s \in Seq(Chunks), s = logs[file], offset \in Nat, size \in Nat,
         carry \in Seq(Chunks), NoNewline(carry)
  PROVE  LET parts == Cut(carry \o Bytes) IN
         /\ ArePieces(parts.pieces) /\ parts.rest \in Seq(Chunks) /\ NoNewline(parts.rest)
         /\ FlattenSeq(parts.pieces) \o parts.rest = carry \o Bytes
         /\ \E at : EndAt(parts.pieces, s, offset, offset + Len(Bytes), at)
<1> DEFINE t == carry \o Bytes
           parts == Cut(t)
           k == Len(parts.pieces)
           c == Len(carry)
           b == Len(Bytes)
<1>1. Bytes \in Seq(Chunks) /\ b \in Nat /\ \A i \in 1..b : Bytes[i] = s[offset + i]
  BY BytesAre
<1>2. /\ t \in Seq(Chunks) /\ Len(t) = c + b /\ c \in Nat
      /\ \A i \in 1..(c + b) : t[i] = IF i <= c THEN carry[i] ELSE Bytes[i - c]
  BY <1>1, ConcatProperties, LenProperties
<1>3. IsCut(parts, t)
  BY <1>2, CutProperties
<1> HIDE DEF t, parts
<1>4. /\ ArePieces(parts.pieces) /\ parts.rest \in Seq(Chunks) /\ NoNewline(parts.rest)
      /\ FlattenSeq(parts.pieces) \o parts.rest = t
      /\ \E at : EndsIn(parts.pieces, t, at)
  BY <1>3 DEF IsCut, ArePieces
<1>5. PICK at : EndsIn(parts.pieces, t, at)
  BY <1>4
<1>6. /\ at \in [1..k -> 1..(c + b)]
      /\ \A i \in 1..k : t[at[i]] = Last(parts.pieces[i])
      /\ \A i, j \in 1..k : i < j => at[i] < at[j]
  BY <1>2, <1>5 DEF EndsIn
<1>7. \A i \in 1..k : Last(parts.pieces[i]).part = 2
  BY <1>4 DEF ArePieces, IsPiece
<1> HIDE DEF k, c, b
<1>8. \A i \in 1..c : carry[i].part = 1
  BY DEF NoNewline, c
<1>9. \A i \in 1..k : at[i] \in (c+1)..(c+b)
  <2> TAKE i \in 1..k
  <2>1. at[i] \in 1..(c+b) /\ t[at[i]].part = 2
    BY <1>6, <1>7
  <2>2. ~(at[i] <= c)
    BY <1>2, <1>8, <2>1
  <2> QED
    BY <1>1, <1>2, <2>1, <2>2
<1> DEFINE bt == [i \in 1..k |-> offset + at[i] - c]
<1>10. \A i \in 1..k : /\ bt[i] \in (offset+1)..(offset+b)
                       /\ s[bt[i]] = Last(parts.pieces[i])
  <2> TAKE i \in 1..k
  <2>1. at[i] - c \in 1..b /\ bt[i] = offset + (at[i] - c)
    BY <1>1, <1>2, <1>9
  <2>2. t[at[i]] = Bytes[at[i] - c]
    BY <1>1, <1>2, <1>9
  <2>3. Bytes[at[i] - c] = s[bt[i]]
    BY <1>1, <2>1
  <2>4. bt[i] \in (offset+1)..(offset+b)
    BY <1>1, <2>1
  <2> QED
    BY <1>6, <2>2, <2>3, <2>4
<1>11. \A i, j \in 1..k : i < j => bt[i] < bt[j]
  <2> SUFFICES ASSUME NEW i \in 1..k, NEW j \in 1..k, i < j PROVE bt[i] < bt[j]
    OBVIOUS
  <2>1. at[i] < at[j] /\ at[i] \in (c+1)..(c+b) /\ at[j] \in (c+1)..(c+b)
    BY <1>6, <1>9
  <2> QED
    BY <1>1, <1>2, <2>1
<1>12. bt \in [1..k -> (offset+1)..(offset+b)]
  BY <1>10
<1> HIDE DEF bt
<1>13. EndAt(parts.pieces, s, offset, offset + b, bt)
  BY <1>10, <1>11, <1>12 DEF EndAt, k
<1> QED
  BY <1>4, <1>13 DEF parts, t, b

\* A contiguous part of s that ends at n or before.
IsPart(w, s, n) ==
  /\ w \in Seq(Chunks)
  /\ \E d \in Nat : /\ d + Len(w) <= n
                    /\ \A i \in 1..Len(w) : w[i] = s[d + i]

LEMMA EmptyIsPart ==
  ASSUME NEW s, NEW n \in Nat
  PROVE  IsPart(<<>>, s, n)
<1>1. <<>> \in Seq(Chunks) /\ Len(<<>>) = 0
  BY EmptySeq
<1> QED
  BY <1>1 DEF IsPart

LEMMA WholeLines ==
  ASSUME NEW window \in Seq(Chunks)
  PROVE  IsPart(FromWholeLine(window), window, Len(window))
<1> DEFINE n == Len(window)
<1>0. n \in Nat
  BY LenProperties
<1>1. CASE \E i \in 1..n : window[i].part = 2
  <2> DEFINE Q == {i \in 1..n : window[i].part = 2}
             IsFirst(i) == window[i].part = 2 /\ \A j \in 1..(i-1) : window[j].part = 1
             first == CHOOSE i \in 1..n : IsFirst(i)
  <2>1. \E i \in 1..n : IsFirst(i)
    <3>1. Q \in SUBSET Nat /\ Q # {}
      BY <1>1
    <3> HIDE DEF Q
    <3>2. PICK i \in Q : \A j \in Q : i <= j
      BY <3>1, LeastElement
    <3>3. i \in 1..n /\ window[i].part = 2 /\ \A j \in 1..n : window[j].part = 2 => i <= j
      BY <3>2 DEF Q
    <3>4. \A j \in 1..n : window[j].part \in {1, 2}
      BY ElementOfSeq, ChunkParts
    <3>5. \A j \in 1..(i-1) : window[j].part = 1
      <4> TAKE j \in 1..(i-1)
      <4>1. j \in 1..n /\ ~(i <= j)
        BY <1>0, <3>3
      <4> QED
        BY <3>3, <3>4, <4>1
    <3> QED
      BY <3>3, <3>5
  <2>2. first \in 1..n
    BY <2>1
  <2>3. FromWholeLine(window) = SubSeq(window, first + 1, n)
    BY <1>1 DEF FromWholeLine
  <2> HIDE DEF first
  <2> DEFINE w == SubSeq(window, first + 1, n)
  <2>4. /\ w \in Seq(Chunks) /\ Len(w) = IF first <= n THEN n - first ELSE 0
        /\ \A i \in 1..Len(w) : w[i] = window[first + i]
    BY <1>0, <2>2, PartOf
  <2>5. first \in Nat /\ first + Len(w) <= n
    BY <1>0, <2>2, <2>4
  <2> HIDE DEF w
  <2>6. IsPart(w, window, n)
    BY <2>4, <2>5 DEF IsPart
  <2> QED
    BY <2>3, <2>6 DEF w
<1>2. CASE ~ \E i \in 1..n : window[i].part = 2
  <2>1. FromWholeLine(window) = <<>>
    BY <1>2 DEF FromWholeLine
  <2> QED
    BY <1>0, <2>1, EmptyIsPart
<1> QED
  BY <1>1, <1>2

LEMMA PartOfPart ==
  ASSUME NEW w, NEW v \in Seq(Chunks), NEW s, NEW m \in Nat, NEW n \in Nat,
         IsPart(w, v, Len(v)), m + Len(v) <= n, \A i \in 1..Len(v) : v[i] = s[m + i]
  PROVE  IsPart(w, s, n)
<1>1. PICK d \in Nat : d + Len(w) <= Len(v) /\ \A i \in 1..Len(w) : w[i] = v[d + i]
  BY DEF IsPart
<1>2. w \in Seq(Chunks) /\ Len(w) \in Nat /\ Len(v) \in Nat
  BY LenProperties DEF IsPart
<1>3. \A i \in 1..Len(w) : w[i] = s[(m + d) + i]
  <2> TAKE i \in 1..Len(w)
  <2>1. d + i \in 1..Len(v) /\ m + (d + i) = (m + d) + i
    BY <1>1, <1>2
  <2> QED
    BY <1>1, <2>1
<1>4. m + d \in Nat /\ (m + d) + Len(w) <= n
  BY <1>1, <1>2
<1> QED
  BY <1>2, <1>3, <1>4 DEF IsPart

\* The pieces of a part of s, and so the last of them, end one after the other.
LEMMA PartDelivers ==
  ASSUME NEW s, NEW n \in Nat, NEW w, IsPart(w, s, n), NEW m \in Nat
  PROVE  LET pieces == Cut(w).pieces
             kept == SubSeq(pieces, m + 1, Len(pieces))
         IN ArePieces(kept) /\ \E at : EndAt(kept, s, 0, n, at)
<1> DEFINE pieces == Cut(w).pieces
           kept == SubSeq(pieces, m + 1, Len(pieces))
           k == Len(kept)
<1>1. w \in Seq(Chunks) /\ IsCut(Cut(w), w)
  BY CutProperties DEF IsPart
<1>2. PICK d \in Nat : d + Len(w) <= n /\ \A i \in 1..Len(w) : w[i] = s[d + i]
  BY DEF IsPart
<1> HIDE DEF pieces
<1>3. /\ pieces \in Seq(Seq(Chunks)) /\ Len(pieces) \in Nat /\ Len(w) \in Nat
      /\ \A i \in 1..Len(pieces) : IsPiece(pieces[i])
  BY <1>1, LenProperties DEF IsCut, pieces
<1>4. PICK at : EndsIn(pieces, w, at)
  BY <1>1 DEF IsCut, pieces
<1>5. /\ at \in [1..Len(pieces) -> 1..Len(w)]
      /\ \A i \in 1..Len(pieces) : w[at[i]] = Last(pieces[i])
      /\ \A i, j \in 1..Len(pieces) : i < j => at[i] < at[j]
  BY <1>4 DEF EndsIn
<1>6. /\ kept \in Seq(Seq(Chunks)) /\ k = IF m <= Len(pieces) THEN Len(pieces) - m ELSE 0
      /\ \A i \in 1..k : kept[i] = pieces[m + i]
  BY <1>3, PartOf
<1> HIDE DEF kept, k
<1>7. k \in Nat /\ \A i \in 1..k : m + i \in 1..Len(pieces)
  BY <1>3, <1>6
<1>8. ArePieces(kept)
  <2>1. \A i \in 1..k : IsPiece(kept[i])
    BY <1>3, <1>6, <1>7
  <2> QED
    BY <1>6, <2>1 DEF ArePieces, k
<1> DEFINE bt == [i \in 1..k |-> d + at[m + i]]
<1>9. \A i \in 1..k : bt[i] \in 1..n /\ s[bt[i]] = Last(kept[i])
  <2> TAKE i \in 1..k
  <2>1. at[m + i] \in 1..Len(w) /\ w[at[m + i]] = Last(pieces[m + i])
    BY <1>5, <1>7
  <2>2. w[at[m + i]] = s[d + at[m + i]] /\ bt[i] = d + at[m + i]
    BY <1>2, <2>1
  <2>3. d + at[m + i] \in 1..n
    BY SMTT(30), <1>2, <1>3, <2>1
  <2> QED
    BY <1>6, <2>1, <2>2, <2>3
<1>10. \A i, j \in 1..k : i < j => bt[i] < bt[j]
  <2> SUFFICES ASSUME NEW i \in 1..k, NEW j \in 1..k, i < j PROVE bt[i] < bt[j]
    OBVIOUS
  <2>1. m + i \in 1..Len(pieces) /\ m + j \in 1..Len(pieces) /\ m + i < m + j
    BY <1>7
  <2>2. at[m + i] < at[m + j] /\ at[m + i] \in 1..Len(w) /\ at[m + j] \in 1..Len(w)
    BY <1>5, <2>1
  <2> QED
    BY <1>2, <2>2
<1>11. bt \in [1..k -> 1..n]
  BY <1>9
<1> HIDE DEF bt
<1>12. EndAt(kept, s, 0, n, bt)
  BY <1>9, <1>10, <1>11 DEF EndAt, k
<1> QED
  BY <1>8, <1>12 DEF kept, pieces

LEMMA BackfillDelivers ==
  ASSUME NEW s \in Seq(Chunks), s = logs[file], offset \in Nat, Backfill
  PROVE  \E kept : /\ ArePieces(kept)
                   /\ \E at : EndAt(kept, s, 0, Smaller(offset, Len(s)), at)
                   /\ \/ out' = out \o AsLines(kept, TRUE) /\ UNCHANGED faults
                      \/ UNCHANGED out /\ faults < MaxFaults /\ faults' = faults + 1
<1> DEFINE n == Smaller(offset, Len(s))
           start == IF offset > ScanSize THEN offset - ScanSize ELSE 0
           window == SubSeq(s, start + 1, n)
           w == IF start > 0 THEN FromWholeLine(window) ELSE window
           pieces == Cut(w).pieces
           m == IF Len(pieces) > KeepLines THEN Len(pieces) - KeepLines ELSE 0
           kept == SubSeq(pieces, m + 1, Len(pieces))
<1>1. ScanSize \in Nat /\ KeepLines \in Nat /\ Len(s) \in Nat
  BY LogTailerAssumption, LenProperties
<1>2. n \in Nat /\ n <= Len(s) /\ start \in Nat
  <2>1. n \in Nat /\ n <= Len(s)
    BY <1>1, SmallerIs
  <2>2. start \in Nat
    BY <1>1
  <2> QED
    BY <2>1, <2>2
<1> HIDE DEF n, start
<1>3. /\ window \in Seq(Chunks) /\ Len(window) = IF start <= n THEN n - start ELSE 0
      /\ \A i \in 1..Len(window) : window[i] = s[start + i]
  BY <1>2, PartOf
<1>4. IsPart(w, s, n)
  <2> HIDE DEF window
  <2>1. CASE start <= n
    <3>1. start + Len(window) <= n /\ Len(window) \in Nat
      BY <1>2, <1>3, <2>1
    <3>2. IsPart(window, window, Len(window))
      BY <1>3, <3>1 DEF IsPart
    <3>3. IsPart(w, window, Len(window))
      BY <1>3, <3>2, WholeLines
    <3> HIDE DEF w
    <3> QED
      BY <1>2, <1>3, <3>1, <3>3, PartOfPart
  <2>2. CASE ~(start <= n)
    <3>1. Len(window) = 0 /\ window = <<>>
      BY <1>3, <2>2, EmptySeq
    <3>2. FromWholeLine(<<>>) = <<>>
      BY <3>1 DEF FromWholeLine
    <3>3. w = <<>>
      BY <3>1, <3>2
    <3> QED
      BY <1>2, <3>3, EmptyIsPart
  <2> QED
    BY <2>1, <2>2
<1>5. w \in Seq(Chunks) /\ pieces \in Seq(Seq(Chunks))
  BY <1>4, CutProperties DEF IsPart, IsCut
<1>6. Len(pieces) \in Nat /\ m \in Nat
  BY <1>1, <1>5, LenProperties
<1>7. ArePieces(kept) /\ \E at : EndAt(kept, s, 0, n, at)
  <2> HIDE DEF w, n, m
  <2> QED
    BY <1>2, <1>4, <1>6, PartDelivers
<1>8. IF Len(pieces) > KeepLines THEN Len(pieces) - KeepLines + 1 = m + 1 ELSE 1 = m + 1
  BY <1>1, <1>6
<1>9. \/ out' = out \o AsLines(kept, TRUE) /\ UNCHANGED faults
      \/ UNCHANGED out /\ faults < MaxFaults /\ faults' = faults + 1
  BY <1>8 DEF Backfill, Deliver, AsLines, n, start
<1> HIDE DEF kept
<1> QED
  BY <1>7, <1>9 DEF n
-----------------------------------------------------------------------------
(* The logs VRChat writes, and where the tailer is in them                 *)

\* A log has no more chunks than VRChat has written, and a half line leaves
\* room for its other half.
Logs ==
  /\ logs \in Seq(Seq(Chunks)) /\ Len(logs) <= MaxLogs /\ lines \in 0..MaxLines
  /\ \A f \in 1..Newest : Len(logs[f]) <= 2 * lines
  /\ Newest > 0 /\ HalfWritten => Len(logs[Newest]) < 2 * lines

\* A thread that reads has a file, one that is off has none.
Placed ==
  /\ pc = "off" => file = 0 /\ base = 0
  /\ pc \in {"backfill", "measure", "read"} => file # 0
  /\ pc = "backfill" => offset = liveFrom /\ carry = <<>>
  /\ NoNewline(carry)
  /\ ~attached => file = 0
  /\ rewrites = 0 => ~rewritten

Cursor ==
  /\ pc \in {"off", "pick", "backfill", "measure", "read"}
  /\ file \in 0..Newest /\ offset \in 0..(2 * MaxLines) /\ carry \in Seq(Chunks)
  /\ attached \in BOOLEAN /\ pending \in BOOLEAN /\ rewritten \in BOOLEAN
  /\ size \in 0..(2 * MaxLines)
  /\ out \in Seq(Outs)
  /\ file # 0 /\ ~rewritten => offset <= Len(logs[file])
  /\ liveFrom \in 0..offset /\ base \in 0..Len(out)
  /\ rewrites \in 0..MaxRewrites /\ started \in 0..MaxStarts /\ faults \in 0..MaxFaults

Typed == Logs /\ Cursor /\ Placed

LEMMA TypedIsTypeOK == Typed => TailerTypeOK
  BY DEF Typed, Logs, Cursor, TailerTypeOK, Outs

LEMMA LogIs ==
  ASSUME Logs, NEW f \in 1..Newest
  PROVE  logs[f] \in Seq(Chunks) /\ Len(logs[f]) \in 0..(2 * MaxLines)
<1>1. logs[f] \in Seq(Chunks)
  BY ElementOfSeq DEF Logs, Newest
<1>2. Len(logs[f]) \in Nat /\ Len(logs[f]) <= 2 * lines
  BY <1>1, LenProperties DEF Logs
<1>3. lines \in Nat /\ MaxLines \in Nat /\ lines <= MaxLines
  BY LogTailerAssumption DEF Logs
<1> QED
  BY <1>1, <1>2, <1>3

LEMMA NewestIs ==
  ASSUME Logs
  PROVE  Newest \in Nat
  BY LenProperties DEF Logs, Newest

\* What a flush adds.
Added(new) ==
  /\ new \in Seq(Chunks)
  /\ logs' = [logs EXCEPT ![Newest] = logs[Newest] \o new]
  /\ \/ /\ HalfWritten /\ lines' = lines
        /\ Len(new) = 1 /\ new[1] = Chunk(lines, 2)
     \/ /\ ~HalfWritten /\ lines' = lines + 1 /\ lines' \in 0..MaxLines
        /\ new[1] = Chunk(lines + 1, 1)
        /\ \/ Len(new) = 1
           \/ Len(new) = 2 /\ new[2] = Chunk(lines + 1, 2)

LEMMA FlushAdds ==
  ASSUME Logs, Flush
  PROVE  Newest \in 1..Newest /\ \E new : Added(new)
<1>1. Newest \in Nat /\ Newest > 0
  BY NewestIs DEF Flush
<1>2. logs[Newest] \in Seq(Chunks) /\ Len(logs[Newest]) \in Nat
  BY <1>1, LogIs
<1>3. lines \in Nat /\ MaxLines \in Nat /\ lines <= MaxLines
  BY LogTailerAssumption DEF Logs
<1>4. \A n, p : n \in 1..MaxLines /\ p \in {1, 2} => Chunk(n, p) \in Chunks
  BY DEF Chunk, Chunks
<1>5. CASE HalfWritten
  <2>1. lines \in 1..MaxLines
    BY <1>1, <1>2, <1>3, <1>5 DEF Logs
  <2>2. Chunk(lines, 2) \in Chunks
    BY <1>4, <2>1
  <2> DEFINE new == <<Chunk(lines, 2)>>
  <2>3. new \in Seq(Chunks) /\ Len(new) = 1 /\ new[1] = Chunk(lines, 2)
    BY <2>2
  <2>4. Append(logs[Newest], Chunk(lines, 2)) = logs[Newest] \o new
    BY <1>2, <2>2, AppendIsConcat
  <2>5. logs' = [logs EXCEPT ![Newest] = logs[Newest] \o new] /\ lines' = lines
    BY <1>5, <2>4 DEF Flush
  <2> HIDE DEF new
  <2>6. Added(new)
    BY <1>5, <2>3, <2>5 DEF Added
  <2> QED
    BY <1>1, <2>6
<1>6. CASE ~HalfWritten
  <2>1. PICK whole \in BOOLEAN :
          logs' = [logs EXCEPT ![Newest] = @ \o
                      IF whole THEN <<Chunk(lines + 1, 1), Chunk(lines + 1, 2)>>
                      ELSE <<Chunk(lines + 1, 1)>>]
    BY <1>6 DEF Flush
  <2>2. lines' = lines + 1 /\ lines < MaxLines
    BY <1>6 DEF Flush
  <2>3. Chunk(lines + 1, 1) \in Chunks /\ Chunk(lines + 1, 2) \in Chunks
    BY <1>3, <1>4, <2>2
  <2> DEFINE new == IF whole THEN <<Chunk(lines + 1, 1), Chunk(lines + 1, 2)>>
                    ELSE <<Chunk(lines + 1, 1)>>
  <2>4. /\ new \in Seq(Chunks) /\ new[1] = Chunk(lines + 1, 1)
        /\ \/ Len(new) = 1
           \/ Len(new) = 2 /\ new[2] = Chunk(lines + 1, 2)
    BY <2>3
  <2>5. logs' = [logs EXCEPT ![Newest] = logs[Newest] \o new]
    BY <2>1
  <2> HIDE DEF new
  <2>6. lines' \in 0..MaxLines
    BY <1>3, <2>2
  <2>7. Added(new)
    BY <1>6, <2>2, <2>4, <2>5, <2>6 DEF Added
  <2> QED
    BY <1>1, <2>7
<1> QED
  BY <1>5, <1>6

Extends(s, t) == Len(s) <= Len(t) /\ \A i \in 1..Len(s) : t[i] = s[i]

LEMMA FlushedLogs ==
  ASSUME Logs, NEW new, Added(new), Newest \in 1..Newest
  PROVE  /\ logs' \in Seq(Seq(Chunks)) /\ Len(logs') = Newest
         /\ logs'[Newest] = logs[Newest] \o new
         /\ logs'[Newest] \in Seq(Chunks)
         /\ Len(logs'[Newest]) = Len(logs[Newest]) + Len(new)
         /\ \A i \in 1..Len(logs[Newest]) : logs'[Newest][i] = logs[Newest][i]
         /\ \A i \in 1..Len(new) : logs'[Newest][Len(logs[Newest]) + i] = new[i]
         /\ \A f \in 1..Newest : f # Newest => logs'[f] = logs[f]
<1>1. logs[Newest] \in Seq(Chunks) /\ Len(logs[Newest]) \in Nat /\ new \in Seq(Chunks) /\ Len(new) \in Nat
  BY LogIs, LenProperties DEF Added
<1> DEFINE t == logs[Newest] \o new
<1>2. /\ t \in Seq(Chunks) /\ Len(t) = Len(logs[Newest]) + Len(new)
      /\ \A i \in 1..(Len(logs[Newest]) + Len(new)) :
           t[i] = IF i <= Len(logs[Newest]) THEN logs[Newest][i] ELSE new[i - Len(logs[Newest])]
  BY <1>1, ConcatProperties
<1> HIDE DEF t
<1>3. /\ logs' = [logs EXCEPT ![Newest] = t]
      /\ logs \in Seq(Seq(Chunks)) /\ Newest \in 1..Len(logs)
  BY DEF Added, t, Logs, Newest
<1>4. /\ logs' \in Seq(Seq(Chunks)) /\ Len(logs') = Len(logs)
      /\ \A f \in 1..Len(logs) : logs'[f] = IF f = Newest THEN t ELSE logs[f]
  BY <1>2, <1>3, ExceptSeq
<1>5. /\ \A i \in 1..Len(logs[Newest]) : t[i] = logs[Newest][i]
      /\ \A i \in 1..Len(new) : t[Len(logs[Newest]) + i] = new[i]
  <2> DEFINE k == Len(logs[Newest])
             s == logs[Newest]
             n == Len(new)
  <2>1. /\ k \in Nat /\ n \in Nat
        /\ \A i \in 1..(k + n) : t[i] = IF i <= k THEN s[i] ELSE new[i - k]
    BY <1>1, <1>2
  <2> HIDE DEF k, s, n
  <2>2. \A i \in 1..k : i \in 1..(k + n) /\ i <= k
    BY <2>1
  <2>3. \A i \in 1..n : k + i \in 1..(k + n) /\ ~(k + i <= k) /\ (k + i) - k = i
    BY <2>1
  <2>4. (\A i \in 1..k : t[i] = s[i]) /\ \A i \in 1..n : t[k + i] = new[i]
    BY <2>1, <2>2, <2>3
  <2> QED
    BY <2>4 DEF k, s, n
<1>6. Len(logs) = Newest
  BY DEF Newest
<1> QED
  BY <1>2, <1>3, <1>4, <1>5, <1>6 DEF t

LEMMA LogsGrow ==
  ASSUME Logs, Launch \/ Flush
  PROVE  Logs' /\ Newest <= Newest' /\ \A f \in 1..Newest : Extends(logs[f], logs'[f])
<1>1. Newest \in Nat /\ lines \in Nat /\ MaxLines \in Nat /\ logs \in Seq(Seq(Chunks))
  BY NewestIs, LogTailerAssumption DEF Logs
<1>2. \A f \in 1..Newest : logs[f] \in Seq(Chunks) /\ Len(logs[f]) \in Nat /\ Len(logs[f]) <= 2 * lines
  BY LogIs DEF Logs
<1>3. CASE Launch
  <2>1. logs' = Append(logs, <<>>) /\ lines' = lines /\ Newest < MaxLogs
    BY <1>3 DEF Launch
  <2>2. <<>> \in Seq(Chunks) /\ Len(<<>>) = 0
    BY EmptySeq
  <2>3. /\ logs' \in Seq(Seq(Chunks)) /\ Len(logs') = Newest + 1 /\ logs'[Newest + 1] = <<>>
        /\ \A f \in 1..Newest : logs'[f] = logs[f]
    BY <1>1, <2>1, <2>2, AppendProperties DEF Newest
  <2>4. \A f \in 1..(Newest + 1) : Len(logs'[f]) <= 2 * lines
    <3> TAKE f \in 1..(Newest + 1)
    <3>1. CASE f = Newest + 1
      BY <1>1, <2>2, <2>3, <3>1
    <3>2. CASE f \in 1..Newest
      BY <1>2, <2>3, <3>2
    <3> QED
      BY <1>1, <3>1, <3>2
  <2>5. Newest' = Newest + 1
    BY <2>3 DEF Newest
  <2>6. ~HalfWritten'
    BY <2>3, <2>5 DEF HalfWritten
  <2>7. Len(logs') <= MaxLogs
    BY <1>1, <2>1, <2>3, LogTailerAssumption
  <2>8. Logs'
    BY <2>1, <2>3, <2>4, <2>5, <2>6, <2>7 DEF Logs
  <2>9. \A f \in 1..Newest : Extends(logs[f], logs'[f])
    BY <1>2, <2>3 DEF Extends
  <2> QED
    BY <1>1, <2>5, <2>8, <2>9
<1>4. CASE Flush
  <2>1. Newest \in 1..Newest
    BY <1>4, FlushAdds
  <2>2. PICK new : Added(new)
    BY <1>4, FlushAdds
  <2>3. /\ logs' \in Seq(Seq(Chunks)) /\ Len(logs') = Newest
        /\ Len(logs'[Newest]) = Len(logs[Newest]) + Len(new)
        /\ \A i \in 1..Len(logs[Newest]) : logs'[Newest][i] = logs[Newest][i]
        /\ \A i \in 1..Len(new) : logs'[Newest][Len(logs[Newest]) + i] = new[i]
        /\ \A f \in 1..Newest : f # Newest => logs'[f] = logs[f]
    BY <2>1, <2>2, FlushedLogs
  <2>4. /\ lines' \in 0..MaxLines /\ lines <= lines' /\ Len(new) \in {1, 2}
        /\ Len(logs'[Newest]) <= 2 * lines'
    <3> DEFINE k == Len(logs[Newest])
               m == Len(logs'[Newest])
    <3>1. k \in Nat /\ k <= 2 * lines /\ m = k + Len(new)
      BY <1>2, <2>1, <2>3
    <3>2. HalfWritten => k < 2 * lines
      BY <1>1, <2>1 DEF Logs
    <3> HIDE DEF k, m
    <3>3. CASE HalfWritten /\ lines' = lines /\ Len(new) = 1
      BY <1>1, <3>1, <3>2, <3>3 DEF Logs, m
    <3>4. CASE lines' = lines + 1 /\ lines' \in 0..MaxLines /\ Len(new) \in {1, 2}
      <4>1. 2 * lines' = 2 * lines + 2 /\ lines <= lines'
        BY <1>1, <3>4
      <4>2. k + Len(new) <= 2 * lines + 2
        <5>1. k \in Nat /\ k <= 2 * lines /\ 2 * lines \in Nat
          BY <1>1, <3>1
        <5>2. CASE Len(new) = 1
          BY <5>1, <5>2
        <5>3. CASE Len(new) = 2
          BY <5>1, <5>3
        <5> QED
          BY <3>4, <5>2, <5>3
      <4> QED
        BY <3>1, <3>4, <4>1, <4>2 DEF m
    <3>5. \/ HalfWritten /\ lines' = lines /\ Len(new) = 1
          \/ lines' = lines + 1 /\ lines' \in 0..MaxLines /\ Len(new) \in {1, 2}
      BY <2>2 DEF Added
    <3> QED
      BY <3>3, <3>4, <3>5
  <2>5. Newest' = Newest
    BY <2>3 DEF Newest
  <2>6. \A f \in 1..Newest : Len(logs'[f]) <= 2 * lines'
    <3> TAKE f \in 1..Newest
    <3>1. CASE f = Newest
      BY <2>4, <3>1
    <3>2. CASE f # Newest
      <4>1. logs'[f] = logs[f]
        BY <2>3, <3>2
      <4>2. Len(logs'[f]) \in Nat /\ Len(logs'[f]) <= 2 * lines
        BY <1>2, <4>1
      <4>3. lines' \in Nat /\ lines <= lines'
        BY <2>4
      <4> QED
        BY <1>1, <4>2, <4>3
    <3> QED
      BY <3>1, <3>2
  <2>7. HalfWritten' => Len(logs'[Newest]) < 2 * lines'
    <3>1. CASE Len(new) = 1 /\ lines' = lines + 1
      BY <1>1, <1>2, <2>1, <2>3, <3>1
    <3>2. CASE Len(new) = 1 /\ lines' = lines
      <4>1. logs'[Newest][Len(logs'[Newest])] = Chunk(lines, 2)
        BY <1>1, <2>2, <2>3, <3>2 DEF Added
      <4> QED
        BY <2>5, <4>1 DEF HalfWritten, Last, Chunk
    <3>3. CASE Len(new) = 2
      <4>1. logs'[Newest][Len(logs'[Newest])] = Chunk(lines + 1, 2)
        BY <2>2, <2>3, <3>3 DEF Added
      <4> QED
        BY <2>5, <4>1 DEF HalfWritten, Last, Chunk
    <3> QED
      BY <2>2, <3>1, <3>2, <3>3 DEF Added
  <2>8. Logs'
    BY <2>3, <2>4, <2>5, <2>6, <2>7 DEF Logs, Newest
  <2>9. \A f \in 1..Newest : Extends(logs[f], logs'[f])
    <3> TAKE f \in 1..Newest
    <3>1. CASE f = Newest
      BY <1>2, <2>3, <2>4, <3>1 DEF Extends
    <3>2. CASE f # Newest
      BY <1>2, <2>3, <3>2 DEF Extends
    <3> QED
      BY <3>1, <3>2
  <2> QED
    BY <1>1, <2>5, <2>8, <2>9
<1> QED
  BY <1>3, <1>4

LEMMA TypedInit == TailerInit => Typed
<1> SUFFICES ASSUME TailerInit PROVE Typed
  OBVIOUS
<1>1. <<>> \in Seq(Seq(Chunks)) /\ <<>> \in Seq(Chunks) /\ <<>> \in Seq(Outs) /\ Len(<<>>) = 0
  BY EmptySeq
<1>2. Newest = 0 /\ NoNewline(carry)
  BY <1>1 DEF TailerInit, Newest, NoNewline
<1>3. Logs
  BY <1>1, <1>2, LogTailerAssumption DEF TailerInit, Logs
<1>4. Cursor
  <2>1. /\ 0 \in 0..(2 * MaxLines) /\ 0 \in 0..MaxRewrites /\ 0 \in 0..MaxStarts /\ 0 \in 0..MaxFaults
        /\ 0 \in 0..0
    BY LogTailerAssumption
  <2>2. /\ file = 0 /\ offset = 0 /\ carry = <<>> /\ size = 0 /\ out = <<>>
        /\ liveFrom = 0 /\ base = 0 /\ rewrites = 0 /\ started = 0 /\ faults = 0 /\ pc = "off"
    BY DEF TailerInit
  <2>3. attached \in BOOLEAN /\ pending \in BOOLEAN /\ rewritten \in BOOLEAN
    BY DEF TailerInit
  <2>4. file \in 0..Newest /\ base \in 0..Len(out) /\ liveFrom \in 0..offset
    BY <1>1, <1>2, <2>1, <2>2
  <2> QED
    BY <1>1, <2>1, <2>2, <2>3, <2>4 DEF Cursor
<1>5. Placed
  BY <1>2 DEF TailerInit, Placed
<1> QED
  BY <1>3, <1>4, <1>5 DEF Typed

LEMMA SameLogs ==
  ASSUME Logs, UNCHANGED vrchat
  PROVE  Logs' /\ Newest' = Newest
  BY DEF Logs, vrchat, Newest, HalfWritten

\* The numbers the cursor is made of.
LEMMA Numbers ==
  ASSUME Typed
  PROVE  /\ Newest \in Nat /\ file \in Nat /\ offset \in Nat /\ liveFrom \in Nat /\ size \in Nat
         /\ base \in Nat /\ Len(out) \in Nat /\ faults \in Nat /\ MaxFaults \in Nat
         /\ lines \in Nat /\ MaxLines \in Nat /\ 2 * MaxLines \in Nat
         /\ file # 0 => /\ file \in 1..Newest /\ logs[file] \in Seq(Chunks)
                        /\ Len(logs[file]) \in 0..(2 * MaxLines)
<1>1. Newest \in Nat /\ MaxLines \in Nat /\ MaxFaults \in Nat /\ Len(out) \in Nat
  BY NewestIs, LogTailerAssumption, LenProperties DEF Typed, Cursor
<1>2. 2 * MaxLines \in Nat
  BY <1>1
<1>3. /\ file \in Nat /\ offset \in Nat /\ liveFrom \in Nat /\ size \in Nat
      /\ base \in Nat /\ faults \in Nat /\ lines \in Nat
  BY <1>1, <1>2 DEF Typed, Cursor, Logs
<1>4. file # 0 => file \in 1..Newest
  BY <1>1 DEF Typed, Cursor
<1> QED
  BY <1>1, <1>2, <1>3, <1>4, LogIs DEF Typed

LEMMA TypedGrows ==
  ASSUME Typed, Launch \/ Flush
  PROVE  Typed'
<1>1. Logs' /\ Newest <= Newest' /\ \A f \in 1..Newest : Extends(logs[f], logs'[f])
  BY LogsGrow DEF Typed
<1>2. Newest' \in Nat
  <2>1. logs' \in Seq(Seq(Chunks))
    BY <1>1 DEF Logs
  <2> QED
    BY <2>1, LenProperties DEF Newest
<1>3. UNCHANGED <<pc, cursor, flags, size, out, liveFrom, base, started, faults, rewrites, rewritten>>
  BY DEF Launch, Flush, Idle
<1>4. file' \in 0..Newest'
  BY <1>1, <1>2, <1>3, Numbers DEF Typed, Cursor, cursor
<1>5. file' # 0 /\ ~rewritten' => offset' <= Len(logs'[file'])
  <2> SUFFICES ASSUME file # 0, ~rewritten PROVE offset <= Len(logs'[file])
    BY <1>3 DEF cursor
  <2>1. offset <= Len(logs[file]) /\ Extends(logs[file], logs'[file])
    BY <1>1, Numbers DEF Typed, Cursor
  <2>2. logs'[file] \in Seq(Chunks)
    <3>1. logs' \in Seq(Seq(Chunks)) /\ file \in 1..Len(logs')
      BY <1>1, <1>2, Numbers DEF Logs, Newest
    <3> QED
      BY <3>1, ElementOfSeq
  <2> QED
    BY <2>1, <2>2, Numbers, LenProperties DEF Extends
<1>6. Cursor'
  BY <1>3, <1>4, <1>5 DEF Typed, Cursor, cursor, flags
<1>7. Placed'
  BY <1>3 DEF Typed, Placed, cursor, flags
<1> QED
  BY <1>1, <1>6, <1>7 DEF Typed

LEMMA RewrittenLogs ==
  ASSUME Logs, Rewrite
  PROVE  /\ Logs' /\ Newest' = Newest /\ Newest \in 1..Newest
         /\ logs'[Newest] = <<>> /\ \A f \in 1..Newest : f # Newest => logs'[f] = logs[f]
<1>1. Newest \in 1..Newest /\ logs \in Seq(Seq(Chunks)) /\ lines \in Nat
  BY NewestIs, LogTailerAssumption DEF Rewrite, Logs
<1>2. <<>> \in Seq(Chunks) /\ Len(<<>>) = 0
  BY EmptySeq
<1>3. /\ logs' \in Seq(Seq(Chunks)) /\ Len(logs') = Len(logs)
      /\ \A f \in 1..Len(logs) : logs'[f] = IF f = Newest THEN <<>> ELSE logs[f]
  BY <1>1, <1>2, ExceptSeq DEF Rewrite, Newest
<1>4. Newest' = Newest /\ logs'[Newest] = <<>>
  BY <1>1, <1>3 DEF Newest
<1>5. \A f \in 1..Newest : f # Newest => logs'[f] = logs[f]
  BY <1>3 DEF Newest
<1>6. ~HalfWritten'
  BY <1>4 DEF HalfWritten
<1>7. \A f \in 1..Newest : Len(logs'[f]) <= 2 * lines
  <2> TAKE f \in 1..Newest
  <2>1. CASE f = Newest
    BY <1>1, <1>2, <1>4, <2>1
  <2>2. CASE f # Newest
    BY <1>5, <2>2 DEF Logs
  <2> QED
    BY <2>1, <2>2
<1>8. Logs'
  BY <1>3, <1>4, <1>6, <1>7 DEF Logs, Rewrite
<1> QED
  BY <1>1, <1>4, <1>5, <1>8

LEMMA TypedRewrite ==
  ASSUME Typed, Rewrite
  PROVE  Typed'
<1>1. /\ Logs' /\ Newest' = Newest /\ Newest \in 1..Newest
      /\ logs'[Newest] = <<>> /\ \A f \in 1..Newest : f # Newest => logs'[f] = logs[f]
  BY RewrittenLogs DEF Typed
<1>2. /\ UNCHANGED <<pc, cursor, flags, size, out, liveFrom, base, started, faults>>
      /\ rewrites' = rewrites + 1 /\ rewrites < MaxRewrites
      /\ rewritten' = (rewritten \/ (file = Newest /\ offset > 0))
  BY DEF Rewrite, Idle
<1>3. rewrites' \in 0..MaxRewrites /\ rewrites' # 0
  BY <1>2, LogTailerAssumption DEF Typed, Cursor
<1>4. rewritten' \in BOOLEAN
  BY <1>2
<1>5. file' # 0 /\ ~rewritten' => offset' <= Len(logs'[file'])
  <2> SUFFICES ASSUME file # 0, ~rewritten, ~(file = Newest /\ offset > 0)
               PROVE  offset <= Len(logs'[file])
    BY <1>2 DEF cursor
  <2>1. CASE file = Newest
    <3>1. offset = 0 /\ Len(logs'[file]) = 0
      BY <1>1, <2>1, Numbers, EmptySeq
    <3> QED
      BY <3>1
  <2>2. CASE file # Newest
    BY <1>1, <2>2, Numbers DEF Typed, Cursor
  <2> QED
    BY <2>1, <2>2
<1>6. Cursor'
  BY <1>1, <1>2, <1>3, <1>4, <1>5 DEF Typed, Cursor, cursor, flags
<1>7. Placed'
  BY <1>2, <1>3 DEF Typed, Placed, cursor, flags
<1> QED
  BY <1>1, <1>6, <1>7 DEF Typed

LEMMA NothingCarried == <<>> \in Seq(Chunks) /\ NoNewline(<<>>) /\ <<>> \in Seq(Outs) /\ Len(<<>>) = 0
  BY EmptySeq DEF NoNewline

LEMMA TypedStartStop ==
  ASSUME Typed, StartTailer \/ StopTailer \/ PickSame \/ MeasureFails
  PROVE  Typed'
<1>1. UNCHANGED vrchat
  BY DEF StartTailer, StopTailer, PickSame, MeasureFails
<1>2. Logs' /\ Newest' = Newest
  BY <1>1, SameLogs DEF Typed
<1>3. UNCHANGED <<logs, rewrites>>
  BY <1>1 DEF vrchat
<1>4. CASE StartTailer
  <2>1. started' \in 0..MaxStarts
    BY <1>4, LogTailerAssumption DEF StartTailer, Typed, Cursor
  <2>2. base = 0 /\ base \in 0..0
    BY <1>4 DEF StartTailer, Typed, Placed
  <2>3. Cursor'
    BY <1>2, <1>3, <1>4, <2>1, <2>2, NothingCarried
       DEF StartTailer, Typed, Cursor, cursor, flags, history
  <2>4. Placed'
    BY <1>3, <1>4 DEF StartTailer, Typed, Placed, cursor, flags, history
  <2> QED
    BY <1>2, <2>3, <2>4 DEF Typed
<1>5. CASE StopTailer
  <2>1. Cursor'
    <3>1. 0 \in 0..Newest /\ 0 \in 0..(2 * MaxLines) /\ 0 \in 0..0
      BY Numbers
    <3> QED
      BY <1>2, <1>3, <1>5, <3>1, NothingCarried DEF StopTailer, Typed, Cursor
  <2>2. Placed'
    BY <1>3, <1>5, NothingCarried DEF StopTailer, Typed, Placed
  <2> QED
    BY <1>2, <2>1, <2>2 DEF Typed
<1>6. CASE PickSame
  <2>1. Cursor'
    BY <1>2, <1>3, <1>6 DEF PickSame, Typed, Cursor, cursor, flags, history
  <2>2. Placed'
    BY <1>3, <1>6, Numbers DEF PickSame, Typed, Placed, cursor, flags, history
  <2> QED
    BY <1>2, <2>1, <2>2 DEF Typed
<1>7. CASE MeasureFails
  <2>1. faults' \in 0..MaxFaults
    BY <1>7, Numbers DEF MeasureFails
  <2>2. Cursor'
    BY <1>2, <1>3, <1>7, <2>1 DEF MeasureFails, Typed, Cursor, cursor, flags, history
  <2>3. Placed'
    BY <1>3, <1>7 DEF MeasureFails, Typed, Placed, cursor, flags, history
  <2> QED
    BY <1>2, <2>2, <2>3 DEF Typed
<1> QED
  BY <1>4, <1>5, <1>6, <1>7

LEMMA TypedAttach ==
  ASSUME Typed, FirstAttach \/ Switch
  PROVE  Typed'
<1>1. UNCHANGED vrchat /\ pc = "pick" /\ Newest > 0
  BY DEF FirstAttach, Switch
<1>2. Logs' /\ Newest' = Newest /\ UNCHANGED <<logs, rewrites>>
  BY <1>1, SameLogs DEF Typed, vrchat
<1>3. /\ Newest \in 1..Newest /\ Newest \in 0..Newest /\ Len(out) \in 0..Len(out)
      /\ Len(logs[Newest]) \in 0..(2 * MaxLines) /\ 0 \in 0..(2 * MaxLines)
      /\ logs[Newest] \in Seq(Chunks) /\ Newest # 0
  <2>1. Newest \in 1..Newest
    BY <1>1, Numbers
  <2> QED
    BY <2>1, Numbers, LogIs DEF Typed
<1>4. \A n \in 0..Len(logs[Newest]) : n <= Len(logs[Newest]) /\ n \in 0..n /\ n \in 0..(2 * MaxLines)
  BY <1>3, Numbers
<1>5. /\ file' = Newest /\ attached' = TRUE /\ pending' \in BOOLEAN
      /\ pc' \in {"backfill", "measure"}
      /\ UNCHANGED <<size, out, started>>
      /\ \E n \in 0..Len(logs[Newest]) : BeginsAt(n)
  <2>1. 0 \in 0..Len(logs[Newest]) /\ Len(logs[Newest]) \in 0..Len(logs[Newest])
    BY <1>3, Numbers
  <2>2. CASE FirstAttach
    BY <2>1, <2>2 DEF FirstAttach, Typed, Cursor
  <2>3. CASE Switch
    BY <2>1, <2>3 DEF Switch, Typed, Cursor, flags
  <2> QED
    BY <2>2, <2>3
<1>6. faults' \in 0..MaxFaults
  <2>1. \/ faults' = faults
        \/ faults < MaxFaults /\ faults' = faults + 1
    BY DEF FirstAttach, Switch
  <2> QED
    BY <2>1, Numbers DEF Typed, Cursor
<1>7. PICK n \in 0..Len(logs[Newest]) : BeginsAt(n)
  BY <1>5
<1>8. /\ offset' = n /\ liveFrom' = n /\ base' = Len(out) /\ carry' = <<>> /\ rewritten' = FALSE
      /\ n <= Len(logs[Newest]) /\ n \in 0..n /\ n \in 0..(2 * MaxLines)
  BY <1>4, <1>7 DEF BeginsAt
<1>9. Cursor'
  BY <1>2, <1>3, <1>5, <1>6, <1>8, NothingCarried DEF Typed, Cursor
<1>10. Placed'
  BY <1>3, <1>5, <1>8, NothingCarried DEF Placed
<1> QED
  BY <1>2, <1>9, <1>10 DEF Typed

LEMMA Delivering ==
  ASSUME out \in Seq(Outs), NEW pieces, ArePieces(pieces), NEW b \in BOOLEAN
  PROVE  LET new == out \o AsLines(pieces, b) IN
         /\ new \in Seq(Outs) /\ Len(new) = Len(out) + Len(pieces)
         /\ Len(pieces) \in Nat /\ Len(out) \in Nat
         /\ \A i \in 1..Len(out) : new[i] = out[i]
         /\ \A i \in 1..Len(pieces) : /\ new[Len(out) + i].text = pieces[i]
                                      /\ new[Len(out) + i].backfill = b
<1> DEFINE new == out \o AsLines(pieces, b)
           k == Len(out)
           n == Len(pieces)
<1>1. pieces \in Seq(Seq(Chunks)) /\ n \in Nat /\ k \in Nat
  BY LenProperties DEF ArePieces
<1>2. /\ AsLines(pieces, b) \in Seq(Outs) /\ Len(AsLines(pieces, b)) = n
      /\ \A i \in 1..n : AsLines(pieces, b)[i].text = pieces[i] /\ AsLines(pieces, b)[i].backfill = b
  BY <1>1, LinesAre
<1>3. /\ new \in Seq(Outs) /\ Len(new) = k + n
      /\ \A i \in 1..(k + n) : new[i] = IF i <= k THEN out[i] ELSE AsLines(pieces, b)[i - k]
  <2> DEFINE l == AsLines(pieces, b)
  <2>1. l \in Seq(Outs) /\ Len(l) = n
    BY <1>2
  <2> HIDE DEF l
  <2>2. /\ out \o l \in Seq(Outs) /\ Len(out \o l) = Len(out) + Len(l)
        /\ \A i \in 1..(Len(out) + Len(l)) :
             (out \o l)[i] = IF i <= Len(out) THEN out[i] ELSE l[i - Len(out)]
    BY <2>1, ConcatProperties
  <2> QED
    BY <2>1, <2>2 DEF l
<1> HIDE DEF new, k, n
<1>4. \A i \in 1..k : new[i] = out[i]
  BY <1>1, <1>3
<1>5. \A i \in 1..n : new[k + i] = AsLines(pieces, b)[i]
  <2> TAKE i \in 1..n
  <2>1. k + i \in 1..(k + n) /\ ~(k + i <= k) /\ (k + i) - k = i
    BY <1>1
  <2> QED
    BY <1>3, <2>1
<1>6. \A i \in 1..n : new[k + i].text = pieces[i] /\ new[k + i].backfill = b
  BY <1>2, <1>5
<1> QED
  BY <1>1, <1>3, <1>4, <1>6 DEF new, k, n

LEMMA TypedBackfill ==
  ASSUME Typed, Backfill
  PROVE  Typed'
<1>1. /\ UNCHANGED <<vrchat, cursor, attached, size, liveFrom, rewritten, started>>
      /\ pc = "backfill" /\ pc' = "measure" /\ pending' = FALSE /\ base' = Len(out')
  BY DEF Backfill
<1>2. Logs' /\ Newest' = Newest /\ UNCHANGED <<logs, rewrites>>
  BY <1>1, SameLogs DEF Typed, vrchat
<1>3. file # 0 /\ logs[file] \in Seq(Chunks) /\ offset \in Nat
  BY <1>1, Numbers DEF Typed, Placed
<1>4. PICK kept : /\ ArePieces(kept)
                  /\ \/ out' = out \o AsLines(kept, TRUE) /\ UNCHANGED faults
                     \/ UNCHANGED out /\ faults < MaxFaults /\ faults' = faults + 1
  BY <1>3, BackfillDelivers
<1>5. out' \in Seq(Outs)
  <2>1. out \in Seq(Outs) /\ TRUE \in BOOLEAN
    BY DEF Typed, Cursor
  <2>2. out \o AsLines(kept, TRUE) \in Seq(Outs)
    BY <1>4, <2>1, Delivering
  <2> QED
    BY <1>4, <2>1, <2>2
<1>6. faults' \in 0..MaxFaults
  <2>1. \/ faults' = faults
        \/ faults < MaxFaults /\ faults' = faults + 1
    BY <1>4
  <2> QED
    BY <2>1, Numbers DEF Typed, Cursor
<1>7. base' \in 0..Len(out')
  BY <1>1, <1>5, LenProperties
<1>8. Cursor'
  BY <1>1, <1>2, <1>5, <1>6, <1>7 DEF Typed, Cursor, cursor
<1>9. Placed'
  BY <1>1, <1>2, <1>3 DEF Typed, Placed, cursor
<1> QED
  BY <1>2, <1>8, <1>9 DEF Typed

LEMMA TypedMeasure ==
  ASSUME Typed, Measure
  PROVE  Typed'
<1>1. /\ UNCHANGED <<vrchat, file, flags, out, started, faults>>
      /\ pc = "measure" /\ pc' \in {"pick", "read"} /\ size' = Len(logs[file])
  BY DEF Measure
<1>2. Logs' /\ Newest' = Newest /\ UNCHANGED <<logs, rewrites>>
  BY <1>1, SameLogs DEF Typed, vrchat
<1>3. file # 0 /\ Len(logs[file]) \in 0..(2 * MaxLines) /\ 0 <= Len(logs[file])
  BY <1>1, Numbers DEF Typed, Placed
<1>4. CASE size' < offset /\ BeginsAt(0)
  <2>1. /\ offset' = 0 /\ liveFrom' = 0 /\ base' = Len(out) /\ carry' = <<>> /\ rewritten' = FALSE
        /\ 0 \in 0..(2 * MaxLines) /\ 0 \in 0..0 /\ Len(out) \in 0..Len(out)
    BY <1>4, Numbers DEF BeginsAt
  <2>2. Cursor'
    BY <1>1, <1>2, <1>3, <2>1, NothingCarried DEF Typed, Cursor, flags
  <2>3. Placed'
    BY <1>1, <1>2, <1>3, <2>1, NothingCarried DEF Typed, Placed, flags
  <2> QED
    BY <1>2, <2>2, <2>3 DEF Typed
<1>5. CASE size' >= offset /\ UNCHANGED <<offset, carry, history>>
  <2>1. Cursor'
    BY <1>1, <1>2, <1>3, <1>5 DEF Typed, Cursor, flags, history
  <2>2. Placed'
    BY <1>1, <1>2, <1>3, <1>5 DEF Typed, Placed, flags, history
  <2> QED
    BY <1>2, <2>1, <2>2 DEF Typed
<1> QED
  BY <1>4, <1>5 DEF Measure

LEMMA TypedRead ==
  ASSUME Typed, Read
  PROVE  Typed'
<1> DEFINE parts == Cut(carry \o Bytes)
           s == logs[file]
<1>1. /\ UNCHANGED <<vrchat, file, flags, size, history, started, faults>>
      /\ pc = "read" /\ pc' \in {"pick", "read"}
      /\ carry' = parts.rest /\ offset' = offset + Len(Bytes) /\ out' = out \o AsLines(parts.pieces, FALSE)
  BY DEF Read, Deliver, AsLines
<1>2. Logs' /\ Newest' = Newest /\ UNCHANGED <<logs, rewrites>>
  BY <1>1, SameLogs DEF Typed, vrchat
<1>3. file # 0 /\ s \in Seq(Chunks) /\ offset \in Nat /\ size \in Nat /\ Len(s) \in 0..(2 * MaxLines)
  BY <1>1, Numbers DEF Typed, Placed
<1>4. carry \in Seq(Chunks) /\ NoNewline(carry)
  BY DEF Typed, Cursor, Placed
<1>5. ArePieces(parts.pieces) /\ parts.rest \in Seq(Chunks) /\ NoNewline(parts.rest)
  BY <1>3, <1>4, ReadDelivers
<1>6. /\ Len(Bytes) \in Nat /\ (offset <= Len(s) => offset + Len(Bytes) <= Len(s))
      /\ offset + Len(Bytes) <= size \/ Bytes = <<>>
  BY <1>3, BytesAre
<1> HIDE DEF parts
<1>7. /\ out' \in Seq(Outs) /\ Len(out') = Len(out) + Len(parts.pieces)
      /\ Len(parts.pieces) \in Nat /\ Len(out) \in Nat
  BY <1>1, <1>5, Delivering DEF Typed, Cursor
<1>8. offset' \in 0..(2 * MaxLines)
  <2>1. offset + Len(Bytes) <= size \/ offset' = offset
    BY <1>1, <1>3, <1>6, NothingCarried
  <2> QED
    BY SMTT(30), <1>1, <1>3, <1>6, <2>1, Numbers DEF Typed, Cursor
<1>9. liveFrom \in 0..offset' /\ base \in 0..Len(out')
  <2>1. liveFrom \in 0..offset /\ base \in 0..Len(out)
    BY DEF Typed, Cursor
  <2>2. offset' \in Nat /\ offset <= offset'
    BY <1>1, <1>3, <1>6
  <2>3. Len(out') \in Nat /\ Len(out) <= Len(out')
    BY <1>7
  <2> QED
    BY <1>3, <1>7, <2>1, <2>2, <2>3
<1>10. file # 0 /\ ~rewritten => offset' <= Len(s)
  BY <1>1, <1>6 DEF Typed, Cursor
<1>11. Cursor'
  BY <1>1, <1>2, <1>5, <1>7, <1>8, <1>9, <1>10 DEF Typed, Cursor, flags, history
<1>12. Placed'
  BY <1>1, <1>2, <1>3, <1>5 DEF Typed, Placed, flags, history
<1> QED
  BY <1>2, <1>11, <1>12 DEF Typed

LEMMA FirstPieces ==
  ASSUME NEW pieces, ArePieces(pieces), NEW n \in 0..Len(pieces)
  PROVE  ArePieces(SubSeq(pieces, 1, n))
<1>1. pieces \in Seq(Seq(Chunks)) /\ Len(pieces) \in Nat
  BY LenProperties DEF ArePieces
<1>2. n \in Nat /\ n <= Len(pieces) /\ 0 \in Nat /\ 0 + 1 = 1 /\ 0 <= n /\ n - 0 = n
  BY <1>1
<1> DEFINE part == SubSeq(pieces, 0 + 1, n)
<1>3. /\ part \in Seq(Seq(Chunks)) /\ Len(part) = n
      /\ \A i \in 1..Len(part) : part[i] = pieces[0 + i]
  BY <1>1, <1>2, PartOf
<1>4. part = SubSeq(pieces, 1, n)
  BY <1>2
<1> HIDE DEF part
<1>5. \A i \in 1..Len(part) : i \in 1..Len(pieces) /\ 0 + i = i
  BY <1>1, <1>2, <1>3
<1>6. ArePieces(part)
  BY <1>3, <1>5 DEF ArePieces
<1> QED
  BY <1>4, <1>6

LEMMA TypedHiccup ==
  ASSUME Typed, Hiccup
  PROVE  Typed'
<1> DEFINE pieces == Cut(carry \o Bytes).pieces
<1>1. /\ UNCHANGED <<vrchat, flags, size, started>> /\ pc = "read" /\ pc' = "pick"
      /\ faults < MaxFaults /\ faults' = faults + 1
      /\ file' = 0 /\ offset' = 0 /\ carry' = <<>>
      /\ liveFrom' = 0 /\ base' = Len(out') /\ rewritten' = FALSE
      /\ \E n \in 0..Len(pieces) : out' = out \o AsLines(SubSeq(pieces, 1, n), FALSE)
  BY DEF Hiccup, Deliver, AsLines
<1>2. Logs' /\ Newest' = Newest /\ UNCHANGED <<logs, rewrites>>
  BY <1>1, SameLogs DEF Typed, vrchat
<1>3. file # 0 /\ logs[file] \in Seq(Chunks) /\ offset \in Nat /\ size \in Nat
  BY <1>1, Numbers DEF Typed, Placed
<1>4. carry \in Seq(Chunks) /\ NoNewline(carry) /\ out \in Seq(Outs)
  BY DEF Typed, Cursor, Placed
<1>5. ArePieces(pieces)
  BY <1>3, <1>4, ReadDelivers
<1> HIDE DEF pieces
<1>6. out' \in Seq(Outs)
  <2>1. PICK n \in 0..Len(pieces) : out' = out \o AsLines(SubSeq(pieces, 1, n), FALSE)
    BY <1>1
  <2>2. ArePieces(SubSeq(pieces, 1, n)) /\ FALSE \in BOOLEAN
    BY <1>5, FirstPieces
  <2>3. out \o AsLines(SubSeq(pieces, 1, n), FALSE) \in Seq(Outs)
    BY <1>4, <2>2, Delivering
  <2> QED
    BY <2>1, <2>3
<1>7. faults' \in 0..MaxFaults /\ 0 \in 0..Newest /\ 0 \in 0..(2 * MaxLines) /\ 0 \in 0..0
  BY <1>1, Numbers
<1>8. base' \in 0..Len(out')
  <2>1. Len(out') \in Nat
    BY <1>6, LenProperties
  <2>2. base' = Len(out')
    BY <1>1
  <2> QED
    BY <2>1, <2>2
<1>9. Cursor'
  BY <1>1, <1>2, <1>6, <1>7, <1>8, NothingCarried DEF Typed, Cursor, flags
<1>10. Placed'
  BY <1>1, <1>2, NothingCarried DEF Typed, Placed, flags
<1> QED
  BY <1>2, <1>9, <1>10 DEF Typed

LEMMA TypedNext ==
  ASSUME Typed, [TailerNext]_tailerVars
  PROVE  Typed'
<1>1. CASE UNCHANGED tailerVars
  BY <1>1 DEF tailerVars, vrchat, cursor, flags, history, Typed, Logs, Cursor, Placed, Newest,
              HalfWritten, NoNewline
<1>2. CASE TailerNext
  BY <1>2, TypedGrows, TypedRewrite, TypedStartStop, TypedAttach, TypedBackfill, TypedMeasure,
     TypedRead, TypedHiccup DEF TailerNext, Tick
<1> QED
  BY <1>1, <1>2

LEMMA AlwaysTyped == TailerSpec => []Typed
<1>1. TailerInit => Typed
  BY TypedInit
<1>2. Typed /\ [TailerNext]_tailerVars => Typed'
  BY TypedNext
<1> QED
  BY <1>1, <1>2, PTL DEF TailerSpec

(***************************************************************************)
(* The tailer keeps its types, and m_offset stays inside the log it was    *)
(* set in: ReadNewBytes, OnFileSwitched and Stop never leave a cursor that *)
(* belongs to another file, whatever VRChat writes meanwhile.              *)
(***************************************************************************)
THEOREM TailerTypes == TailerSpec => []TailerTypeOK
  BY AlwaysTyped, TypedIsTypeOK, PTL
-----------------------------------------------------------------------------
(* Live reading is exact                                                   *)

Texts(n) == [i \in 1..(Len(out) - n) |-> out[n + i].text]

\* What is delivered live since the reading of the file began, and what is
\* carried over.
Exact ==
  file # 0 /\ ~rewritten =>
    /\ FlattenSeq(Texts(base)) \o carry = SubSeq(logs[file], liveFrom + 1, offset)
    /\ \A i \in (base+1)..Len(out) : ~out[i].backfill /\ IsPiece(out[i].text)

LEMMA TextsAre ==
  ASSUME out \in Seq(Outs), NEW n \in 0..Len(out)
  PROVE  /\ Texts(n) \in Seq(Seq(Chunks)) /\ Len(Texts(n)) = Len(out) - n
         /\ \A i \in 1..(Len(out) - n) : Texts(n)[i] = out[n + i].text
<1>1. Len(out) \in Nat
  BY LenProperties
<1>2. \A i \in 1..(Len(out) - n) : n + i \in 1..Len(out)
  BY <1>1
<1>3. \A i \in 1..Len(out) : out[i].text \in Seq(Chunks)
  <2>1. \A i \in 1..Len(out) : out[i] \in Outs
    BY ElementOfSeq
  <2> QED
    BY <2>1 DEF Outs
<1>4. Texts(n) \in [1..(Len(out) - n) -> Seq(Chunks)]
  BY <1>2, <1>3 DEF Texts
<1>5. Len(out) - n \in Nat
  BY <1>1
<1>6. Texts(n) \in Seq(Seq(Chunks)) /\ Len(Texts(n)) = Len(out) - n
  BY <1>4, <1>5, SeqFromFunction
<1> QED
  BY <1>6 DEF Texts

LEMMA ExactIsLiveIsExact ==
  ASSUME Typed, Exact
  PROVE  LiveIsExact
<1> SUFFICES ASSUME file # 0, ~rewritten
             PROVE  /\ FlattenSeq([i \in 1..Len(Live) |-> Live[i].text]) \o carry
                         = SubSeq(logs[file], liveFrom + 1, offset)
                    /\ \A i \in 1..Len(Live) : ~Live[i].backfill /\ IsPiece(Live[i].text)
                    /\ \A i \in 1..Len(carry) : carry[i].part = 1
  BY DEF LiveIsExact
<1>1. base \in 0..Len(out) /\ out \in Seq(Outs) /\ base \in Nat /\ Len(out) \in Nat
  BY Numbers DEF Typed, Cursor
<1>2. /\ Len(Live) = Len(out) - base
      /\ \A i \in 1..Len(Live) : Live[i] = out[base + i]
  BY <1>1, PartOf DEF Live
<1>3. [i \in 1..Len(Live) |-> Live[i].text] = Texts(base)
  BY <1>2 DEF Texts
<1>4. \A i \in 1..Len(Live) : base + i \in (base+1)..Len(out)
  BY <1>1, <1>2
<1>5. \A i \in 1..Len(carry) : carry[i].part = 1
  BY DEF Typed, Placed, NoNewline
<1> QED
  BY <1>2, <1>3, <1>4, <1>5 DEF Exact

\* Where a reading begins nothing has been delivered from it.
LEMMA ExactFromHere ==
  ASSUME out' \in Seq(Outs), base' = Len(out'), carry' = <<>>, offset' = liveFrom', liveFrom' \in Nat
  PROVE  Exact'
<1>1. Len(out') \in Nat /\ Len(out') - base' = 0
  BY LenProperties
<1>2. Texts(base)' = <<>>
  <2>1. Texts(base)' = [i \in 1..0 |-> out'[base' + i].text]
    BY <1>1 DEF Texts
  <2>2. Texts(base)' \in [1..0 -> Seq(Chunks)] /\ 0 \in Nat
    BY <2>1
  <2>3. Texts(base)' \in Seq(Seq(Chunks)) /\ Len(Texts(base)') = 0
    BY <2>2, SeqFromFunction
  <2> QED
    BY <2>3, EmptySeq
<1>3. FlattenSeq(Texts(base)') \o carry' = <<>>
  BY <1>2, FlattenEmpty, NothingCarried, ConcatEmptySeq
<1>4. SubSeq(logs'[file'], liveFrom' + 1, offset') = <<>>
  <2>1. \A n \in Nat : n + 1 \in Int /\ n \in Int /\ n < n + 1
    OBVIOUS
  <2>2. SubSeq(logs'[file'], liveFrom' + 1, liveFrom') = <<>>
    BY <2>1, SubSeqEmpty
  <2> QED
    BY <2>2
<1>5. (base'+1)..Len(out') = {}
  BY <1>1
<1> QED
  BY <1>3, <1>4, <1>5 DEF Exact

\* The chunks between the beginning of the reading and m_offset are what counts.
LEMMA ExactSameChunks ==
  ASSUME Exact, UNCHANGED <<file, out, base, carry, liveFrom, offset>>, ~rewritten' => ~rewritten,
         file # 0 /\ ~rewritten' =>
           SubSeq(logs'[file], liveFrom + 1, offset) = SubSeq(logs[file], liveFrom + 1, offset)
  PROVE  Exact'
  BY DEF Exact, Texts

LEMMA SameSubSeq ==
  ASSUME NEW s \in Seq(Chunks), NEW t \in Seq(Chunks), Extends(s, t),
         NEW m \in Nat, NEW n \in Nat, n <= Len(s)
  PROVE  SubSeq(t, m + 1, n) = SubSeq(s, m + 1, n)
<1>1. Len(s) \in Nat /\ Len(t) \in Nat /\ n <= Len(t) /\ \A i \in 1..Len(s) : t[i] = s[i]
  BY LenProperties DEF Extends
<1> DEFINE a == SubSeq(s, m + 1, n)
           b == SubSeq(t, m + 1, n)
           k == IF m <= n THEN n - m ELSE 0
<1>2. /\ a \in Seq(Chunks) /\ Len(a) = k /\ \A i \in 1..Len(a) : a[i] = s[m + i]
      /\ b \in Seq(Chunks) /\ Len(b) = k /\ \A i \in 1..Len(b) : b[i] = t[m + i]
  BY <1>1, PartOf
<1>3. \A i \in 1..k : m + i \in 1..Len(s)
  BY <1>1
<1> HIDE DEF a, b, k
<1>4. \A i \in 1..k : a[i] = b[i]
  BY <1>1, <1>2, <1>3
<1>5. a = b
  BY <1>2, <1>4, SeqEqual
<1> QED
  BY <1>5 DEF a, b

LEMMA ExactGrows ==
  ASSUME Typed, Exact, Launch \/ Flush
  PROVE  Exact'
<1>1. /\ UNCHANGED <<file, out, base, carry, liveFrom, offset, rewritten>>
  BY DEF Launch, Flush, Idle, cursor
<1>2. ASSUME file # 0, ~rewritten
      PROVE  SubSeq(logs'[file], liveFrom + 1, offset) = SubSeq(logs[file], liveFrom + 1, offset)
  <2>1. /\ file \in 1..Newest /\ logs[file] \in Seq(Chunks)
        /\ liveFrom \in Nat /\ offset \in Nat /\ Newest \in Nat
    BY <1>2, Numbers
  <2>2. Logs' /\ Newest <= Newest' /\ Extends(logs[file], logs'[file])
    BY <2>1, LogsGrow DEF Typed
  <2>3. logs'[file] \in Seq(Chunks)
    <3>1. logs' \in Seq(Seq(Chunks)) /\ Newest' \in Nat /\ Newest' = Len(logs')
      BY <2>2, LenProperties DEF Logs, Newest
    <3>2. file \in 1..Len(logs')
      BY <2>1, <2>2, <3>1
    <3> QED
      BY <3>1, <3>2, ElementOfSeq
  <2>4. offset <= Len(logs[file])
    BY <1>2 DEF Typed, Cursor
  <2> QED
    BY <2>1, <2>2, <2>3, <2>4, SameSubSeq
<1> QED
  BY <1>1, <1>2, ExactSameChunks

LEMMA ExactRewrite ==
  ASSUME Typed, Exact, Rewrite
  PROVE  Exact'
<1>1. /\ UNCHANGED <<file, out, base, carry, liveFrom, offset>>
      /\ rewritten' = (rewritten \/ (file = Newest /\ offset > 0))
  BY DEF Rewrite, Idle, cursor
<1>2. ASSUME file # 0, ~rewritten'
      PROVE  SubSeq(logs'[file], liveFrom + 1, offset) = SubSeq(logs[file], liveFrom + 1, offset)
  <2>1. file \in 1..Newest /\ liveFrom \in Nat /\ offset \in Nat
    BY <1>2, Numbers
  <2>2. CASE file # Newest
    <3>1. logs'[file] = logs[file]
      BY <2>1, <2>2, RewrittenLogs DEF Typed
    <3> QED
      BY <3>1
  <2>3. CASE file = Newest
    <3>0. ~(file = Newest /\ offset > 0)
      BY <1>1, <1>2
    <3>1. offset = 0
      BY <2>1, <2>3, <3>0
    <3>2. liveFrom + 1 \in Int /\ offset \in Int /\ offset < liveFrom + 1
      BY <2>1, <3>1
    <3> QED
      BY <3>2, SubSeqEmpty
  <2> QED
    BY <2>2, <2>3
<1>3. ~rewritten' => ~rewritten
  BY <1>1
<1> QED
  BY <1>1, <1>2, <1>3, ExactSameChunks

LEMMA ExactRead ==
  ASSUME Typed, Exact, Read
  PROVE  Exact'
<1> DEFINE parts == Cut(carry \o Bytes)
           P == parts.pieces
           R == parts.rest
           s == logs[file]
           k == Len(out)
           n == Len(P)
<1>1. /\ UNCHANGED <<logs, file, liveFrom, base, rewritten>> /\ pc = "read"
      /\ carry' = R /\ offset' = offset + Len(Bytes) /\ out' = out \o AsLines(P, FALSE)
  BY DEF Read, Deliver, AsLines, vrchat, history
<1> SUFFICES ASSUME file # 0, ~rewritten
             PROVE  /\ FlattenSeq(Texts(base)') \o R = SubSeq(s, liveFrom + 1, offset + Len(Bytes))
                    /\ \A i \in (base+1)..Len(out') : ~out'[i].backfill /\ IsPiece(out'[i].text)
  BY <1>1 DEF Exact
<1>2. /\ s \in Seq(Chunks) /\ Len(s) \in Nat /\ offset \in Nat /\ size \in Nat /\ liveFrom \in Nat
      /\ base \in Nat /\ k \in Nat /\ offset <= Len(s)
  BY Numbers, LenProperties DEF Typed, Cursor
<1>3. /\ carry \in Seq(Chunks) /\ NoNewline(carry) /\ out \in Seq(Outs) /\ base \in 0..k
      /\ liveFrom \in 0..offset
  BY DEF Typed, Cursor, Placed
<1>4. /\ ArePieces(P) /\ R \in Seq(Chunks)
      /\ FlattenSeq(P) \o R = carry \o Bytes
  BY <1>2, <1>3, ReadDelivers
<1>5. /\ Bytes \in Seq(Chunks) /\ Len(Bytes) \in Nat /\ offset + Len(Bytes) <= Len(s)
      /\ Bytes = SubSeq(s, offset + 1, offset + Len(Bytes))
  BY <1>2, BytesAre
<1> HIDE DEF parts, s, P, R
<1>6. /\ out' \in Seq(Outs) /\ Len(out') = k + n /\ n \in Nat
      /\ \A i \in 1..k : out'[i] = out[i]
      /\ \A i \in 1..n : out'[k + i].text = P[i] /\ out'[k + i].backfill = FALSE
  <2>1. FALSE \in BOOLEAN
    OBVIOUS
  <2> QED
    <3> DEFINE new == out \o AsLines(P, FALSE)
    <3>1. /\ new \in Seq(Outs) /\ Len(new) = Len(out) + Len(P)
          /\ Len(P) \in Nat /\ Len(out) \in Nat
          /\ \A i \in 1..Len(out) : new[i] = out[i]
          /\ \A i \in 1..Len(P) : /\ new[Len(out) + i].text = P[i]
                                   /\ new[Len(out) + i].backfill = FALSE
      BY <1>3, <1>4, <2>1, Delivering
    <3>2. out' = new
      BY <1>1
    <3> HIDE DEF new
    <3> QED
      BY <3>1, <3>2
<1>7. P \in Seq(Seq(Chunks)) /\ Len(P) = n /\ \A i \in 1..n : IsPiece(P[i])
  BY <1>4 DEF ArePieces
<1> HIDE DEF n, k
<1>8. Texts(base)' = Texts(base) \o P
  <2> DEFINE a == Texts(base)
             b == Texts(base)'
  <2>1. a \in Seq(Seq(Chunks)) /\ Len(a) = k - base /\ \A i \in 1..(k - base) : a[i] = out[base + i].text
    BY <1>3, TextsAre DEF k
  <2>2. /\ b \in Seq(Seq(Chunks)) /\ Len(b) = (k + n) - base
        /\ \A i \in 1..((k + n) - base) : b[i] = out'[base + i].text
    <3>1. b = [i \in 1..((k + n) - base) |-> out'[base + i].text]
      BY <1>1, <1>6 DEF Texts
    <3>2. \A i \in 1..((k + n) - base) : base + i \in 1..Len(out')
      BY <1>2, <1>3, <1>6
    <3>3. \A i \in 1..Len(out') : out'[i] \in Outs
      BY <1>6, ElementOfSeq
    <3>4. \A i \in 1..((k + n) - base) : out'[base + i].text \in Seq(Chunks)
      BY <3>2, <3>3 DEF Outs
    <3>5. (k + n) - base \in Nat
      BY <1>2, <1>3, <1>6
    <3> HIDE DEF b
    <3>6. b \in [1..((k + n) - base) -> Seq(Chunks)]
      BY <3>1, <3>4
    <3>7. b \in Seq(Seq(Chunks)) /\ Len(b) = (k + n) - base
      BY <3>5, <3>6, SeqFromFunction
    <3> QED
      BY <3>1, <3>7
  <2> HIDE DEF a, b
  <2>3. /\ a \o P \in Seq(Seq(Chunks)) /\ Len(a \o P) = (k - base) + n
        /\ \A i \in 1..((k - base) + n) :
             (a \o P)[i] = IF i <= k - base THEN a[i] ELSE P[i - (k - base)]
    <3>1. P \in Seq(Seq(Chunks)) /\ a \in Seq(Seq(Chunks)) /\ Len(a) = k - base /\ Len(P) = n
      BY <1>7, <2>1
    <3>2. /\ a \o P \in Seq(Seq(Chunks)) /\ Len(a \o P) = Len(a) + Len(P)
          /\ \A i \in 1..(Len(a) + Len(P)) :
               (a \o P)[i] = IF i <= Len(a) THEN a[i] ELSE P[i - Len(a)]
      BY <3>1, ConcatProperties
    <3> QED
      BY <3>1, <3>2
  <2>4. \A i \in 1..((k + n) - base) : b[i] = (a \o P)[i]
    <3> TAKE i \in 1..((k + n) - base)
    <3>1. i \in 1..((k - base) + n) /\ b[i] = out'[base + i].text
      BY <1>2, <1>3, <1>6, <2>2
    <3>2. CASE i <= k - base
      <4>1. base + i \in 1..k /\ i \in 1..(k - base)
        BY <1>2, <1>3, <1>6, <3>2
      <4> QED
        BY <1>6, <2>1, <2>3, <3>1, <3>2, <4>1
    <3>3. CASE ~(i <= k - base)
      <4>1. i - (k - base) \in 1..n /\ base + i = k + (i - (k - base))
        BY <1>2, <1>3, <1>6, <3>3
      <4> QED
        BY <1>6, <2>3, <3>1, <3>3, <4>1
    <3> QED
      BY <3>2, <3>3
  <2>5. Len(a \o P) = Len(b)
    BY <1>2, <1>3, <1>6, <2>2, <2>3
  <2>6. b = a \o P
    BY <2>2, <2>3, <2>4, <2>5, SeqEqual
  <2> QED
    BY <2>6 DEF a, b
<1>9. FlattenSeq(Texts(base)') \o R = SubSeq(s, liveFrom + 1, offset + Len(Bytes))
  <2> DEFINE F == FlattenSeq(Texts(base))
             G == FlattenSeq(P)
  <2>1. Texts(base) \in Seq(Seq(Chunks)) /\ F \in Seq(Chunks) /\ G \in Seq(Chunks)
    BY <1>3, <1>7, TextsAre, FlattenType DEF k
  <2>2. FlattenSeq(Texts(base)') = F \o G
    BY <1>7, <1>8, <2>1, FlattenConcat
  <2>3. F \o carry = SubSeq(s, liveFrom + 1, offset)
    BY DEF Exact, s
  <2> HIDE DEF F, G
  <2>4. (F \o G) \o R = F \o (G \o R)
    BY <1>4, <2>1, ConcatAssociative
  <2>5. G \o R = carry \o Bytes
    BY <1>4 DEF G
  <2>6. F \o (carry \o Bytes) = (F \o carry) \o Bytes
    <3>1. F \in Seq(Chunks) /\ carry \in Seq(Chunks) /\ Bytes \in Seq(Chunks)
      BY <1>3, <1>5, <2>1
    <3> QED
      BY <3>1, ConcatAssociative
  <2>7. SubSeq(s, liveFrom + 1, offset) \o Bytes = SubSeq(s, liveFrom + 1, offset + Len(Bytes))
    <3>1. /\ liveFrom + 1 \in 1..(Len(s) + 1) /\ offset \in ((liveFrom + 1) - 1)..Len(s)
          /\ offset + Len(Bytes) \in offset..Len(s)
      BY <1>2, <1>3, <1>5
    <3>2. SubSeq(s, liveFrom + 1, offset) \o SubSeq(s, offset + 1, offset + Len(Bytes))
            = SubSeq(s, liveFrom + 1, offset + Len(Bytes))
      BY <1>2, <3>1, ConcatAdjacentSubSeq
    <3> QED
      BY <1>5, <3>2
  <2> QED
    BY <2>2, <2>3, <2>4, <2>5, <2>6, <2>7
<1>10. \A i \in (base+1)..Len(out') : ~out'[i].backfill /\ IsPiece(out'[i].text)
  <2> TAKE i \in (base+1)..Len(out')
  <2>1. CASE i <= k
    <3>1. i \in 1..k /\ i \in (base+1)..k
      BY <1>2, <1>6, <2>1
    <3> QED
      BY <1>6, <3>1 DEF Exact, k
  <2>2. CASE ~(i <= k)
    <3>1. i - k \in 1..n /\ i = k + (i - k)
      BY <1>2, <1>6, <2>2
    <3> QED
      BY <1>6, <1>7, <3>1
  <2> QED
    BY <2>1, <2>2
<1> QED
  BY <1>9, <1>10

LEMMA ExactNext ==
  ASSUME Typed, Exact, [TailerNext]_tailerVars
  PROVE  Exact'
<1>0. Typed'
  BY TypedNext
<1>a. out' \in Seq(Outs) /\ out \in Seq(Outs)
  BY <1>0 DEF Typed, Cursor
<1>1. CASE UNCHANGED tailerVars
  BY <1>1 DEF tailerVars, vrchat, cursor, history, Exact, Texts
<1>2. CASE Launch \/ Flush
  BY <1>2, ExactGrows
<1>3. CASE Rewrite
  BY <1>3, ExactRewrite
<1>4. CASE StartTailer \/ PickSame \/ MeasureFails
  <2>1. CASE StartTailer
    <3>1. file' = 0
      BY <2>1 DEF StartTailer, cursor, Typed, Placed
    <3> QED
      BY <3>1 DEF Exact
  <2>2. CASE PickSame \/ MeasureFails
    <3>1. UNCHANGED <<logs, file, out, base, carry, liveFrom, offset, rewritten>>
      BY <2>2 DEF PickSame, MeasureFails, vrchat, cursor, history
    <3> QED
      BY <3>1 DEF Exact, Texts
  <2> QED
    BY <1>4, <2>1, <2>2
<1>5. CASE StopTailer \/ Hiccup
  <2>1. file' = 0
    BY <1>5 DEF StopTailer, Hiccup
  <2> QED
    BY <2>1 DEF Exact
<1>6. ASSUME NEW n \in Nat, BeginsAt(n), out' = out
      PROVE  Exact'
  <2>1. /\ out' \in Seq(Outs) /\ base' = Len(out') /\ carry' = <<>> /\ offset' = liveFrom'
        /\ liveFrom' \in Nat
    BY <1>a, <1>6 DEF BeginsAt
  <2> QED
    BY <2>1, ExactFromHere
<1>7. CASE FirstAttach \/ Switch
  <2>1. out' = out /\ Newest > 0
    BY <1>7 DEF FirstAttach, Switch
  <2>2. Len(logs[Newest]) \in Nat /\ 0 \in Nat
    <3>1. Newest \in 1..Newest
      BY <2>1, Numbers
    <3> QED
      BY <3>1, LogIs, LenProperties DEF Typed
  <2>3. \E n \in Nat : BeginsAt(n)
    BY <1>7, <2>2 DEF FirstAttach, Switch
  <2> QED
    BY <1>6, <2>1, <2>3
<1>8. CASE Measure
  <2>1. CASE BeginsAt(0)
    BY <1>6, <1>8, <2>1 DEF Measure
  <2>2. CASE UNCHANGED <<offset, carry, history>>
    <3>1. UNCHANGED <<logs, file, out, base, carry, liveFrom, offset, rewritten>>
      BY <1>8, <2>2 DEF Measure, vrchat, history
    <3> QED
      BY <3>1 DEF Exact, Texts
  <2> QED
    BY <1>8, <2>1, <2>2 DEF Measure
<1>9. CASE Backfill
  <2>1. /\ base' = Len(out') /\ carry' = <<>> /\ offset' = liveFrom' /\ liveFrom' \in Nat
    BY <1>9, Numbers DEF Backfill, cursor, Typed, Placed
  <2> QED
    BY <1>a, <2>1, ExactFromHere
<1>10. CASE Read
  BY <1>10, ExactRead
<1> QED
  BY <1>1, <1>2, <1>3, <1>4, <1>5, <1>7, <1>8, <1>9, <1>10 DEF TailerNext, Tick

(***************************************************************************)
(* LiveIsExact for any number of launches, lines, rewrites, starts and     *)
(* faults and any buffer size: the lines ReadNewBytes delivers and the     *)
(* carry-over are exactly the bytes of the file from where its reading     *)
(* began to m_offset, cut at the newlines.                                 *)
(***************************************************************************)
THEOREM LiveIsAlwaysExact == TailerSpec => []LiveIsExact
<1>1. TailerInit => Typed /\ Exact
  BY TypedInit DEF TailerInit, Exact
<1>2. Typed /\ Exact /\ [TailerNext]_tailerVars => (Typed /\ Exact)'
  BY TypedNext, ExactNext
<1>3. Typed /\ Exact => LiveIsExact
  BY ExactIsLiveIsExact
<1> QED
  BY <1>1, <1>2, <1>3, PTL DEF TailerSpec
-----------------------------------------------------------------------------
(* No line is delivered twice                                              *)

\* The last line VRChat has finished.
Written == IF Newest > 0 /\ HalfWritten THEN lines - 1 ELSE lines

NewlinesOf(f) == {p \in 1..Len(logs[f]) : logs[f][p].part = 2}

\* Over all logs, the lines are finished in the order they were begun.
Ordered ==
  \A f \in 1..Newest : \A p \in NewlinesOf(f) :
    /\ logs[f][p].line <= Written
    /\ \A q \in NewlinesOf(f) : p < q => logs[f][p].line < logs[f][q].line
    /\ \A g \in 1..Newest : f < g =>
         \A q \in NewlinesOf(g) : logs[f][p].line < logs[g][q].line

EndOf(i) == Last(out[i].text).line

\* What is still to be read is later than line n; a log shorter than m_offset
\* is read again from its beginning.
ToCome(n) ==
  /\ \A p \in NewlinesOf(file) :
       offset < p \/ Len(logs[file]) < offset => n < logs[file][p].line
  /\ \A g \in 1..Newest : file < g => \A p \in NewlinesOf(g) : n < logs[g][p].line

\* As long as nothing failed, the lines delivered are in order and before all
\* that is to come; a rewrite sets those that were replayed apart.
Delivered ==
  faults = 0 =>
    /\ file = 0 \/ pc = "backfill" => out = <<>>
    /\ \A i \in 1..Len(out) :
         /\ EndOf(i) \in Nat /\ EndOf(i) <= Written
         /\ file # 0 /\ (rewrites = 0 \/ ~out[i].backfill) => ToCome(EndOf(i))
         /\ \A j \in 1..Len(out) :
              i < j /\ (rewrites = 0 \/ out[i].backfill = out[j].backfill)
              => EndOf(i) < EndOf(j)

LEMMA ChunkAt ==
  ASSUME NEW s \in Seq(Chunks), NEW p \in 1..Len(s)
  PROVE  s[p] \in Chunks /\ s[p].line \in Nat /\ s[p].part \in {1, 2}
<1>1. s[p] \in Chunks
  BY ElementOfSeq
<1>2. \A n \in 1..MaxLines : n \in Nat
  BY LogTailerAssumption
<1> QED
  BY <1>1, <1>2, ChunkParts

LEMMA WrittenIs ==
  ASSUME Logs
  PROVE  Written \in Int /\ Written <= lines
  BY LogTailerAssumption DEF Logs, Written

LEMMA WrittenIsAfter ==
  ASSUME Logs'
  PROVE  Written' \in Int /\ Written' <= lines'
<1>1. lines' \in Nat
  BY LogTailerAssumption DEF Logs
<1>2. Written' = lines' - 1 \/ Written' = lines'
  BY DEF Written
<1> QED
  BY <1>1, <1>2

\* A newline after a step of VRChat was there before, or is the one just
\* written at the end of the newest log.
Was(g, p) ==
  /\ g \in 1..Newest /\ p \in NewlinesOf(g) /\ logs'[g][p] = logs[g][p]
  /\ Len(logs[g]) <= Len(logs'[g])
IsNew(g, p) ==
  /\ g = Newest' /\ p = Len(logs'[g])
  /\ Written < logs'[g][p].line /\ logs'[g][p].line <= Written'
LogStep ==
  /\ Logs' /\ Newest <= Newest' /\ Written <= Written'
  /\ \A g \in 1..Newest' : \A p \in NewlinesOf(g)' : Was(g, p) \/ IsNew(g, p)

LEMMA LaunchSteps ==
  ASSUME Logs, Launch
  PROVE  LogStep
<1>1. Logs' /\ Newest <= Newest'
  BY LogsGrow
<1>2. Newest \in Nat /\ logs \in Seq(Seq(Chunks)) /\ lines \in Nat
  BY NewestIs, LogTailerAssumption DEF Logs
<1>3. logs' = Append(logs, <<>>) /\ lines' = lines
  BY DEF Launch
<1>4. /\ Newest' = Newest + 1 /\ logs'[Newest + 1] = <<>>
      /\ \A f \in 1..Newest : logs'[f] = logs[f]
  BY <1>2, <1>3, NothingCarried, AppendProperties DEF Newest
<1>5. ~HalfWritten'
  BY <1>4 DEF HalfWritten
<1>6. Written <= Written'
  BY <1>2, <1>3, <1>5, WrittenIs DEF Written
<1>7. ASSUME NEW g \in 1..Newest', NEW p \in NewlinesOf(g)'
      PROVE  Was(g, p)
  <2>1. CASE g = Newest + 1
    <3>1. Len(logs'[g]) = 0
      BY <1>4, <2>1, NothingCarried
    <3> QED
      BY <1>7, <3>1 DEF NewlinesOf
  <2>2. CASE g \in 1..Newest
    <3>1. logs'[g] = logs[g] /\ Len(logs[g]) \in Nat
      BY <1>4, <2>2, LogIs
    <3> QED
      BY <1>7, <2>2, <3>1 DEF NewlinesOf, Was
  <2> QED
    BY <1>2, <1>4, <2>1, <2>2
<1> QED
  BY <1>1, <1>6, <1>7 DEF LogStep

LEMMA RewriteSteps ==
  ASSUME Logs, Rewrite
  PROVE  LogStep
<1>1. /\ Logs' /\ Newest' = Newest /\ Newest \in 1..Newest
      /\ logs'[Newest] = <<>> /\ \A f \in 1..Newest : f # Newest => logs'[f] = logs[f]
  BY RewrittenLogs
<1>2. lines' = lines /\ Newest \in Nat /\ lines \in Nat
  BY NewestIs, LogTailerAssumption DEF Rewrite, Logs
<1>3. ~HalfWritten'
  BY <1>1 DEF HalfWritten
<1>4. Written <= Written'
  BY <1>2, <1>3, WrittenIs DEF Written
<1>5. ASSUME NEW g \in 1..Newest', NEW p \in NewlinesOf(g)'
      PROVE  Was(g, p)
  <2>1. CASE g = Newest
    <3>1. Len(logs'[g]) = 0
      BY <1>1, <2>1, NothingCarried
    <3> QED
      BY <1>5, <3>1 DEF NewlinesOf
  <2>2. CASE g # Newest
    <3>1. g \in 1..Newest
      BY <1>1
    <3>2. logs'[g] = logs[g] /\ Len(logs[g]) \in Nat
      BY <1>1, <2>2, <3>1, LogIs
    <3> QED
      BY <1>5, <3>1, <3>2 DEF NewlinesOf, Was
  <2> QED
    BY <2>1, <2>2
<1>6. Newest <= Newest'
  BY <1>1, <1>2
<1> QED
  BY <1>1, <1>4, <1>5, <1>6 DEF LogStep

LEMMA FlushSteps ==
  ASSUME Logs, Flush
  PROVE  LogStep
<1>1. Logs' /\ Newest \in 1..Newest
  BY LogsGrow, FlushAdds
<1>2. PICK new : Added(new)
  BY FlushAdds
<1> DEFINE k == Len(logs[Newest])
<1>3. /\ logs[Newest] \in Seq(Chunks) /\ k \in Nat
      /\ Newest \in Nat /\ lines \in Nat /\ Newest > 0
  BY <1>1, LogIs, NewestIs, LogTailerAssumption DEF Logs
<1>4. /\ Len(logs') = Newest
      /\ Len(logs'[Newest]) = k + Len(new)
      /\ \A i \in 1..k : logs'[Newest][i] = logs[Newest][i]
      /\ \A i \in 1..Len(new) : logs'[Newest][k + i] = new[i]
      /\ \A f \in 1..Newest : f # Newest => logs'[f] = logs[f]
  BY <1>1, <1>2, FlushedLogs
<1> HIDE DEF k
<1>5. Newest' = Newest
  BY <1>4 DEF Newest
<1>6. \/ /\ HalfWritten /\ lines' = lines /\ Len(new) = 1 /\ new[1] = Chunk(lines, 2)
         /\ Written = lines - 1 /\ Written' = lines
      \/ /\ lines' = lines + 1 /\ Len(new) = 1 /\ new[1] = Chunk(lines + 1, 1)
         /\ Written = lines /\ Written' = lines
      \/ /\ lines' = lines + 1 /\ Len(new) = 2 /\ new[1] = Chunk(lines + 1, 1)
         /\ new[2] = Chunk(lines + 1, 2)
         /\ Written = lines /\ Written' = lines + 1
  <2>1. CASE HalfWritten
    <3>1. lines' = lines /\ Len(new) = 1 /\ new[1] = Chunk(lines, 2)
      BY <1>2, <2>1 DEF Added
    <3>2. logs'[Newest][Len(logs'[Newest])] = Chunk(lines, 2)
      BY <1>4, <3>1
    <3>3. ~HalfWritten'
      BY <1>5, <3>2 DEF HalfWritten, Last, Chunk
    <3> QED
      BY <1>3, <2>1, <3>1, <3>3 DEF Written
  <2>2. CASE ~HalfWritten
    <3>1. lines' = lines + 1 /\ new[1] = Chunk(lines + 1, 1) /\ Written = lines
      BY <1>2, <2>2 DEF Added, Written
    <3>2. CASE Len(new) = 1
      <4>1. logs'[Newest][Len(logs'[Newest])] = Chunk(lines + 1, 1)
        BY <1>4, <3>1, <3>2
      <4>2. logs'[Newest] # <<>>
        BY <1>3, <1>4, <3>2, NothingCarried
      <4>3. HalfWritten'
        BY <1>5, <4>1, <4>2 DEF HalfWritten, Last, Chunk
      <4>4. Written' = lines
        BY <1>3, <1>5, <3>1, <4>3 DEF Written
      <4> QED
        BY <3>1, <3>2, <4>4
    <3>3. CASE Len(new) = 2 /\ new[2] = Chunk(lines + 1, 2)
      <4>1. logs'[Newest][Len(logs'[Newest])] = Chunk(lines + 1, 2)
        BY <1>4, <3>3
      <4>2. ~HalfWritten'
        BY <1>5, <4>1 DEF HalfWritten, Last, Chunk
      <4> QED
        BY <3>1, <3>3, <4>2 DEF Written
    <3> QED
      BY <1>2, <2>2, <3>2, <3>3 DEF Added
  <2> QED
    BY <2>1, <2>2
<1>7. Written <= Written'
  BY <1>3, <1>6
<1>8. ASSUME NEW g \in 1..Newest', NEW p \in NewlinesOf(g)'
      PROVE  Was(g, p) \/ IsNew(g, p)
  <2>0. g \in 1..Newest /\ p \in 1..Len(logs'[g]) /\ logs'[g][p].part = 2
    BY <1>5, <1>8 DEF NewlinesOf
  <2>1. CASE g # Newest
    <3>1. logs'[g] = logs[g] /\ Len(logs[g]) \in Nat
      BY <1>4, <2>0, <2>1, LogIs
    <3> QED
      BY <2>0, <3>1 DEF NewlinesOf, Was
  <2>2. CASE g = Newest /\ p \in 1..k
    <3>1. logs'[g][p] = logs[g][p] /\ p \in 1..Len(logs[g])
      BY <1>4, <2>2 DEF k
    <3>2. Len(logs[g]) <= Len(logs'[g])
      BY <1>3, <1>4, <1>6, <2>2 DEF k
    <3> QED
      BY <2>0, <3>1, <3>2 DEF NewlinesOf, Was
  <2>3. CASE g = Newest /\ p \notin 1..k
    <3>1. p - k \in 1..Len(new) /\ p = k + (p - k)
      BY <1>3, <1>4, <1>6, <2>0, <2>3
    <3>2. new[p - k].part = 2
      BY <1>4, <2>0, <2>3, <3>1
    <3>3. Chunk(lines + 1, 1).part = 1
      BY DEF Chunk
    <3>4. CASE HalfWritten /\ Len(new) = 1 /\ new[1] = Chunk(lines, 2) /\ Written = lines - 1 /\ Written' = lines
      <4>1. p - k = 1 /\ p = Len(logs'[g]) /\ logs'[g][p] = Chunk(lines, 2)
        BY <1>3, <1>4, <2>3, <3>1, <3>4
      <4> QED
        BY <1>3, <1>5, <2>3, <3>4, <4>1 DEF IsNew, Chunk
    <3>5. CASE Len(new) = 1 /\ new[1] = Chunk(lines + 1, 1)
      <4>1. p - k = 1
        BY <3>1, <3>5
      <4> QED
        BY <3>2, <3>3, <3>5, <4>1
    <3>6. CASE /\ Len(new) = 2 /\ new[1] = Chunk(lines + 1, 1)
               /\ new[2] = Chunk(lines + 1, 2) /\ Written = lines /\ Written' = lines + 1
      <4>1. p - k # 1
        BY <3>2, <3>3, <3>6
      <4>2. p - k = 2
        BY <3>1, <3>6, <4>1
      <4>3. p = Len(logs'[g]) /\ logs'[g][p] = Chunk(lines + 1, 2)
        BY <1>3, <1>4, <2>3, <3>1, <3>6, <4>2
      <4> QED
        BY <1>3, <1>5, <2>3, <3>6, <4>3 DEF IsNew, Chunk
    <3> QED
      BY <1>6, <3>4, <3>5, <3>6
  <2> QED
    BY <2>1, <2>2, <2>3
<1>9. Newest <= Newest'
  BY <1>3, <1>5
<1> QED
  BY <1>1, <1>7, <1>8, <1>9 DEF LogStep

\* Where two newlines stand decides which line is the later.
Before(f, p, g, q) == f < g \/ (f = g /\ p < q)
LEMMA OrderedIs ==
  Ordered <=>
    \A f \in 1..Newest : \A p \in NewlinesOf(f) :
      /\ logs[f][p].line <= Written
      /\ \A g \in 1..Newest : \A q \in NewlinesOf(g) :
           Before(f, p, g, q) => logs[f][p].line < logs[g][q].line
  BY DEF Ordered, Before

LEMMA OrderedSteps ==
  ASSUME Logs, Ordered, LogStep
  PROVE  Ordered'
<1>1. /\ Logs' /\ Newest <= Newest' /\ Written <= Written'
      /\ \A g \in 1..Newest' : \A p \in NewlinesOf(g)' : Was(g, p) \/ IsNew(g, p)
  BY DEF LogStep
<1>2. Written \in Int /\ Written' \in Int
  BY <1>1, WrittenIs, WrittenIsAfter
<1>3. \A g \in 1..Newest' : \A p \in NewlinesOf(g)' :
        logs'[g][p].line \in Nat /\ p \in 1..Len(logs'[g]) /\ Len(logs'[g]) \in Nat
  <2> SUFFICES ASSUME NEW g \in 1..Newest', NEW p \in NewlinesOf(g)'
               PROVE  logs'[g][p].line \in Nat /\ p \in 1..Len(logs'[g]) /\ Len(logs'[g]) \in Nat
    OBVIOUS
  <2>1. logs' \in Seq(Seq(Chunks)) /\ g \in 1..Len(logs')
    BY <1>1 DEF Logs, Newest
  <2>2. logs'[g] \in Seq(Chunks)
    BY <2>1, ElementOfSeq
  <2>3. p \in 1..Len(logs'[g])
    BY DEF NewlinesOf
  <2> QED
    BY <2>2, <2>3, ChunkAt, LenProperties
<1>4. Newest' \in Nat
  <2>1. logs' \in Seq(Seq(Chunks))
    BY <1>1 DEF Logs
  <2> QED
    BY <2>1, LenProperties DEF Newest
<1>5. \A g \in 1..Newest' : \A p \in NewlinesOf(g)' :
        /\ logs'[g][p].line <= Written'
        /\ Was(g, p) => logs'[g][p].line <= Written
  <2> SUFFICES ASSUME NEW g \in 1..Newest', NEW p \in NewlinesOf(g)'
               PROVE  /\ logs'[g][p].line <= Written'
                      /\ Was(g, p) => logs'[g][p].line <= Written
    OBVIOUS
  <2>1. Was(g, p) => logs'[g][p].line <= Written
    BY DEF Was, Ordered
  <2>2. IsNew(g, p) => logs'[g][p].line <= Written'
    BY DEF IsNew
  <2>3. logs'[g][p].line \in Nat
    BY <1>3
  <2> QED
    BY <1>1, <1>2, <2>1, <2>2, <2>3
<1>6. ASSUME NEW f \in 1..Newest', NEW p \in NewlinesOf(f)', NEW g \in 1..Newest',
             NEW q \in NewlinesOf(g)', Before(f, p, g, q)
      PROVE  logs'[f][p].line < logs'[g][q].line
  <2>1. /\ logs'[f][p].line \in Nat /\ logs'[g][q].line \in Nat
        /\ p \in 1..Len(logs'[f]) /\ q \in 1..Len(logs'[g])
        /\ Len(logs'[f]) \in Nat /\ Len(logs'[g]) \in Nat
    BY <1>3
  <2>2. CASE Was(f, p) /\ Was(g, q)
    BY <1>6, <2>2, OrderedIs DEF Was
  <2>3. CASE Was(f, p) /\ IsNew(g, q)
    <3>1. logs'[f][p].line <= Written /\ Written < logs'[g][q].line
      BY <1>5, <2>3 DEF IsNew
    <3> QED
      BY <1>2, <2>1, <3>1
  <2>4. CASE IsNew(f, p)
    <3>1. f = Newest' /\ p = Len(logs'[f])
      BY <2>4 DEF IsNew
    <3>2. ~(f < g)
      BY <1>4, <3>1
    <3>3. ~(f = g /\ p < q)
      BY <2>1, <3>1
    <3> QED
      BY <1>6, <3>2, <3>3 DEF Before
  <2>5. Was(f, p) \/ IsNew(f, p)
    BY <1>1
  <2>6. Was(g, q) \/ IsNew(g, q)
    BY <1>1
  <2> QED
    BY <2>2, <2>3, <2>4, <2>5, <2>6
<1>7. \A f \in 1..Newest' : \A p \in NewlinesOf(f)' :
        /\ logs'[f][p].line <= Written'
        /\ \A q \in NewlinesOf(f)' : p < q => logs'[f][p].line < logs'[f][q].line
        /\ \A g \in 1..Newest' : f < g =>
             \A q \in NewlinesOf(g)' : logs'[f][p].line < logs'[g][q].line
  BY <1>5, <1>6 DEF Before
<1> QED
  BY <1>7 DEF Ordered

LEMMA DeliveredSteps ==
  ASSUME Typed, Delivered, LogStep,
         UNCHANGED <<pc, file, offset, out, faults>>,
         rewrites' = 0 => rewrites = 0
  PROVE  Delivered'
<1> SUFFICES ASSUME faults = 0 PROVE Delivered'
  BY DEF Delivered
<1>0. /\ Logs' /\ Newest <= Newest' /\ Written <= Written'
      /\ \A g \in 1..Newest' : \A p \in NewlinesOf(g)' : Was(g, p) \/ IsNew(g, p)
  BY DEF LogStep
<1>1. Written \in Int /\ Written' \in Int
  BY <1>0, WrittenIs, WrittenIsAfter DEF Typed
<1>2. Newest \in Nat /\ Newest' \in Nat /\ (file # 0 => file \in 1..Newest') /\ offset \in Nat
  <2>1. logs' \in Seq(Seq(Chunks))
    BY <1>0 DEF Logs
  <2>2. Newest' \in Nat
    BY <2>1, LenProperties DEF Newest
  <2>3. Newest \in Nat /\ offset \in Nat /\ (file # 0 => file \in 1..Newest)
    BY Numbers
  <2> QED
    BY <1>0, <2>2, <2>3
<1>3. \A g \in 1..Newest' : \A p \in NewlinesOf(g)' :
        logs'[g][p].line \in Nat /\ p \in 1..Len(logs'[g]) /\ Len(logs'[g]) \in Nat
  <2> SUFFICES ASSUME NEW g \in 1..Newest', NEW p \in NewlinesOf(g)'
               PROVE  logs'[g][p].line \in Nat /\ p \in 1..Len(logs'[g]) /\ Len(logs'[g]) \in Nat
    OBVIOUS
  <2>1. logs' \in Seq(Seq(Chunks)) /\ g \in 1..Len(logs')
    BY <1>0 DEF Logs, Newest
  <2>2. logs'[g] \in Seq(Chunks)
    BY <2>1, ElementOfSeq
  <2>3. p \in 1..Len(logs'[g])
    BY DEF NewlinesOf
  <2> QED
    BY <2>2, <2>3, ChunkAt, LenProperties
<1>4. ASSUME NEW n \in Nat, n <= Written, file # 0, ToCome(n)
      PROVE  ToCome(n)'
  <2>1. ASSUME NEW g \in 1..Newest', NEW p \in NewlinesOf(g)', IsNew(g, p)
        PROVE  n < logs'[g][p].line
    <3>1. Written < logs'[g][p].line /\ logs'[g][p].line \in Nat
      BY <1>3, <2>1 DEF IsNew
    <3> QED
      BY <1>1, <1>4, <3>1
  <2>2. ASSUME NEW p \in NewlinesOf(file)', offset < p \/ Len(logs'[file]) < offset
        PROVE  n < logs'[file][p].line
    <3>1. CASE Was(file, p)
      <4>1. Len(logs[file]) <= Len(logs'[file]) /\ p \in NewlinesOf(file) /\ logs'[file][p] = logs[file][p]
        BY <3>1 DEF Was
      <4>2. Len(logs[file]) \in Nat /\ Len(logs'[file]) \in Nat
        BY <1>2, <1>3, <1>4, <2>2, Numbers
      <4>3. offset < p \/ Len(logs[file]) < offset
        BY <1>2, <2>2, <4>1, <4>2
      <4> QED
        BY <1>4, <4>1, <4>3 DEF ToCome
    <3>2. CASE IsNew(file, p)
      BY <1>2, <1>4, <2>1, <2>2, <3>2
    <3> QED
      BY <1>0, <1>2, <1>4, <2>2, <3>1, <3>2
  <2>3. ASSUME NEW g \in 1..Newest', file < g, NEW p \in NewlinesOf(g)'
        PROVE  n < logs'[g][p].line
    <3>1. CASE Was(g, p)
      BY <1>4, <2>3, <3>1 DEF Was, ToCome
    <3> QED
      BY <1>0, <2>1, <2>3, <3>1
  <2>4. file' = file /\ offset' = offset
    OBVIOUS
  <2>5. ToCome(n)' <=>
          /\ \A p \in NewlinesOf(file)' :
               offset < p \/ Len(logs'[file]) < offset => n < logs'[file][p].line
          /\ \A g \in 1..Newest' : file < g => \A p \in NewlinesOf(g)' : n < logs'[g][p].line
    BY <2>4 DEF ToCome
  <2> QED
    BY <2>2, <2>3, <2>5
<1>5. \A i \in 1..Len(out) : EndOf(i)' = EndOf(i)
  BY DEF EndOf
<1>6. (file = 0 \/ pc = "backfill") => out = <<>>
  BY DEF Delivered
<1>7. ASSUME NEW i \in 1..Len(out)
      PROVE  /\ EndOf(i) \in Nat /\ EndOf(i) <= Written'
             /\ file # 0 /\ (rewrites' = 0 \/ ~out[i].backfill) => ToCome(EndOf(i))'
             /\ \A j \in 1..Len(out) :
                  i < j /\ (rewrites' = 0 \/ out[i].backfill = out[j].backfill)
                  => EndOf(i) < EndOf(j)
  <2>1. /\ EndOf(i) \in Nat /\ EndOf(i) <= Written
        /\ file # 0 /\ (rewrites = 0 \/ ~out[i].backfill) => ToCome(EndOf(i))
        /\ \A j \in 1..Len(out) :
             i < j /\ (rewrites = 0 \/ out[i].backfill = out[j].backfill)
             => EndOf(i) < EndOf(j)
    BY <1>7 DEF Delivered
  <2> DEFINE n == EndOf(i)
  <2>2. n \in Nat /\ n <= Written
    BY <2>1
  <2>3. n <= Written'
    BY <1>0, <1>1, <2>2
  <2>4. i \in 1..Len(out) /\ EndOf(i)' = EndOf(i)
    BY <1>5
  <2>5. file # 0 /\ (rewrites' = 0 \/ ~out[i].backfill) => ToCome(EndOf(i))'
    <3> SUFFICES ASSUME file # 0, rewrites' = 0 \/ ~out[i].backfill PROVE ToCome(EndOf(i))'
      OBVIOUS
    <3>1. ToCome(n)
      BY <2>1
    <3> HIDE DEF n
    <3> QED
      BY <1>4, <2>1, <2>2, <2>4, <3>1 DEF n
  <2> QED
    BY <2>1, <2>3, <2>5
<1> QED
  BY <1>5, <1>6, <1>7 DEF Delivered

\* What a newline of the tailer's file is followed by.
LEMMA NewlineIs ==
  ASSUME Typed, Ordered, NEW f \in 1..Newest, NEW q \in NewlinesOf(f)
  PROVE  /\ logs[f][q].line \in Nat /\ logs[f][q].line <= Written
         /\ q \in 1..Len(logs[f]) /\ Len(logs[f]) \in Nat
         /\ \A p \in NewlinesOf(f) : q < p => logs[f][q].line < logs[f][p].line
         /\ \A g \in 1..Newest : f < g => \A p \in NewlinesOf(g) : logs[f][q].line < logs[g][p].line
<1>1. logs[f] \in Seq(Chunks) /\ q \in 1..Len(logs[f])
  BY LogIs DEF Typed, NewlinesOf
<1>2. logs[f][q].line \in Nat /\ Len(logs[f]) \in Nat
  BY <1>1, ChunkAt, LenProperties
<1> QED
  BY <1>1, <1>2 DEF Ordered

\* Delivering pieces that end at these places of the file, in order, after all
\* that was delivered and before all that is to come.
LEMMA DeliveredMore ==
  ASSUME Typed, Ordered, Delivered, faults = 0, file # 0,
         UNCHANGED <<logs, lines, rewrites, file, faults>>, pc' # "backfill",
         NEW pieces, ArePieces(pieces), NEW b \in BOOLEAN, out' = out \o AsLines(pieces, b),
         NEW lo \in Nat, NEW hi \in Nat, NEW at, EndAt(pieces, logs[file], lo, hi, at),
         lo < hi => hi <= Len(logs[file]), hi <= offset', offset' \in Nat,
         rewrites = 0 \/ ~b => (lo < hi => offset' <= Len(logs[file])),
         \A i \in 1..Len(out) :
           /\ rewrites = 0 \/ ~out[i].backfill => ToCome(EndOf(i))'
           /\ rewrites = 0 \/ out[i].backfill = b =>
                \A p \in NewlinesOf(file) : p \in (lo+1)..hi => EndOf(i) < logs[file][p].line
  PROVE  Delivered'
<1>0. PICK k \in Nat : k = Len(out)
  BY Numbers
<1> DEFINE n == Len(pieces)
           s == logs[file]
<1>1. /\ file \in 1..Newest /\ out \in Seq(Outs) /\ k \in Nat /\ Newest \in Nat
      /\ Len(s) \in Nat
  BY Numbers, LenProperties DEF Typed, Cursor
<1>2. /\ out' \in Seq(Outs) /\ Len(out') = k + n /\ n \in Nat
      /\ \A i \in 1..k : out'[i] = out[i]
      /\ \A i \in 1..n : out'[k + i].text = pieces[i] /\ out'[k + i].backfill = b
  <2> DEFINE new == out \o AsLines(pieces, b)
  <2>1. /\ new \in Seq(Outs) /\ Len(new) = Len(out) + Len(pieces)
        /\ Len(pieces) \in Nat /\ Len(out) \in Nat
        /\ \A i \in 1..Len(out) : new[i] = out[i]
        /\ \A i \in 1..Len(pieces) : /\ new[Len(out) + i].text = pieces[i]
                                     /\ new[Len(out) + i].backfill = b
    BY <1>1, Delivering
  <2>2. out' = new
    OBVIOUS
  <2> HIDE DEF new
  <2> QED
    BY <1>0, <2>1, <2>2
<1>3. /\ \A i \in 1..n : at[i] \in (lo+1)..hi /\ s[at[i]] = Last(pieces[i])
      /\ \A i, j \in 1..n : i < j => at[i] < at[j]
  BY DEF EndAt
<1>4. \A i \in 1..n : Last(pieces[i]).part = 2
  BY DEF ArePieces, IsPiece
<1> HIDE DEF n
<1>5. \A i \in 1..n : /\ at[i] \in NewlinesOf(file) /\ at[i] \in (lo+1)..hi /\ lo < hi
                      /\ EndOf(k+i)' = s[at[i]].line
  <2> TAKE i \in 1..n
  <2>1. at[i] \in (lo+1)..hi /\ s[at[i]] = Last(pieces[i]) /\ Last(pieces[i]).part = 2
    BY <1>3, <1>4
  <2>2. lo < hi /\ Len(s) \in Nat /\ hi <= Len(s)
    <3>1. lo < hi
      BY <2>1
    <3> QED
      BY <1>1, <3>1
  <2>3. at[i] \in 1..Len(s)
    BY <2>1, <2>2
  <2>4. EndOf(k+i)' = Last(pieces[i]).line
    BY <1>2 DEF EndOf
  <2> QED
    BY <2>1, <2>2, <2>3, <2>4 DEF NewlinesOf
<1>6. \A i \in 1..(k + n) : i \in 1..k \/ (i - k \in 1..n /\ i = k + (i - k))
  BY <1>1, <1>2
<1>7. Written' = Written
  BY DEF Written, Newest, HalfWritten
<1>8. \A i \in 1..k : EndOf(i)' = EndOf(i) /\ EndOf(i) \in Nat /\ EndOf(i) <= Written
  BY <1>0, <1>2 DEF EndOf, Delivered
<1>9. ASSUME NEW i \in 1..n, rewrites = 0 \/ ~b
      PROVE  ToCome(EndOf(k+i))'
  <2> DEFINE q == at[i]
             m == s[q].line
  <2>1. q \in NewlinesOf(file) /\ q \in (lo+1)..hi /\ offset' <= Len(s) /\ EndOf(k+i)' = m
    BY <1>5, <1>9
  <2>2. q \in Nat /\ Len(s) \in Nat /\ q <= offset'
    <3>1. q \in 1..Len(s)
      BY <2>1 DEF NewlinesOf
    <3>2. q <= hi
      BY <2>1
    <3> QED
      BY <1>1, <3>1, <3>2
  <2>3. /\ \A p \in NewlinesOf(file) : q < p => m < s[p].line
        /\ \A g \in 1..Newest : file < g => \A p \in NewlinesOf(g) : m < logs[g][p].line
    BY <1>1, <2>1, NewlineIs
  <2>4. \A p \in NewlinesOf(file) : p \in Nat
    BY <2>2 DEF NewlinesOf
  <2>5. \A p \in NewlinesOf(file) : offset' < p \/ Len(s) < offset' => q < p
    BY <2>1, <2>2, <2>4
  <2>6. \A p \in NewlinesOf(file) : offset' < p \/ Len(s) < offset' => m < s[p].line
    BY <2>3, <2>5
  <2> HIDE DEF q, m
  <2>7. ToCome(EndOf(k+i))' <=>
          /\ \A p \in NewlinesOf(file) : offset' < p \/ Len(s) < offset' => m < s[p].line
          /\ \A g \in 1..Newest : file < g => \A p \in NewlinesOf(g) : m < logs[g][p].line
    BY <2>1 DEF ToCome, NewlinesOf, Newest
  <2> QED
    BY <2>3, <2>6, <2>7
<1>10. ASSUME NEW i \in 1..(k + n)
       PROVE  /\ EndOf(i)' \in Nat /\ EndOf(i)' <= Written
              /\ rewrites = 0 \/ ~out'[i].backfill => ToCome(EndOf(i))'
              /\ \A j \in 1..(k + n) :
                   i < j /\ (rewrites = 0 \/ out'[i].backfill = out'[j].backfill)
                   => EndOf(i)' < EndOf(j)'
  <2>1. CASE i \in 1..k
    <3>1. /\ EndOf(i)' = EndOf(i) /\ EndOf(i) \in Nat /\ EndOf(i) <= Written /\ out'[i] = out[i]
      BY <1>2, <1>8, <2>1
    <3>2. rewrites = 0 \/ ~out'[i].backfill => ToCome(EndOf(i))'
      BY <1>0, <2>1, <3>1
    <3>3. ASSUME NEW j \in 1..(k + n), i < j,
                 rewrites = 0 \/ out'[i].backfill = out'[j].backfill
          PROVE  EndOf(i)' < EndOf(j)'
      <4>1. CASE j \in 1..k
        <5>1. out'[j] = out[j] /\ EndOf(j)' = EndOf(j)
          BY <1>2, <1>8, <4>1
        <5>2. rewrites = 0 \/ out[i].backfill = out[j].backfill
          BY <3>1, <3>3, <5>1
        <5>3. EndOf(i) < EndOf(j)
          BY <1>0, <2>1, <3>3, <4>1, <5>2 DEF Delivered
        <5> QED
          BY <3>1, <5>1, <5>3
      <4>2. CASE j - k \in 1..n /\ j = k + (j - k)
        <5> DEFINE m == j - k
        <5>1. m \in 1..n /\ j = k + m
          BY <4>2
        <5> HIDE DEF m
        <5>2. /\ at[m] \in NewlinesOf(file) /\ at[m] \in (lo+1)..hi
              /\ EndOf(j)' = s[at[m]].line /\ out'[j].backfill = b
          BY <1>2, <1>5, <5>1
        <5>3. rewrites = 0 \/ out[i].backfill = b
          BY <3>1, <3>3, <5>2
        <5>4. EndOf(i) < s[at[m]].line
          BY <1>0, <2>1, <5>2, <5>3
        <5> QED
          BY <3>1, <5>2, <5>4
      <4> QED
        BY <1>6, <4>1, <4>2
    <3> QED
      BY <3>1, <3>2, <3>3
  <2>2. CASE i - k \in 1..n /\ i = k + (i - k)
    <3> DEFINE m == i - k
    <3>1. m \in 1..n /\ i = k + m
      BY <2>2
    <3> HIDE DEF m
    <3>2. /\ at[m] \in NewlinesOf(file) /\ EndOf(i)' = s[at[m]].line /\ out'[i].backfill = b
      BY <1>2, <1>5, <3>1
    <3>3. EndOf(i)' \in Nat /\ EndOf(i)' <= Written
      BY <1>1, <3>2, NewlineIs
    <3>4. rewrites = 0 \/ ~out'[i].backfill => ToCome(EndOf(i))'
      BY <1>9, <3>1, <3>2
    <3>5. ASSUME NEW j \in 1..(k + n), i < j
          PROVE  EndOf(i)' < EndOf(j)'
      <4>1. j - k \in 1..n /\ j = k + (j - k) /\ m < j - k
        BY <1>1, <1>2, <3>1, <3>5
      <4> DEFINE l == j - k
      <4>2. l \in 1..n /\ j = k + l /\ m < l
        BY <4>1
      <4> HIDE DEF l
      <4>3. at[l] \in NewlinesOf(file) /\ EndOf(j)' = s[at[l]].line /\ at[m] < at[l]
        BY <1>3, <1>5, <3>1, <4>2
      <4> QED
        BY <1>1, <3>2, <4>3, NewlineIs
    <3> QED
      BY <3>3, <3>4, <3>5
  <2> QED
    BY <1>6, <2>1, <2>2
<1>11. ~(file' = 0 \/ pc' = "backfill")
  OBVIOUS
<1> QED
  BY <1>2, <1>7, <1>10, <1>11 DEF Delivered

\* What is still to come when the cursor has moved on.
LEMMA ToComeOn ==
  ASSUME NEW n, ToCome(n), UNCHANGED logs, Newest' = Newest,
         \/ file' = file /\ \A p \in NewlinesOf(file) :
              offset' < p \/ Len(logs[file]) < offset' => offset < p \/ Len(logs[file]) < offset
         \/ file' \in 1..Newest /\ file < file' /\ \A g \in 1..Newest : file' < g => file < g
  PROVE  ToCome(n)'
<1>1. CASE file' = file /\ \A p \in NewlinesOf(file) :
             offset' < p \/ Len(logs[file]) < offset' => offset < p \/ Len(logs[file]) < offset
  BY <1>1 DEF ToCome, NewlinesOf
<1>2. CASE file' \in 1..Newest /\ file < file' /\ \A g \in 1..Newest : file' < g => file < g
  BY <1>2 DEF ToCome, NewlinesOf
<1> QED
  BY <1>1, <1>2

\* Nothing delivered, the cursor moved on or not at all.
LEMMA DeliveredAsBefore ==
  ASSUME Delivered, faults = 0, pc' = "backfill" => pc = "backfill",
         UNCHANGED <<logs, lines, rewrites, out>>,
         \/ file = 0
         \/ file # 0 /\ file' # 0 /\ \A n \in Nat : ToCome(n) => ToCome(n)',
         file' = 0 => file = 0
  PROVE  Delivered'
<1>1. Written' = Written /\ \A i \in 1..Len(out) : EndOf(i)' = EndOf(i)
  BY DEF Written, Newest, HalfWritten, EndOf
<1>2. CASE file = 0
  <2>1. out = <<>> /\ Len(out) = 0
    BY <1>2, NothingCarried DEF Delivered
  <2> QED
    BY <2>1 DEF Delivered
<1>3. CASE file # 0 /\ file' # 0 /\ \A n \in Nat : ToCome(n) => ToCome(n)'
  <2>1. ASSUME NEW i \in 1..Len(out), rewrites = 0 \/ ~out[i].backfill
        PROVE  ToCome(EndOf(i))'
    <3>1. EndOf(i) \in Nat /\ ToCome(EndOf(i))
      BY <1>3, <2>1 DEF Delivered
    <3>2. PICK n \in Nat : n = EndOf(i)
      BY <3>1
    <3>3. ToCome(n)'
      BY <1>3, <3>1, <3>2
    <3>4. n = EndOf(i)'
      BY <1>1, <2>1, <3>2
    <3> QED
      BY <3>3, <3>4
  <2>2. \A i \in 1..Len(out) :
          /\ EndOf(i) \in Nat /\ EndOf(i) <= Written
          /\ \A j \in 1..Len(out) :
               i < j /\ (rewrites = 0 \/ out[i].backfill = out[j].backfill)
               => EndOf(i) < EndOf(j)
    BY DEF Delivered
  <2> QED
    BY <1>1, <1>3, <2>1, <2>2 DEF Delivered
<1> QED
  BY <1>2, <1>3

LEMMA NothingDelivered ==
  ASSUME out' = <<>>
  PROVE  Delivered'
<1>1. Len(out') = 0
  BY NothingCarried
<1> QED
  BY <1>1 DEF Delivered

LEMMA DeliveredRead ==
  ASSUME Typed, Ordered, Delivered, faults = 0, Read
  PROVE  Delivered'
<1> DEFINE parts == Cut(carry \o Bytes)
           s == logs[file]
<1>1. /\ UNCHANGED <<logs, lines, rewrites, file, faults>> /\ pc = "read" /\ pc' # "backfill"
      /\ offset' = offset + Len(Bytes) /\ out' = out \o AsLines(parts.pieces, FALSE)
  BY DEF Read, Deliver, AsLines, vrchat
<1>2. /\ s \in Seq(Chunks) /\ Len(s) \in Nat /\ offset \in Nat /\ size \in Nat /\ file # 0
      /\ out \in Seq(Outs)
  BY <1>1, Numbers, LenProperties DEF Typed, Placed, Cursor
<1>3. carry \in Seq(Chunks) /\ NoNewline(carry)
  BY DEF Typed, Cursor, Placed
<1>4. ArePieces(parts.pieces) /\ \E at : EndAt(parts.pieces, s, offset, offset + Len(Bytes), at)
  BY <1>2, <1>3, ReadDelivers
<1> HIDE DEF parts
<1>5. PICK P, lo, hi : P = parts.pieces /\ lo = offset /\ hi = offset + Len(Bytes)
  OBVIOUS
<1>6. PICK at : EndAt(P, s, lo, hi, at)
  BY <1>4, <1>5
<1>7. /\ Len(Bytes) \in Nat /\ (offset <= Len(s) => offset + Len(Bytes) <= Len(s))
      /\ (Len(s) < offset => Len(Bytes) = 0)
  BY <1>2, BytesAre
<1>8. /\ lo \in Nat /\ hi \in Nat /\ offset' = hi /\ lo <= hi
      /\ (lo < hi => hi <= Len(s)) /\ (Len(s) < hi => Len(s) < lo)
  BY <1>1, <1>2, <1>5, <1>7
<1>9. /\ ArePieces(P) /\ out' = out \o AsLines(P, FALSE)
  BY <1>1, <1>4, <1>5
<1>10. \A p \in NewlinesOf(file) : p \in Nat
  BY <1>2 DEF NewlinesOf
<1>11. ASSUME NEW i \in 1..Len(out)
       PROVE  /\ rewrites = 0 \/ ~out[i].backfill => ToCome(EndOf(i))'
              /\ rewrites = 0 \/ out[i].backfill = FALSE =>
                   \A p \in NewlinesOf(file) : p \in (lo+1)..hi => EndOf(i) < s[p].line
  <2> SUFFICES ASSUME rewrites = 0 \/ ~out[i].backfill
               PROVE  /\ ToCome(EndOf(i))'
                      /\ \A p \in NewlinesOf(file) : p \in (lo+1)..hi => EndOf(i) < s[p].line
    OBVIOUS
  <2>1. EndOf(i) \in Nat /\ ToCome(EndOf(i))
    BY <1>2 DEF Delivered
  <2>2. PICK n \in Nat : n = EndOf(i)
    BY <2>1
  <2>3. EndOf(i)' = n
    <3>1. out'[i] = out[i]
      <4>1. FALSE \in BOOLEAN
        OBVIOUS
      <4> DEFINE new == out \o AsLines(P, FALSE)
      <4>2. \A j \in 1..Len(out) : new[j] = out[j]
        BY <1>2, <1>9, <4>1, Delivering
      <4>3. out' = new
        BY <1>9
      <4> HIDE DEF new
      <4> QED
        BY <4>2, <4>3
    <3> QED
      BY <2>2, <3>1 DEF EndOf
  <2>4. \A p \in NewlinesOf(file) :
          offset' < p \/ Len(s) < offset' => offset < p \/ Len(s) < offset
    BY <1>2, <1>5, <1>8, <1>10
  <2>5. ToCome(n)'
    <3>1. Newest' = Newest /\ file' = file /\ UNCHANGED logs
      BY <1>1 DEF Newest
    <3>2. ToCome(n)
      BY <2>1, <2>2
    <3> QED
      BY <2>4, <3>1, <3>2, ToComeOn
  <2>6. \A p \in NewlinesOf(file) : p \in (lo+1)..hi => EndOf(i) < s[p].line
    <3> SUFFICES ASSUME NEW p \in NewlinesOf(file), p \in (lo+1)..hi PROVE EndOf(i) < s[p].line
      OBVIOUS
    <3>1. offset < p
      BY <1>5, <1>8
    <3> QED
      BY <2>1, <3>1 DEF ToCome
  <2> QED
    BY <2>3, <2>5, <2>6
<1>12. /\ FALSE \in BOOLEAN /\ hi <= offset' /\ offset' \in Nat
       /\ (lo < hi => offset' <= Len(logs[file])) /\ (lo < hi => hi <= Len(logs[file]))
  BY <1>8
<1> QED
  BY <1>1, <1>2, <1>6, <1>8, <1>9, <1>11, <1>12, DeliveredMore

LEMMA DeliveredBackfill ==
  ASSUME Typed, Ordered, Delivered, faults = 0, Backfill
  PROVE  Delivered'
<1> SUFFICES ASSUME faults' = 0 PROVE Delivered'
  BY DEF Delivered
<1> DEFINE s == logs[file]
<1>1. /\ UNCHANGED <<logs, lines, rewrites, file, offset>> /\ pc = "backfill" /\ pc' # "backfill"
  BY DEF Backfill, vrchat, cursor
<1>2. /\ s \in Seq(Chunks) /\ Len(s) \in Nat /\ offset \in Nat /\ file # 0
  BY <1>1, Numbers, LenProperties DEF Typed, Placed
<1>3. out = <<>> /\ Len(out) = 0
  BY <1>1, NothingCarried DEF Delivered
<1>4. PICK P : /\ ArePieces(P)
               /\ \E at : EndAt(P, s, 0, Smaller(offset, Len(s)), at)
               /\ out' = out \o AsLines(P, TRUE) \/ out' = out
  BY <1>2, BackfillDelivers
<1>5. CASE out' = out
  BY <1>3, <1>5, NothingDelivered
<1>6. CASE out' = out \o AsLines(P, TRUE)
  <2>1. PICK hi : hi = Smaller(offset, Len(s))
    OBVIOUS
  <2>2. PICK at : EndAt(P, s, 0, hi, at)
    BY <1>4, <2>1
  <2>3. hi \in Nat /\ hi <= offset /\ hi <= Len(s)
    BY <1>2, <2>1, SmallerIs
  <2>4. rewrites = 0 => offset <= Len(s)
    BY <1>2 DEF Typed, Placed, Cursor
  <2>5. 1..Len(out) = {}
    BY <1>3
  <2>6. /\ 0 \in Nat /\ TRUE \in BOOLEAN /\ hi <= offset' /\ offset' \in Nat /\ faults' = faults
        /\ (rewrites = 0 \/ ~TRUE) => (0 < hi => offset' <= Len(logs[file]))
        /\ 0 < hi => hi <= Len(logs[file])
    BY <1>1, <1>2, <2>3, <2>4
  <2> QED
    BY <1>1, <1>2, <1>4, <1>6, <2>2, <2>3, <2>5, <2>6, DeliveredMore
<1> QED
  BY <1>4, <1>5, <1>6

LEMMA DeliveredNext ==
  ASSUME Typed, Ordered, Delivered, [TailerNext]_tailerVars
  PROVE  Delivered'
<1>0. faults \in Nat /\ Newest \in Nat /\ file \in Nat /\ offset \in Nat
  BY Numbers
<1>1. CASE UNCHANGED tailerVars /\ faults = 0
  <2>1. UNCHANGED <<logs, lines, rewrites, pc, file, offset, out>>
    BY <1>1 DEF tailerVars, vrchat, cursor
  <2>2. \A n \in Nat : ToCome(n) => ToCome(n)'
    BY <2>1 DEF ToCome, NewlinesOf, Newest
  <2> QED
    BY <1>1, <2>1, <2>2, DeliveredAsBefore
<1>2. CASE Launch \/ Flush \/ Rewrite
  <2>1. LogStep
    BY <1>2, LaunchSteps, FlushSteps, RewriteSteps DEF Typed
  <2>2. UNCHANGED <<pc, file, offset, out, faults>>
    BY <1>2 DEF Launch, Flush, Rewrite, Idle, cursor
  <2>3. rewrites' = 0 => rewrites = 0
    <3>1. rewrites \in Nat
      BY LogTailerAssumption DEF Typed, Cursor
    <3>2. rewrites' = rewrites \/ rewrites' = rewrites + 1
      BY <1>2 DEF Launch, Flush, Rewrite
    <3> QED
      BY <3>1, <3>2
  <2> QED
    BY <2>1, <2>2, <2>3, DeliveredSteps
<1>3. CASE StartTailer \/ StopTailer
  BY <1>3, NothingDelivered DEF StartTailer, StopTailer
<1>4. CASE MeasureFails \/ Hiccup
  <2>1. faults' # 0
    <3>1. faults' = faults + 1
      BY <1>4 DEF MeasureFails, Hiccup
    <3> QED
      BY <1>0, <3>1
  <2> QED
    BY <2>1 DEF Delivered
<1>5. CASE faults # 0
  <2>1. faults' # 0
    <3>1. \/ faults' = faults
          \/ faults' = faults + 1
      BY DEF TailerNext, Tick, Launch, Flush, Rewrite, Idle, StartTailer, StopTailer, PickSame, FirstAttach, Switch,
             Backfill, Measure, Read, MeasureFails, Hiccup, tailerVars
    <3> QED
      BY <1>0, <1>5, <3>1
  <2> QED
    BY <2>1 DEF Delivered
<1>6. CASE PickSame /\ faults = 0
  <2>1. /\ UNCHANGED <<logs, lines, rewrites, out, file, offset>> /\ pc' # "backfill" /\ file # 0
    BY <1>0, <1>6 DEF PickSame, vrchat, cursor
  <2>2. \A n \in Nat : ToCome(n) => ToCome(n)'
    BY <2>1 DEF ToCome, NewlinesOf, Newest
  <2> QED
    BY <1>6, <2>1, <2>2, DeliveredAsBefore
<1>7. CASE FirstAttach /\ faults = 0
  <2>1. file = 0 /\ out' = out
    BY <1>7 DEF FirstAttach, Typed, Placed
  <2>2. out = <<>>
    BY <1>7, <2>1 DEF Delivered
  <2> QED
    BY <2>1, <2>2, NothingDelivered
<1>8. CASE Switch /\ faults = 0
  <2>1. /\ UNCHANGED <<logs, lines, rewrites, out>> /\ pc = "pick" /\ pc' # "backfill"
        /\ file' = Newest /\ file # Newest /\ Newest > 0
    BY <1>8 DEF Switch, vrchat
  <2>2. Newest' = Newest /\ file < Newest /\ file' \in 1..Newest /\ file' # 0
    BY <1>0, <2>1 DEF Newest, Typed, Cursor
  <2>3. \A g \in 1..Newest : file' < g => file < g
    BY <1>0, <2>1, <2>2
  <2>4. \A n \in Nat : ToCome(n) => ToCome(n)'
    BY <2>1, <2>2, <2>3, ToComeOn
  <2> QED
    BY <1>8, <2>1, <2>2, <2>4, DeliveredAsBefore
<1>9. CASE Measure /\ faults = 0
  <2>1. /\ UNCHANGED <<logs, lines, rewrites, out, file>> /\ pc = "measure" /\ pc' # "backfill"
        /\ file # 0 /\ Newest' = Newest
    BY <1>9 DEF Measure, vrchat, Typed, Placed, Newest
  <2>2. offset' = offset \/ Len(logs[file]) < offset
    BY <1>9 DEF Measure
  <2>3. \A p \in NewlinesOf(file) :
          offset' < p \/ Len(logs[file]) < offset' => offset < p \/ Len(logs[file]) < offset
    BY <2>2
  <2>4. \A n \in Nat : ToCome(n) => ToCome(n)'
    BY <2>1, <2>3, ToComeOn
  <2> QED
    BY <1>9, <2>1, <2>4, DeliveredAsBefore
<1>10. CASE Backfill /\ faults = 0
  BY <1>10, DeliveredBackfill
<1>11. CASE Read /\ faults = 0
  BY <1>11, DeliveredRead
<1> QED
  BY <1>1, <1>2, <1>3, <1>4, <1>5, <1>6, <1>7, <1>8, <1>9, <1>10, <1>11 DEF TailerNext, Tick

LEMMA OrderedNext ==
  ASSUME Typed, Ordered, [TailerNext]_tailerVars
  PROVE  Ordered'
<1>1. CASE Launch \/ Flush \/ Rewrite
  <2>1. LogStep
    BY <1>1, LaunchSteps, FlushSteps, RewriteSteps DEF Typed
  <2> QED
    BY <2>1, OrderedSteps DEF Typed
<1>2. CASE UNCHANGED <<logs, lines>>
  BY <1>2 DEF Ordered, Written, Newest, HalfWritten, NewlinesOf
<1>3. Launch \/ Flush \/ Rewrite \/ UNCHANGED <<logs, lines>>
  BY DEF TailerNext, Tick, StartTailer, StopTailer, PickSame, FirstAttach, Switch,
         Backfill, Measure, Read, MeasureFails, Hiccup, tailerVars, vrchat
<1> QED
  BY <1>1, <1>2, <1>3

LEMMA DeliveredIsNoLineTwice ==
  ASSUME Typed, Delivered
  PROVE  NoLineTwice
<1> SUFFICES ASSUME faults = 0, NEW i \in 1..Len(out), NEW j \in 1..Len(out), i # j,
                    Last(out[i].text) = Last(out[j].text)
             PROVE  rewrites > 0 /\ out[i].backfill # out[j].backfill
  BY DEF NoLineTwice
<1>1. EndOf(i) = EndOf(j) /\ EndOf(i) \in Nat
  BY DEF EndOf, Delivered
<1>2. \A k, l \in 1..Len(out) :
        k < l /\ (rewrites = 0 \/ out[k].backfill = out[l].backfill) => EndOf(k) < EndOf(l)
  BY DEF Delivered
<1>3. (i < j \/ j < i) /\ rewrites \in Nat
  BY Numbers, LogTailerAssumption DEF Typed, Cursor
<1>4. ~(rewrites = 0 \/ out[i].backfill = out[j].backfill)
  BY <1>1, <1>2, <1>3
<1> QED
  BY <1>3, <1>4

(***************************************************************************)
(* NoLineTwice for any number of launches, lines, rewrites and starts and  *)
(* any buffer size: however flushes, launches, rewrites and reads fall, a  *)
(* switch, a rewrite and the replay never make OnFileSwitched,             *)
(* ReadNewBytes and BackfillTail deliver a line again.                     *)
(***************************************************************************)
THEOREM NeverALineTwice == TailerSpec => []NoLineTwice
<1>1. TailerInit => Typed /\ Ordered /\ Delivered
  <2> SUFFICES ASSUME TailerInit PROVE Typed /\ Ordered /\ Delivered
    OBVIOUS
  <2>1. Newest = 0 /\ Len(out) = 0 /\ out = <<>>
    BY NothingCarried DEF TailerInit, Newest
  <2> QED
    BY <2>1, TypedInit DEF Ordered, Delivered
<1>2. Typed /\ Ordered /\ Delivered /\ [TailerNext]_tailerVars => (Typed /\ Ordered /\ Delivered)'
  BY TypedNext, OrderedNext, DeliveredNext
<1>3. Typed /\ Delivered => NoLineTwice
  BY DeliveredIsNoLineTwice
<1> QED
  BY <1>1, <1>2, <1>3, PTL DEF TailerSpec
-----------------------------------------------------------------------------
(***************************************************************************)
(* The radar.  It is proved here, beside the tailer it builds on, because  *)
(* both are about a log that grows; the two state machines share no        *)
(* variable.                                                               *)
(***************************************************************************)
(* What a log s says after its first n lines: the line that entered the     *)
(* room, and who is in it.                                                  *)
WorldAt(s, n) == Max({i \in 1..n : s[i].kind = "world"} \cup {0})
Concerns(s, i, p) == s[i].who = p /\ s[i].kind \in {"joined", "left"}
Present(s, n) ==
  {p \in Players : LET mine == {i \in (WorldAt(s, n) + 1)..n : Concerns(s, i, p)}
                   IN  mine # {} /\ s[Max(mine)].kind = "joined"}

LEMMA RadarReads ==
  ASSUME NEW n
  PROVE  /\ LastWorld(n) = WorldAt(log, n)
         /\ InRoom(n) = Present(log, n)
<1>1. LastWorld(n) = WorldAt(log, n)
  BY DEF LastWorld, None, WorldAt
<1>2. InRoom(n) = {p \in Players :
  LET mine == {i \in (WorldAt(log, n) + 1)..n : Concerns(log, i, p)}
  IN  mine # {} /\ log[Max(mine)].kind = "joined"}
  BY <1>1 DEF InRoom, Concerns
<1> QED
  BY <1>1, <1>2 DEF Present

\* A bounded set of numbers has its greatest element.
LEMMA Greatest ==
  ASSUME NEW n \in Nat, NEW q \in SUBSET (0..n), q # {}
  PROVE  Max(q) \in q /\ \A y \in q : y <= Max(q)
<1> DEFINE T == {x \in 0..n : n - x \in q}
<1>1. T \in SUBSET Nat /\ T # {}
  <2>1. PICK y \in q : TRUE
    OBVIOUS
  <2>2. y \in 0..n /\ n - y \in 0..n /\ n - (n - y) = y
    OBVIOUS
  <2> QED
    BY <2>1, <2>2
<1>2. PICK x \in T : \A y \in T : x <= y
  <2> HIDE DEF T
  <2> QED
    BY <1>1, LeastElement
<1>3. n - x \in q /\ x \in 0..n
  BY <1>2
<1>4. \A y \in q : y <= n - x
  <2> TAKE y \in q
  <2>1. y \in 0..n /\ n - y \in 0..n /\ n - (n - y) = y
    OBVIOUS
  <2>2. x <= n - y
    BY <1>2, <2>1
  <2> QED
    BY <1>3, <2>1, <2>2
<1>5. Max(q) = n - x
  <2>1. q \in SUBSET Nat
    OBVIOUS
  <2> QED
    BY <1>3, <1>4, <2>1, MaxIs
<1> QED
  BY <1>3, <1>4, <1>5

LEMMA WorldAtIs ==
  ASSUME NEW s, NEW n \in Nat
  PROVE  /\ WorldAt(s, n) \in 0..n
         /\ WorldAt(s, n) # 0 => s[WorldAt(s, n)].kind = "world"
         /\ \A i \in 1..n : s[i].kind = "world" => i <= WorldAt(s, n)
<1> DEFINE q == {i \in 1..n : s[i].kind = "world"} \cup {0}
<1>1. q \in SUBSET (0..n) /\ q # {}
  OBVIOUS
<1>2. Max(q) \in q /\ \A y \in q : y <= Max(q)
  <2> HIDE DEF q
  <2> QED
    BY <1>1, Greatest
<1> QED
  BY <1>1, <1>2 DEF WorldAt

LEMMA WorldAtIsThe ==
  ASSUME NEW s, NEW n \in Nat, NEW w \in 0..n, w # 0 => s[w].kind = "world",
         \A i \in 1..n : s[i].kind = "world" => i <= w
  PROVE  WorldAt(s, n) = w
<1>1. /\ WorldAt(s, n) \in 0..n
      /\ WorldAt(s, n) # 0 => s[WorldAt(s, n)].kind = "world"
      /\ \A i \in 1..n : s[i].kind = "world" => i <= WorldAt(s, n)
  BY WorldAtIs
<1>2. w <= WorldAt(s, n)
  BY <1>1
<1>3. WorldAt(s, n) <= w
  BY <1>1
<1> QED
  BY <1>1, <1>2, <1>3

\* Who is in the room is decided by the last line that concerns him.
LEMMA PresentIs ==
  ASSUME NEW s, NEW n \in Nat, NEW p \in Players
  PROVE  p \in Present(s, n) <=>
           \E i \in (WorldAt(s, n) + 1)..n :
             /\ Concerns(s, i, p) /\ s[i].kind = "joined"
             /\ \A j \in (i+1)..n : ~Concerns(s, j, p)
<1> DEFINE w == WorldAt(s, n)
           mine == {i \in (w + 1)..n : Concerns(s, i, p)}
<1>1. w \in 0..n
  BY WorldAtIs
<1>2. p \in Present(s, n) <=> mine # {} /\ s[Max(mine)].kind = "joined"
  BY DEF Present
<1> HIDE DEF w
<1>3. mine \in SUBSET (0..n)
  BY <1>1
<1>4. ASSUME mine # {}, s[Max(mine)].kind = "joined"
      PROVE  \E i \in (w + 1)..n : /\ Concerns(s, i, p) /\ s[i].kind = "joined"
                                   /\ \A j \in (i+1)..n : ~Concerns(s, j, p)
  <2>1. Max(mine) \in mine /\ \A y \in mine : y <= Max(mine)
    <3> HIDE DEF mine
    <3> QED
      BY <1>3, <1>4, Greatest
  <2> DEFINE x == Max(mine)
  <2>2. x \in mine /\ \A y \in mine : y <= x
    BY <2>1
  <2>3. s[x].kind = "joined"
    BY <1>4
  <2> HIDE DEF x
  <2>4. \A j \in (x+1)..n : ~Concerns(s, j, p)
    BY <1>1, <2>2
  <2> QED
    BY <2>2, <2>3, <2>4
<1>5. ASSUME NEW i \in (w + 1)..n, Concerns(s, i, p), s[i].kind = "joined",
             \A j \in (i+1)..n : ~Concerns(s, j, p)
      PROVE  mine # {} /\ s[Max(mine)].kind = "joined"
  <2>1. i \in mine
    BY <1>5
  <2>2. \A y \in mine : y <= i
    BY <1>1, <1>5
  <2>3. mine \in SUBSET Nat
    BY <1>3
  <2>4. Max(mine) = i
    <3> HIDE DEF mine
    <3> QED
      BY <2>1, <2>2, <2>3, MaxIs
  <2> QED
    BY <1>5, <2>1, <2>4
<1> QED
  BY <1>2, <1>4, <1>5 DEF w

\* Only a line that enters a room changes the room.
LEMMA SameWorld ==
  ASSUME NEW s, NEW n \in Nat, NEW m \in 0..n, \A i \in (m+1)..n : s[i].kind # "world"
  PROVE  WorldAt(s, n) = WorldAt(s, m)
<1>1. /\ WorldAt(s, m) \in 0..m
      /\ WorldAt(s, m) # 0 => s[WorldAt(s, m)].kind = "world"
      /\ \A i \in 1..m : s[i].kind = "world" => i <= WorldAt(s, m)
  BY WorldAtIs
<1>2. \A i \in 1..n : s[i].kind = "world" => i <= WorldAt(s, m)
  BY <1>1
<1> QED
  BY <1>1, <1>2, WorldAtIsThe

\* Only a line about him, or one that enters a room, changes whether he is in it.
LEMMA SamePresent ==
  ASSUME NEW s, NEW n \in Nat, NEW m \in 0..n, NEW p \in Players,
         \A i \in (m+1)..n : s[i].kind # "world" /\ ~Concerns(s, i, p)
  PROVE  p \in Present(s, n) <=> p \in Present(s, m)
<1> DEFINE w == WorldAt(s, m)
<1>1. WorldAt(s, n) = w /\ w \in 0..m
  BY SameWorld, WorldAtIs
<1> HIDE DEF w
<1>2. p \in Present(s, n) <=> \E i \in (w + 1)..n :
        /\ Concerns(s, i, p) /\ s[i].kind = "joined" /\ \A j \in (i+1)..n : ~Concerns(s, j, p)
  BY <1>1, PresentIs
<1>3. p \in Present(s, m) <=> \E i \in (w + 1)..m :
        /\ Concerns(s, i, p) /\ s[i].kind = "joined" /\ \A j \in (i+1)..m : ~Concerns(s, j, p)
  BY PresentIs DEF w
<1>4. ASSUME NEW i \in (w + 1)..n, Concerns(s, i, p)
      PROVE  i \in (w + 1)..m
  BY <1>1, <1>4
<1>5. ASSUME NEW i \in (w + 1)..m
      PROVE  (\A j \in (i+1)..n : ~Concerns(s, j, p)) <=> \A j \in (i+1)..m : ~Concerns(s, j, p)
  <2>1. \A j \in (i+1)..n : j \in (i+1)..m \/ j \in (m+1)..n
    BY <1>1
  <2>2. \A j \in (i+1)..m : j \in (i+1)..n
    BY <1>1
  <2> QED
    BY <2>1, <2>2
<1>6. (w + 1)..m \subseteq (w + 1)..n
  BY <1>1
<1> QED
  BY <1>2, <1>3, <1>4, <1>5, <1>6

\* The last line that concerns him decides, also after the one that entered.
LEMMA LastDecides ==
  ASSUME NEW s, NEW n \in Nat, NEW m \in 1..n, NEW p \in Players, WorldAt(s, n) <= m,
         \A i \in (m+1)..n : ~Concerns(s, i, p)
  PROVE  /\ WorldAt(s, n) = m => p \notin Present(s, n)
         /\ Concerns(s, m, p) => (p \in Present(s, n) <=> s[m].kind = "joined")
<1> DEFINE w == WorldAt(s, n)
<1>1. w \in 0..n /\ (w # 0 => s[w].kind = "world")
  BY WorldAtIs
<1>2. p \in Present(s, n) <=> \E i \in (w + 1)..n :
        /\ Concerns(s, i, p) /\ s[i].kind = "joined" /\ \A j \in (i+1)..n : ~Concerns(s, j, p)
  BY PresentIs
<1>3. w <= m
  OBVIOUS
<1> HIDE DEF w
<1>4. w = m => p \notin Present(s, n)
  BY <1>1, <1>2, <1>3
<1>5. ASSUME Concerns(s, m, p) PROVE p \in Present(s, n) <=> s[m].kind = "joined"
  <2>1. w # m
    BY <1>1, <1>5 DEF Concerns
  <2>2. m \in (w + 1)..n
    BY <1>1, <1>3, <2>1
  <2>3. ASSUME NEW i \in (w + 1)..n, Concerns(s, i, p), \A j \in (i+1)..n : ~Concerns(s, j, p)
        PROVE  i = m
    <3>1. i \notin (m+1)..n /\ m \notin (i+1)..n
      BY <1>5, <2>3
    <3> QED
      BY <1>1, <3>1
  <2> QED
    BY <1>2, <1>5, <2>2, <2>3
<1> QED
  BY <1>4, <1>5 DEF w

\* A log that grows keeps what it said.
LEMMA SameLog ==
  ASSUME NEW s, NEW t, NEW n \in Nat, \A i \in 1..n : t[i] = s[i]
  PROVE  WorldAt(t, n) = WorldAt(s, n) /\ Present(t, n) = Present(s, n)
<1>1. WorldAt(t, n) = WorldAt(s, n)
  BY DEF WorldAt
<1> DEFINE w == WorldAt(s, n)
<1>2. w \in 0..n
  BY WorldAtIs
<1> HIDE DEF w
<1>3. \A p : {i \in (w + 1)..n : Concerns(t, i, p)} = {i \in (w + 1)..n : Concerns(s, i, p)}
  <2>1. \A i \in (w + 1)..n : t[i] = s[i]
    BY <1>2
  <2> QED
    BY <2>1 DEF Concerns
<1>4. ASSUME NEW p \in Players
      PROVE  p \in Present(t, n) <=> p \in Present(s, n)
  <2>1. p \in Present(s, n) <=> \E i \in (w + 1)..n :
        /\ Concerns(s, i, p) /\ s[i].kind = "joined" /\ \A j \in (i+1)..n : ~Concerns(s, j, p)
    BY PresentIs DEF w
  <2>2. p \in Present(t, n) <=> \E i \in (w + 1)..n :
        /\ Concerns(t, i, p) /\ t[i].kind = "joined" /\ \A j \in (i+1)..n : ~Concerns(t, j, p)
    BY <1>1, PresentIs DEF w
  <2>3. \A i \in (w + 1)..n : /\ Concerns(t, i, p) <=> Concerns(s, i, p)
                              /\ t[i].kind = s[i].kind
                              /\ \A j \in (i+1)..n : Concerns(t, j, p) <=> Concerns(s, j, p)
    BY <1>2 DEF Concerns
  <2> QED
    BY <2>1, <2>2, <2>3
<1>5. Present(s, n) \subseteq Players /\ Present(t, n) \subseteq Players
  BY DEF Present
<1> QED
  BY <1>1, <1>4, <1>5

-----------------------------------------------------------------------------
(* The folds of Render and ScanAnswers                                     *)

\* The step of each: React runs an update, the page processes an event.
Rendered(v, u) == [room |-> Ran(v.room, u),
                   ref |-> IF u.op = "set" THEN v.ref ELSE Ran(v.room, u)]
Folded(by, v, x) == IF by = "Render" THEN Rendered(v, x) ELSE Processed(v, x, FALSE)

NextFold(f, by, first, s, q) ==
  IF q = {} THEN first ELSE Folded(by, f[q \ {Max(q)}], s[Max(q)])
AreFolds(f, by, first, s, D) ==
  f = [q \in SUBSET D |-> IF q = {} THEN first ELSE Folded(by, f[q \ {Max(q)}], s[Max(q)])]

LEMMA FoldsAre ==
  ASSUME NEW f, NEW by, NEW first, NEW s, NEW D
  PROVE  AreFolds(f, by, first, s, D) <=>
           /\ f = [q \in SUBSET D |-> f[q]]
           /\ \A q \in SUBSET D : f[q] = NextFold(f, by, first, s, q)
<1> DEFINE g == [q \in SUBSET D |-> NextFold(f, by, first, s, q)]
<1>1. AreFolds(f, by, first, s, D) <=> f = g
  BY DEF AreFolds, NextFold
<1>2. g = [q \in SUBSET D |-> g[q]] /\ \A q \in SUBSET D : g[q] = NextFold(f, by, first, s, q)
  OBVIOUS
<1>3. /\ f = [q \in SUBSET D |-> f[q]]
      /\ \A q \in SUBSET D : f[q] = NextFold(f, by, first, s, q)
      => f = g
  OBVIOUS
<1> HIDE DEF g
<1> QED
  BY <1>1, <1>2, <1>3

LEMMA FoldsExist ==
  ASSUME NEW by, NEW first, NEW s, NEW n \in Nat
  PROVE  \E f : AreFolds(f, by, first, s, 1..n)
<1> DEFINE T == {m \in Nat : \E f : AreFolds(f, by, first, s, 1..m)}
<1>1. 0 \in T
  <2> DEFINE f == [q \in SUBSET (1..0) |-> first]
  <2>1. f = [q \in SUBSET (1..0) |-> f[q]] /\ \A q \in SUBSET (1..0) : f[q] = first /\ q = {}
    OBVIOUS
  <2> HIDE DEF f
  <2>2. \A q \in SUBSET (1..0) : f[q] = NextFold(f, by, first, s, q)
    BY <2>1 DEF NextFold
  <2> QED
    BY <2>1, <2>2, FoldsAre
<1>2. ASSUME NEW m \in Nat, m \in T PROVE m + 1 \in T
  <2>1. PICK f : AreFolds(f, by, first, s, 1..m)
    BY <1>2
  <2>2. \A q \in SUBSET (1..m) : f[q] = NextFold(f, by, first, s, q)
    BY <2>1, FoldsAre
  <2> DEFINE D == 1..(m+1)
             g == [q \in SUBSET D |->
                     IF m + 1 \in q THEN Folded(by, f[q \ {m+1}], s[m+1]) ELSE f[q]]
  <2>3. /\ g = [q \in SUBSET D |-> g[q]]
        /\ \A q \in SUBSET D : m + 1 \in q => g[q] = Folded(by, f[q \ {m+1}], s[m+1])
        /\ \A q \in SUBSET D : m + 1 \notin q => g[q] = f[q]
    OBVIOUS
  <2> HIDE DEF g
  <2>4. \A q \in SUBSET D : m + 1 \notin q => q \in SUBSET (1..m)
    OBVIOUS
  <2>5. \A q \in SUBSET D : g[q] = NextFold(g, by, first, s, q)
    <3> TAKE q \in SUBSET D
    <3>1. CASE m + 1 \in q
      <4>1. Max(q) = m + 1
        <5>1. q \in SUBSET Nat /\ \A y \in q : y <= m + 1
          OBVIOUS
        <5> QED
          BY <3>1, <5>1, MaxIs
      <4>2. q \ {m+1} \in SUBSET D /\ m + 1 \notin q \ {m+1}
        OBVIOUS
      <4> QED
        BY <2>3, <3>1, <4>1, <4>2 DEF NextFold
    <3>2. CASE m + 1 \notin q
      <4>1. q \in SUBSET (1..m) /\ q \ {Max(q)} \in SUBSET D /\ m + 1 \notin q \ {Max(q)}
        BY <2>4, <3>2
      <4>2. g[q] = f[q] /\ g[q \ {Max(q)}] = f[q \ {Max(q)}] /\ f[q] = NextFold(f, by, first, s, q)
        BY <2>2, <2>3, <3>2, <4>1
      <4> QED
        BY <4>2 DEF NextFold
    <3> QED
      BY <3>1, <3>2
  <2> HIDE DEF D
  <2>6. AreFolds(g, by, first, s, D)
    BY <2>3, <2>5, FoldsAre
  <2> QED
    BY <2>6 DEF D
<1> HIDE DEF T
<1>3. \A m \in Nat : m \in T
  BY <1>1, <1>2, InductionOnNat
<1> QED
  BY <1>3 DEF T

\* The fold goes through the sequence from the first element to the last.
FoldsTo(by, first, s, end) ==
  \E h : /\ h[0] = first
         /\ \A i \in 1..Len(s) : h[i] = Folded(by, h[i-1], s[i])
         /\ end = h[Len(s)]

LEMMA FoldIs ==
  ASSUME NEW by, NEW first, NEW S, NEW s \in Seq(S), NEW f, AreFolds(f, by, first, s, DOMAIN s)
  PROVE  FoldsTo(by, first, s, f[DOMAIN s])
<1> DEFINE n == Len(s)
           h == [i \in 0..n |-> f[1..i]]
<1>1. n \in Nat /\ DOMAIN s = 1..n
  BY LenProperties
<1>2. \A q \in SUBSET (1..n) : f[q] = NextFold(f, by, first, s, q)
  <2> HIDE DEF n
  <2> QED
    BY <1>1, FoldsAre
<1> HIDE DEF n
<1>3. h[0] = first
  <2>1. 1..0 = {} /\ {} \in SUBSET (1..n)
    OBVIOUS
  <2>2. f[{}] = first
    BY <1>2, <2>1 DEF NextFold
  <2> QED
    BY <1>1, <2>1, <2>2
<1>4. \A i \in 1..n : h[i] = Folded(by, h[i-1], s[i])
  <2> TAKE i \in 1..n
  <2>1. 1..i \in SUBSET (1..n) /\ 1..i # {} /\ (1..i) \ {i} = 1..(i-1) /\ i \in Nat
    <3>1. i \in Nat /\ i >= 1 /\ i <= n
      BY <1>1
    <3>2. 1..i \in SUBSET (1..n) /\ i \in 1..i
      BY <1>1, <3>1
    <3>3. (1..i) \ {i} = 1..(i-1)
      BY <3>1
    <3> QED
      BY <3>1, <3>2, <3>3
  <2>2. Max(1..i) = i
    BY <2>1, MaxIs
  <2>3. f[1..i] = Folded(by, f[1..(i-1)], s[i])
    BY <1>2, <2>1, <2>2 DEF NextFold
  <2>4. i \in 0..n /\ i - 1 \in 0..n
    BY <1>1
  <2> QED
    BY <2>3, <2>4
<1>5. f[DOMAIN s] = h[n]
  <2>1. n \in 0..n
    BY <1>1
  <2> QED
    BY <1>1, <2>1
<1> HIDE DEF h
<1> QED
  BY <1>3, <1>4, <1>5 DEF n, FoldsTo

LEMMA RenderFolds ==
  ASSUME NEW S, updates \in Seq(S), Render
  PROVE  \E end : /\ FoldsTo("Render", [room |-> shown, ref |-> ref], updates, end)
                  /\ shown' = end.room /\ ref' = end.ref
<1> DEFINE first == [room |-> shown, ref |-> ref]
           A(g) == g = [q \in SUBSET (DOMAIN updates) |->
                          IF q = {} THEN first
                          ELSE Rendered(g[q \ {Max(q)}], updates[Max(q)])]
           f == CHOOSE g : A(g)
<1>1. shown' = f[DOMAIN updates].room /\ ref' = f[DOMAIN updates].ref
  BY DEF Render, FoldLeft, MapThenFoldSet, Rendered
<1>2. \A g : A(g) <=> AreFolds(g, "Render", first, updates, DOMAIN updates)
  BY DEF AreFolds, Folded
<1>3. \E g : AreFolds(g, "Render", first, updates, DOMAIN updates)
  <2>1. DOMAIN updates = 1..Len(updates) /\ Len(updates) \in Nat
    BY LenProperties
  <2> HIDE DEF first
  <2> QED
    BY <2>1, FoldsExist
<1>4. A(f)
  <2>1. \E g : A(g)
    BY <1>2, <1>3
  <2> HIDE DEF A
  <2> QED
    BY <2>1
<1>5. AreFolds(f, "Render", first, updates, DOMAIN updates)
  BY <1>2, <1>4
<1> HIDE DEF f, first
<1> QED
  BY <1>1, <1>5, FoldIs DEF first

\* What the page shows before the queue: the room as the scan has it.
Hydrated == [Replaced(View, RoomOf(InRoom(scanned)))
         EXCEPT !.cur = IF LastWorld(scanned) = None THEN cur
                        ELSE LastWorld(scanned)]

LEMMA ScanFolds ==
  ASSUME NEW S, queue \in Seq(S), ScanAnswers
  PROVE  \E end : /\ FoldsTo("ScanAnswers", Hydrated, queue, end)
                  /\ cur' = end.cur /\ updates' = end.updates /\ ref' = end.ref
<1> DEFINE A(g) == g = [q \in SUBSET (DOMAIN queue) |->
                          IF q = {} THEN Hydrated
                          ELSE Processed(g[q \ {Max(q)}], queue[Max(q)], FALSE)]
           f == CHOOSE g : A(g)
<1>1. cur' = f[DOMAIN queue].cur /\ updates' = f[DOMAIN queue].updates /\ ref' = f[DOMAIN queue].ref
  BY DEF ScanAnswers, Show, FoldLeft, MapThenFoldSet, Hydrated
<1>2. \A g : A(g) <=> AreFolds(g, "ScanAnswers", Hydrated, queue, DOMAIN queue)
  BY DEF AreFolds, Folded
<1>3. \E g : AreFolds(g, "ScanAnswers", Hydrated, queue, DOMAIN queue)
  <2>1. DOMAIN queue = 1..Len(queue) /\ Len(queue) \in Nat
    BY LenProperties
  <2> QED
    BY <2>1, FoldsExist
<1>4. A(f)
  <2>1. \E g : A(g)
    BY <1>2, <1>3
  <2> HIDE DEF A
  <2> QED
    BY <2>1
<1>5. AreFolds(f, "ScanAnswers", Hydrated, queue, DOMAIN queue)
  BY <1>2, <1>4
<1> HIDE DEF f
<1> QED
  BY <1>1, <1>5, FoldIs
-----------------------------------------------------------------------------
(* What the page will show                                                 *)

Rooms == [Players -> {"out", "in", "ghost"}]
Handings == [op : {"set"}, room : Rooms] \cup [op : {"joined", "left", "avatar"}, who : Players]

\* What React makes of a room, a list of updates later.
ComesTo(room, us, end) ==
  \E h \in [0..Len(us) -> Rooms] :
    /\ h[0] = room
    /\ \A i \in 1..Len(us) : h[i] = Ran(h[i-1], us[i])
    /\ h[Len(us)] = end

\* Who is on the radar, with a name.
Seen(room) == {p \in Players : room[p] = "in"}

LEMMA RanRoom ==
  ASSUME NEW room \in Rooms, NEW u \in Handings
  PROVE  Ran(room, u) \in Rooms
<1>1. CASE u \in [op : {"set"}, room : Rooms]
  BY <1>1 DEF Ran
<1>2. CASE u \in [op : {"joined", "left", "avatar"}, who : Players]
  BY <1>2 DEF Ran, Rooms
<1> QED
  BY <1>1, <1>2 DEF Handings

LEMMA RanSeen ==
  ASSUME NEW room \in Rooms, NEW p \in Players
  PROVE  /\ Seen(Ran(room, [op |-> "joined", who |-> p])) = Seen(room) \cup {p}
         /\ Seen(Ran(room, [op |-> "left", who |-> p])) = Seen(room) \ {p}
         /\ Seen(Ran(room, [op |-> "avatar", who |-> p])) = Seen(room)
<1>1. Ran(room, [op |-> "joined", who |-> p]) = [room EXCEPT ![p] = "in"]
  BY DEF Ran
<1>2. Ran(room, [op |-> "left", who |-> p]) = [room EXCEPT ![p] = "out"]
  BY DEF Ran
<1>3. Ran(room, [op |-> "avatar", who |-> p])
  = [room EXCEPT ![p] = IF @ = "out" THEN "ghost" ELSE @]
  BY DEF Ran
<1> QED
  BY <1>1, <1>2, <1>3 DEF Seen, Rooms

LEMMA ComesNone ==
  ASSUME NEW room \in Rooms
  PROVE  ComesTo(room, <<>>, room)
<1> DEFINE h == [i \in 0..0 |-> room]
<1>1. Len(<<>>) = 0 /\ h \in [0..0 -> Rooms] /\ h[0] = room
  BY EmptySeq
<1> HIDE DEF h
<1>2. \A i \in 1..Len(<<>>) : h[i] = Ran(h[i-1], <<>>[i])
  BY <1>1
<1>3. 0..Len(<<>>) = 0..0 /\ h[Len(<<>>)] = room
  BY <1>1
<1> QED
  BY <1>1, <1>2, <1>3 DEF ComesTo

LEMMA ComesAppend ==
  ASSUME NEW room, NEW us \in Seq(Handings), NEW end, ComesTo(room, us, end), NEW u \in Handings
  PROVE  /\ ComesTo(room, Append(us, u), Ran(end, u))
         /\ Ran(end, u) \in Rooms /\ Append(us, u) \in Seq(Handings)
<1> DEFINE n == Len(us)
           vs == Append(us, u)
           last == Ran(end, u)
<1>1. n \in Nat /\ vs \in Seq(Handings) /\ Len(vs) = n + 1 /\ vs[n+1] = u /\ \A i \in 1..n : vs[i] = us[i]
  BY AppendProperties, LenProperties
<1>2. PICK h \in [0..n -> Rooms] : /\ h[0] = room
                                   /\ \A i \in 1..n : h[i] = Ran(h[i-1], us[i])
                                   /\ h[n] = end
  BY DEF ComesTo
<1> HIDE DEF n, vs
<1>3. end \in Rooms /\ last \in Rooms
  BY <1>1, <1>2, RanRoom
<1> HIDE DEF last
<1> DEFINE g == [i \in 0..(n+1) |-> IF i = n + 1 THEN last ELSE h[i]]
<1>4. /\ g \in [0..(n+1) -> Rooms] /\ g[n+1] = last /\ \A i \in 0..n : g[i] = h[i]
  BY <1>1, <1>2, <1>3
<1> HIDE DEF g
<1>5. \A i \in 1..(n+1) : g[i] = Ran(g[i-1], vs[i])
  <2> TAKE i \in 1..(n+1)
  <2>1. CASE i = n + 1
    <3>1. i - 1 = n /\ n \in 0..n
      BY <1>1, <2>1
    <3> QED
      BY <1>1, <1>2, <1>4, <2>1, <3>1 DEF last
  <2>2. CASE i # n + 1
    <3>1. i \in 1..n /\ i \in 0..n /\ i - 1 \in 0..n
      BY <1>1, <2>2
    <3> QED
      BY <1>1, <1>2, <1>4, <3>1
  <2> QED
    BY <2>1, <2>2
<1>6. g[0] = room
  BY <1>1, <1>2, <1>4
<1>7. ComesTo(room, vs, last)
  BY <1>1, <1>4, <1>5, <1>6 DEF ComesTo
<1> QED
  BY <1>1, <1>3, <1>7 DEF vs, last

\* React shows what the updates come to.
LEMMA RenderEnds ==
  ASSUME shown \in Rooms, ref \in Rooms, updates \in Seq(Handings),
         NEW end, ComesTo(shown, updates, end), Render
  PROVE  shown' = end /\ ref' \in Rooms /\ end \in Rooms
<1> DEFINE n == Len(updates)
<1>1. n \in Nat /\ \A i \in 1..n : updates[i] \in Handings
  BY LenProperties, ElementOfSeq
<1>2. PICK h \in [0..n -> Rooms] : /\ h[0] = shown
                                   /\ \A i \in 1..n : h[i] = Ran(h[i-1], updates[i])
                                   /\ h[n] = end
  BY DEF ComesTo
<1>3. PICK last : /\ FoldsTo("Render", [room |-> shown, ref |-> ref], updates, last)
                  /\ shown' = last.room /\ ref' = last.ref
  BY RenderFolds
<1>4. PICK g : /\ g[0] = [room |-> shown, ref |-> ref]
               /\ \A i \in 1..n : g[i] = Rendered(g[i-1], updates[i])
               /\ last = g[n]
  BY <1>3 DEF FoldsTo, Folded
<1> HIDE DEF n
<1> DEFINE T == {m \in Nat : m <= n => g[m].room = h[m] /\ g[m].ref \in Rooms}
<1>5. 0 \in T
  BY <1>2, <1>4
<1>6. ASSUME NEW m \in Nat, m \in T PROVE m + 1 \in T
  <2> SUFFICES ASSUME m + 1 <= n PROVE g[m+1].room = h[m+1] /\ g[m+1].ref \in Rooms
    OBVIOUS
  <2>1. m + 1 \in 1..n /\ (m + 1) - 1 = m /\ m \in 0..n /\ m <= n
    BY <1>1
  <2>2. g[m+1] = Rendered(g[m], updates[m+1]) /\ h[m+1] = Ran(h[m], updates[m+1])
    BY <1>2, <1>4, <2>1
  <2>3. g[m].room = h[m] /\ g[m].ref \in Rooms /\ h[m] \in Rooms /\ updates[m+1] \in Handings
    BY <1>1, <1>2, <1>6, <2>1
  <2>4. Ran(h[m], updates[m+1]) \in Rooms
    BY <2>3, RanRoom
  <2> QED
    BY <2>2, <2>3, <2>4 DEF Rendered
<1> HIDE DEF T
<1>7. n \in T
  BY <1>1, <1>5, <1>6, InductionOnNat
<1>8. g[n].room = h[n] /\ g[n].ref \in Rooms
  BY <1>1, <1>7 DEF T
<1>9. h[n] \in Rooms
  BY <1>1, <1>2
<1> QED
  BY <1>2, <1>3, <1>4, <1>8, <1>9

-----------------------------------------------------------------------------
(* The invariant                                                           *)

Told == [line : Nat, at : Nat]
Views == [cur : Nat, updates : Seq(Handings), ref : Rooms]
End == Len(log)
Kind(i) == log[i].kind

RoomTypes ==
  /\ log \in Seq([kind : {"world", "joined", "left", "avatar"}, who : Players])
  /\ tailer \in {"none", "fresh", "attached"}
  /\ pos \in 0..End /\ from \in 0..pos /\ parsed \in 0..End /\ scanned \in 0..End
  /\ world \in 0..End /\ cur \in 0..End
  /\ starts \in [Pages -> {"not", "sent", "parsed", "done"}]
  /\ stops \in [Pages -> {"not", "sent", "last", "done"}]
  /\ scan \in {"not", "sent", "read", "done", "failed"}
  /\ inbox \in Seq(Told) /\ queue \in Seq(Told)
  /\ shown \in Rooms /\ ref \in Rooms /\ updates \in Seq(Handings)
  /\ cut \in BOOLEAN

\* The instance the host believes in is one that was entered; who parses the log
\* does so alone, without a tailer, and takes the instance from it; and from the
\* next line that enters one, or if none was missed, the host is right.
HostKnows ==
  /\ world # 0 => Kind(world) = "world"
  /\ \A p, q \in Pages : starts[p] = "parsed" =>
       tailer = "none" /\ (starts[q] = "parsed" => p = q)
  /\ tailer = "fresh" \/ (\E p \in Pages : starts[p] = "parsed") =>
       parsed = 0 \/ world = WorldAt(log, parsed)
  /\ tailer = "attached" /\ (WorldAt(log, pos) > from
                             \/ \A i \in (parsed+1)..from : Kind(i) # "world") =>
       world = WorldAt(log, pos)

\* What the page has to itself.
PageAlone ==
  /\ starts[radar] = "not" =>
   /\ scan = "not" /\ stops[radar] = "not"
   /\ inbox = <<>> /\ queue = <<>>
  /\ Mounted => scan # "not"
  /\ scan \in {"not", "sent", "read"} => cur = 0
  /\ cur # 0 => Kind(cur) = "world"

\* The events the page has still to process, and those of its lines it is past.
Waiting == IF scan \in {"sent", "read"} THEN queue \o inbox ELSE inbox

(* Of the events q, from the one behind the first j on: the last ones are   *)
(* of the lines behind m that the tailer has read, in order and with the    *)
(* instance they were written in, if the host can know it; those before     *)
(* them are of a tailer that ended.                                         *)
Unmissed == \A i \in (parsed+1)..from : Kind(i) # "world"
IsTold(e, l) ==
  /\ e.line = l
  /\ Kind(l) # "world" /\ (WorldAt(log, l) > from \/ Unmissed) => e.at = WorldAt(log, l)
Backlog(q, j, m) ==
  LET d == Len(q) - (pos - m)
  IN  /\ j <= d
      /\ \A i \in 1..(pos - m) : IsTold(q[d+i], m + i)
      /\ d > j => cut /\ m = from
      /\ \A i \in (j+1)..d : q[i].line <= from

(* The page is on the way to what the log says: when it has processed the   *)
(* lines behind m it will be there.                                         *)
Heads(c, room, m) ==
  \/ WorldAt(log, End) > m
  \/ /\ c = WorldAt(log, End)
     /\ \A p \in Players : \/ \E i \in (m+1)..End : Concerns(log, i, p)
                           \/ p \in Seen(room) <=> p \in Present(log, End)

Followed == scan = "done" /\ NothingBetween

BeforeAttach(end) ==
  Mounted /\ tailer # "attached" /\ ~cut =>
    /\ Waiting = <<>>
    /\ scan = "done" => cur = WorldAt(log, scanned) /\ Seen(end) = Present(log, scanned)

Ahead(end, m) ==
  /\ Backlog(Waiting, 0, m)
  /\ scan = "read" => m = from \/ m <= scanned
  /\ scan \in {"done", "failed"} /\ (cur > from \/ Followed) => Heads(cur, end, m)

OnItsWay ==
  \E end \in Rooms :
    /\ ComesTo(shown, updates, end)
    /\ BeforeAttach(end)
    /\ Mounted /\ tailer = "attached" => \E m \in from..pos : Ahead(end, m)

TellsLines ==
  /\ \A i \in 1..Len(inbox) : inbox[i].line \in 1..End
  /\ \A i \in 1..Len(queue) : queue[i].line \in 1..End

RoomInv == RoomTypes /\ TellsLines /\ HostKnows /\ PageAlone /\ OnItsWay

-----------------------------------------------------------------------------
(* One event                                                               *)

LineKinds == {"world", "joined", "left", "avatar"}

LEMMA LineIs ==
  ASSUME RoomTypes, NEW i \in 1..End
  PROVE  Kind(i) \in LineKinds /\ log[i].who \in Players
<1>1. log[i] \in [kind : {"world", "joined", "left", "avatar"}, who : Players]
  BY ElementOfSeq DEF RoomTypes, End
<1> QED
  BY <1>1 DEF Kind, LineKinds

LEMMA ViewWith ==
  ASSUME NEW v \in Views, NEW us, NEW room
  PROVE  [v EXCEPT !.updates = us, !.ref = room] = [cur |-> v.cur, updates |-> us, ref |-> room]
<1>1. v = [cur |-> v.cur, updates |-> v.updates, ref |-> v.ref]
  BY DEF Views
<1> DEFINE a == v.cur
           b == v.updates
           c == v.ref
<1>2. v = [cur |-> a, updates |-> b, ref |-> c]
  BY <1>1
<1> HIDE DEF a, b, c
<1>3. [v EXCEPT !.updates = us] = [cur |-> a, updates |-> us, ref |-> c]
  BY <1>2
<1> DEFINE y == [v EXCEPT !.updates = us]
<1>4. [y EXCEPT !.ref = room] = [cur |-> a, updates |-> us, ref |-> room]
  <2>1. y = [cur |-> a, updates |-> us, ref |-> c]
    BY <1>3
  <2> HIDE DEF y
  <2> QED
    BY <2>1
<1>5. [v EXCEPT !.updates = us, !.ref = room] = [[v EXCEPT !.updates = us] EXCEPT !.ref = room]
  OBVIOUS
<1> QED
  BY <1>4, <1>5 DEF a

LEMMA ProcessedIs ==
  ASSUME RoomTypes, NEW v \in Views, NEW e \in Told, e.line \in 1..End, NEW eager
  PROVE  LET x == Processed(v, e, eager)
             who == log[e.line].who
         IN  \/ /\ Kind(e.line) = "world" /\ x.cur = e.line /\ x.ref \in Rooms
                /\ x.updates = Append(v.updates, [op |-> "set", room |-> Empty])
                /\ x = [cur |-> x.cur, updates |-> x.updates, ref |-> x.ref]
             \/ /\ Kind(e.line) # "world"
                /\ Kind(e.line) = "avatar" \/ (v.cur # 0 /\ e.at # 0 /\ e.at # v.cur)
                /\ x = v
             \/ /\ Kind(e.line) # "world" /\ x.cur = v.cur /\ x.ref \in Rooms
                /\ x.updates = Append(v.updates, [op |-> Kind(e.line), who |-> who])
                /\ x = [cur |-> x.cur, updates |-> x.updates, ref |-> x.ref]
<1> DEFINE x == Processed(v, e, eager)
           line == log[e.line]
           u == [op |-> line.kind, who |-> line.who]
<1>1. line.kind \in LineKinds /\ line.who \in Players /\ Kind(e.line) = line.kind
  BY LineIs DEF Kind
<1>2. /\ v = [cur |-> v.cur, updates |-> v.updates, ref |-> v.ref]
      /\ v.cur \in Nat /\ v.updates \in Seq(Handings) /\ v.ref \in Rooms
  BY DEF Views
<1>3. CASE line.kind = "world"
  <2>1. x = [Replaced(v, Empty) EXCEPT !.cur = e.line]
    BY <1>3 DEF Processed
  <2>2. Replaced(v, Empty)
    = [cur |-> v.cur, updates |-> Append(v.updates, [op |-> "set", room |-> Empty]),
       ref |-> Empty]
    BY ViewWith DEF Replaced
  <2>3. Empty \in Rooms
    BY DEF Empty, Rooms
  <2>4. x = [cur |-> e.line, updates |-> Append(v.updates, [op |-> "set", room |-> Empty]),
             ref |-> Empty]
    <3> DEFINE y == Append(v.updates, [op |-> "set", room |-> Empty])
    <3> HIDE DEF y, x
    <3>1. x = [[cur |-> v.cur, updates |-> y, ref |-> Empty] EXCEPT !.cur = e.line]
      BY <2>1, <2>2 DEF y
    <3>2. x = [cur |-> e.line, updates |-> y, ref |-> Empty]
      BY <3>1
    <3> QED
      BY <3>2 DEF y
  <2> HIDE DEF x
  <2> QED
    BY <1>1, <1>3, <2>3, <2>4 DEF x
<1>4. CASE line.kind # "world" /\ (\/ v.cur # 0 /\ e.at # 0 /\ e.at # v.cur
                                   \/ line.kind = "avatar" /\ v.ref[line.who] = "out")
  <2>1. x = v
    BY <1>4 DEF Processed, None
  <2> HIDE DEF x
  <2> QED
    BY <1>1, <1>4, <2>1 DEF x
<1>5. CASE line.kind # "world" /\ ~(\/ v.cur # 0 /\ e.at # 0 /\ e.at # v.cur
                                    \/ line.kind = "avatar" /\ v.ref[line.who] = "out")
  <2>1. x = Handed(v, u, eager)
    BY <1>5 DEF Processed, None
  <2>2. Handed(v, u, eager)
    = [cur |-> v.cur, updates |-> Append(v.updates, u),
       ref |-> IF eager /\ v.updates = <<>> THEN Ran(shown, u) ELSE v.ref]
    BY ViewWith DEF Handed
  <2>3. u \in Handings /\ shown \in Rooms
    BY <1>1, <1>5 DEF Handings, LineKinds, RoomTypes
  <2>4. Ran(shown, u) \in Rooms
    BY <2>3, RanRoom
  <2> HIDE DEF x
  <2>5. x.cur = v.cur /\ x.updates = Append(v.updates, u) /\ x.ref \in Rooms
    BY <1>2, <2>1, <2>2, <2>4
  <2>6. x = [cur |-> x.cur, updates |-> x.updates, ref |-> x.ref]
    BY <2>1, <2>2
  <2> QED
    BY <1>1, <1>5, <2>5, <2>6 DEF x
<1> QED
  BY <1>3, <1>4, <1>5

\* What an event makes of the room to come.
LEMMA Processing ==
  ASSUME RoomTypes, NEW v \in Views, NEW e \in Told, e.line \in 1..End, NEW eager,
         v.cur \in 0..End, v.cur # 0 => Kind(v.cur) = "world",
         NEW end \in Rooms, ComesTo(shown, v.updates, end)
  PROVE  LET x == Processed(v, e, eager)
             who == log[e.line].who
         IN  /\ x \in Views /\ x.cur \in 0..End /\ (x.cur # 0 => Kind(x.cur) = "world")
             /\ \E new \in Rooms :
                  /\ ComesTo(shown, x.updates, new)
                  /\ \/ Kind(e.line) = "world" /\ x.cur = e.line /\ Seen(new) = {}
                     \/ /\ Kind(e.line) # "world" /\ x.cur = v.cur /\ Seen(new) = Seen(end)
                        /\ Kind(e.line) = "avatar" \/ (v.cur # 0 /\ e.at # 0 /\ e.at # v.cur)
                     \/ Kind(e.line) = "joined" /\ x.cur = v.cur /\ Seen(new) = Seen(end) \cup {who}
                     \/ Kind(e.line) = "left" /\ x.cur = v.cur /\ Seen(new) = Seen(end) \ {who}
<1> DEFINE x == Processed(v, e, eager)
           who == log[e.line].who
           u == [op |-> Kind(e.line), who |-> who]
           s == [op |-> "set", room |-> Empty]
<1>1. Kind(e.line) \in LineKinds /\ who \in Players
  BY LineIs
<1>2. v.updates \in Seq(Handings) /\ v.cur \in Nat /\ e.line \in Nat
  BY DEF Views, Told
<1>3. \/ /\ Kind(e.line) = "world" /\ x.cur = e.line /\ x.ref \in Rooms
         /\ x.updates = Append(v.updates, s)
         /\ x = [cur |-> x.cur, updates |-> x.updates, ref |-> x.ref]
      \/ /\ Kind(e.line) # "world"
         /\ Kind(e.line) = "avatar" \/ (v.cur # 0 /\ e.at # 0 /\ e.at # v.cur)
         /\ x = v
      \/ /\ Kind(e.line) # "world" /\ x.cur = v.cur /\ x.ref \in Rooms
         /\ x.updates = Append(v.updates, u)
         /\ x = [cur |-> x.cur, updates |-> x.updates, ref |-> x.ref]
  BY ProcessedIs
<1> HIDE DEF x, who
<1>4. CASE /\ Kind(e.line) = "world" /\ x.cur = e.line /\ x.ref \in Rooms
           /\ x.updates = Append(v.updates, s)
           /\ x = [cur |-> x.cur, updates |-> x.updates, ref |-> x.ref]
  <2>1. s \in Handings /\ Ran(end, s) = Empty /\ Seen(Empty) = {}
    BY DEF Handings, Ran, Empty, Rooms, Seen
  <2> HIDE DEF s
  <2>2. ComesTo(shown, x.updates, Ran(end, s)) /\ Ran(end, s) \in Rooms
        /\ x.updates \in Seq(Handings)
    BY <1>2, <1>4, <2>1, ComesAppend
  <2>3. x \in Views
    BY <1>2, <1>4, <2>2 DEF Views
  <2> QED
    BY <1>4, <2>1, <2>2, <2>3 DEF x, who
<1>5. CASE /\ Kind(e.line) # "world"
           /\ Kind(e.line) = "avatar" \/ (v.cur # 0 /\ e.at # 0 /\ e.at # v.cur)
           /\ x = v
  BY <1>5 DEF x, who
<1>6. CASE /\ Kind(e.line) # "world" /\ x.cur = v.cur /\ x.ref \in Rooms
           /\ x.updates = Append(v.updates, u)
           /\ x = [cur |-> x.cur, updates |-> x.updates, ref |-> x.ref]
  <2>1. u \in Handings
    BY <1>1, <1>6 DEF Handings, LineKinds
  <2>2. ComesTo(shown, x.updates, Ran(end, u)) /\ Ran(end, u) \in Rooms
        /\ x.updates \in Seq(Handings)
    BY <1>2, <1>6, <2>1, ComesAppend
  <2>3. x \in Views
    BY <1>2, <1>6, <2>2 DEF Views
  <2>4. \/ Kind(e.line) = "joined" /\ Seen(Ran(end, u)) = Seen(end) \cup {who}
        \/ Kind(e.line) = "left" /\ Seen(Ran(end, u)) = Seen(end) \ {who}
        \/ Kind(e.line) = "avatar" /\ Seen(Ran(end, u)) = Seen(end)
    BY <1>1, <1>6, RanSeen DEF LineKinds
  <2> QED
    BY <1>6, <2>2, <2>3, <2>4 DEF x, who
<1> QED
  BY <1>3, <1>4, <1>5, <1>6

(* The step of Hear and of the queue: an event of the line the page waits   *)
(* for brings it one line further, one of an earlier tailer does no harm.   *)
LEMMA NextEvent ==
  ASSUME RoomTypes,
         NEW q \in Seq(Told), NEW j \in Nat, j < Len(q), q[j+1].line \in 1..End,
         NEW m \in from..pos, Backlog(q, j, m),
         NEW v \in Views, v.cur \in 0..End, v.cur # 0 => Kind(v.cur) = "world",
         NEW end \in Rooms, ComesTo(shown, v.updates, end),
         NEW B \in BOOLEAN, B => Unmissed /\ ~cut,
         v.cur > from \/ B => Heads(v.cur, end, m),
         NEW eager
  PROVE  LET x == Processed(v, q[j+1], eager)
         IN  /\ x \in Views /\ x.cur \in 0..End /\ (x.cur # 0 => Kind(x.cur) = "world")
             /\ \E n \in m..pos, new \in Rooms :
                  /\ ComesTo(shown, x.updates, new)
                  /\ Backlog(q, j + 1, n)
                  /\ x.cur > from \/ B => Heads(x.cur, new, n)
<1> DEFINE e == q[j+1]
           x == Processed(v, e, eager)
           d == Len(q) - (pos - m)
           w == WorldAt(log, End)
<1>1. e \in Told /\ e.line \in 1..End /\ Len(q) \in Nat
  BY ElementOfSeq, LenProperties
<1>2. End \in Nat /\ pos \in 0..End /\ from \in 0..pos /\ m \in Nat /\ m <= pos /\ from <= m
  BY LenProperties DEF RoomTypes, End
<1>3. /\ w \in 0..End /\ (w # 0 => Kind(w) = "world")
      /\ \A i \in 1..End : Kind(i) = "world" => i <= w
  BY <1>2, WorldAtIs DEF Kind
<1>4. /\ x \in Views /\ x.cur \in 0..End /\ (x.cur # 0 => Kind(x.cur) = "world")
      /\ \E new \in Rooms :
           /\ ComesTo(shown, x.updates, new)
           /\ \/ Kind(e.line) = "world" /\ x.cur = e.line /\ Seen(new) = {}
              \/ /\ Kind(e.line) # "world" /\ x.cur = v.cur /\ Seen(new) = Seen(end)
                 /\ Kind(e.line) = "avatar" \/ (v.cur # 0 /\ e.at # 0 /\ e.at # v.cur)
              \/ /\ Kind(e.line) = "joined" /\ x.cur = v.cur
                 /\ Seen(new) = Seen(end) \cup {log[e.line].who}
              \/ /\ Kind(e.line) = "left" /\ x.cur = v.cur
                 /\ Seen(new) = Seen(end) \ {log[e.line].who}
  <2> HIDE DEF e
  <2> QED
    BY <1>1, Processing
<1>5. PICK new \in Rooms :
           /\ ComesTo(shown, x.updates, new)
           /\ \/ Kind(e.line) = "world" /\ x.cur = e.line /\ Seen(new) = {}
              \/ /\ Kind(e.line) # "world" /\ x.cur = v.cur /\ Seen(new) = Seen(end)
                 /\ Kind(e.line) = "avatar" \/ (v.cur # 0 /\ e.at # 0 /\ e.at # v.cur)
              \/ /\ Kind(e.line) = "joined" /\ x.cur = v.cur
                 /\ Seen(new) = Seen(end) \cup {log[e.line].who}
              \/ /\ Kind(e.line) = "left" /\ x.cur = v.cur
                 /\ Seen(new) = Seen(end) \ {log[e.line].who}
  BY <1>4
<1>6. /\ j <= d
      /\ \A i \in 1..(pos - m) : IsTold(q[d+i], m + i)
      /\ d > j => cut /\ m = from
      /\ \A i \in (j+1)..d : q[i].line <= from
  BY DEF Backlog
<1>7. d \in Int
  BY <1>1, <1>2
<1> HIDE DEF x, w
<1> SUFFICES \E n \in m..pos : Backlog(q, j + 1, n) /\ (x.cur > from \/ B => Heads(x.cur, new, n))
  BY <1>4, <1>5 DEF e, x
<1>8. CASE d > j
  <2>1. m = from /\ ~B /\ e.line <= from
    BY <1>6, <1>7, <1>8
  <2>2. Backlog(q, j + 1, m)
    BY <1>6, <1>7, <1>8, <2>1 DEF Backlog
  <2>3. ASSUME x.cur > from PROVE Heads(x.cur, new, m)
    <3>1. x.cur \in 1..End /\ Kind(x.cur) = "world"
      BY <1>2, <1>4, <2>3
    <3>2. w > m
      BY <1>2, <1>3, <2>1, <2>3, <3>1
    <3> QED
      BY <3>2 DEF Heads, w
  <2>4. m \in m..pos
    BY <1>2
  <2> QED
    BY <2>1, <2>2, <2>3, <2>4
<1>9. CASE d = j
  <2>1. pos - m >= 1 /\ m + 1 \in m..pos /\ m + 1 \in 1..End
    BY <1>1, <1>2, <1>9
  <2>2. IsTold(e, m + 1)
    BY <1>2, <1>6, <1>9, <2>1
  <2>3. e.line = m + 1
    BY <2>2 DEF IsTold
  <2>4. Backlog(q, j + 1, m + 1)
    <3> DEFINE c == Len(q) - (pos - (m + 1))
    <3>1. c = j + 1 /\ pos - (m + 1) \in Nat
      BY <1>1, <1>2, <1>9, <2>1
    <3>2. ASSUME NEW i \in 1..(pos - (m + 1)) PROVE IsTold(q[c+i], m + 1 + i)
      <4>1. i + 1 \in 1..(pos - m) /\ c + i = d + (i + 1) /\ m + 1 + i = m + (i + 1)
        BY <1>2, <1>7, <1>9, <3>1
      <4> QED
        BY <1>6, <4>1
    <3> QED
      BY <3>1, <3>2 DEF Backlog
  <2>5. ASSUME x.cur > from \/ B PROVE Heads(x.cur, new, m + 1)
    <3> SUFFICES ASSUME w <= m + 1
                 PROVE  /\ x.cur = w
                        /\ \A p \in Players : \/ \E i \in (m+2)..End : Concerns(log, i, p)
                                              \/ p \in Seen(new) <=> p \in Present(log, End)
      <4>1. m + 1 + 1 = m + 2 /\ (w > m + 1 \/ w <= m + 1)
        BY <1>2, <1>3
      <4> QED
        BY <4>1 DEF Heads, w
    <3>1. ASSUME NEW p \in Players, \A i \in (m+2)..End : ~Concerns(log, i, p)
          PROVE  /\ w = m + 1 => p \notin Present(log, End)
                 /\ Concerns(log, m + 1, p) =>
                      (p \in Present(log, End) <=> Kind(m + 1) = "joined")
      <4>1. m + 1 + 1 = m + 2
        BY <1>2
      <4> QED
        BY <1>2, <2>1, <3>1, <4>1, LastDecides DEF w, Kind
    <3>2. CASE Kind(m + 1) = "world"
      <4>1. w = m + 1
        BY <1>2, <1>3, <2>1, <3>2
      <4>2. x.cur = w /\ Seen(new) = {}
        BY <1>5, <2>3, <3>2, <4>1
      <4> QED
        BY <3>1, <4>1, <4>2
    <3>3. CASE Kind(m + 1) # "world"
      <4>1. w # m + 1 /\ w <= m
        <5>1. w # m + 1
          BY <1>2, <1>3, <3>3
        <5> QED
          BY <1>2, <1>3, <5>1
      <4>2. x.cur = v.cur
        BY <1>5, <2>3, <3>3
      <4>3. /\ v.cur = w
            /\ \A p \in Players : \/ \E i \in (m+1)..End : Concerns(log, i, p)
                                  \/ p \in Seen(end) <=> p \in Present(log, End)
        <5>1. Heads(v.cur, end, m)
          BY <2>5, <4>2
        <5>2. ~(w > m)
          BY <1>2, <1>3, <4>1
        <5> QED
          BY <5>1, <5>2 DEF Heads, w
      <4>4. WorldAt(log, m + 1) = w
        <5>1. \A i \in (m+2)..End : log[i].kind # "world"
          BY <1>2, <1>3, <4>1 DEF Kind
        <5>2. m + 1 \in 0..End /\ m + 1 + 1 = m + 2
          BY <1>2, <2>1
        <5> QED
          BY <1>2, <5>1, <5>2, SameWorld DEF w
      <4>5. e.at = v.cur
        BY <2>2, <2>5, <3>3, <4>2, <4>3, <4>4 DEF IsTold
      <4>6. ASSUME NEW p \in Players, \A i \in (m+2)..End : ~Concerns(log, i, p)
            PROVE  p \in Seen(new) <=> p \in Present(log, End)
        <5>1. CASE Concerns(log, m + 1, p)
          <6>1. /\ log[e.line].who = p
                /\ Kind(m + 1) \in {"joined", "left"}
            BY <2>3, <5>1 DEF Concerns, Kind
          <6>2. p \in Seen(new) <=> Kind(m + 1) = "joined"
            BY <1>5, <2>3, <4>5, <6>1
          <6> QED
            BY <3>1, <4>6, <5>1, <6>2
        <5>2. CASE ~Concerns(log, m + 1, p)
          <6>1. \A i \in (m+1)..End : i = m + 1 \/ i \in (m+2)..End
            BY <1>2
          <6>2. p \in Seen(end) <=> p \in Present(log, End)
            BY <4>3, <4>6, <5>2, <6>1
          <6>3. Kind(m + 1) \in {"joined", "left"} => log[e.line].who # p
            BY <2>3, <5>2 DEF Concerns, Kind
          <6>4. p \in Seen(new) <=> p \in Seen(end)
            BY <1>5, <2>3, <3>3, <6>3
          <6> QED
            BY <6>2, <6>4
        <5> QED
          BY <5>1, <5>2
      <4> QED
        BY <4>2, <4>3, <4>6
    <3>4. Kind(m + 1) = "world" \/ Kind(m + 1) # "world"
      OBVIOUS
    <3> QED
      BY <3>2, <3>3, <3>4
  <2> QED
    BY <2>1, <2>4, <2>5
<1> QED
  BY <1>6, <1>7, <1>8, <1>9

\* The events behind the next ones, and a sequence that ends as q does.
LEMMA BacklogDrop ==
  ASSUME RoomTypes, NEW q \in Seq(Told), NEW j \in 0..Len(q), NEW n \in j..Len(q),
         NEW m \in from..pos, Backlog(q, j, m)
  PROVE  \E k \in m..pos : Backlog(q, n, k)
<1> DEFINE d == Len(q) - (pos - m)
<1>1. Len(q) \in Nat /\ pos \in Nat /\ from \in Nat /\ m \in Nat /\ from <= m /\ m <= pos
  BY LenProperties DEF RoomTypes, End
<1>2. /\ d \in Int /\ j <= d
      /\ \A i \in 1..(pos - m) : IsTold(q[d+i], m + i)
      /\ d > j => cut /\ m = from
      /\ \A i \in (j+1)..d : q[i].line <= from
  BY <1>1 DEF Backlog
<1>3. CASE n <= d
  <2>1. Backlog(q, n, m)
    BY <1>1, <1>2, <1>3 DEF Backlog
  <2>2. m \in m..pos
    BY <1>1
  <2> QED
    BY <2>1, <2>2
<1>4. CASE n > d
  <2> DEFINE k == m + (n - d)
             c == Len(q) - (pos - k)
  <2>1. k \in m..pos /\ c = n /\ n \in Nat
    BY <1>1, <1>2, <1>4
  <2>2. ASSUME NEW i \in 1..(pos - k) PROVE IsTold(q[c+i], k + i)
    <3>1. (n - d) + i \in 1..(pos - m) /\ c + i = d + ((n - d) + i) /\ k + i = m + ((n - d) + i)
      BY <1>1, <1>2, <1>4, <2>1
    <3> QED
      BY <1>2, <3>1
  <2>3. Backlog(q, n, k)
    BY <2>1, <2>2 DEF Backlog
  <2> QED
    BY <2>1, <2>3
<1> QED
  BY <1>1, <1>2, <1>3, <1>4

LEMMA BacklogSuffix ==
  ASSUME RoomTypes, NEW q \in Seq(Told), NEW r \in Seq(Told), NEW j \in 0..Len(q),
         Len(r) = Len(q) - j, \A i \in 1..Len(r) : r[i] = q[j+i],
         NEW m \in from..pos, Backlog(q, j, m)
  PROVE  Backlog(r, 0, m)
<1> DEFINE d == Len(q) - (pos - m)
           c == Len(r) - (pos - m)
<1>1. Len(q) \in Nat /\ pos \in Nat /\ from \in Nat /\ m \in Nat /\ from <= m /\ m <= pos
  BY LenProperties DEF RoomTypes, End
<1>2. /\ d \in Int /\ j <= d
      /\ \A i \in 1..(pos - m) : IsTold(q[d+i], m + i)
      /\ d > j => cut /\ m = from
      /\ \A i \in (j+1)..d : q[i].line <= from
  BY <1>1 DEF Backlog
<1>3. c = d - j /\ Len(r) \in Nat
  BY <1>1
<1>4. ASSUME NEW i \in 1..(pos - m) PROVE IsTold(r[c+i], m + i)
  <2>1. c + i \in 1..Len(r) /\ j + (c + i) = d + i
    BY <1>1, <1>2, <1>3
  <2> QED
    BY <1>2, <2>1
<1>5. ASSUME NEW i \in 1..c PROVE r[i].line <= from
  <2>1. i \in 1..Len(r) /\ j + i \in (j+1)..d
    BY <1>1, <1>2, <1>3
  <2> QED
    BY <1>2, <2>1
<1>6. 0 <= c /\ (c > 0 => d > j)
  BY <1>2, <1>3
<1> QED
  BY <1>2, <1>4, <1>5, <1>6 DEF Backlog
-----------------------------------------------------------------------------
(* Types                                                                   *)

LEMMA RoomTypesInit ==
  ASSUME Init
  PROVE  RoomTypes /\ TellsLines
<1>1. Len(<<>>) = 0 /\ \A S : <<>> \in Seq(S)
  BY EmptySeq
<1>2. Empty \in Rooms
  BY DEF Empty, Rooms
<1>3. End = 0
  BY <1>1 DEF Init, HostInit, End
<1>4. RoomTypes
  <2>1. /\ log = <<>> /\ tailer = "none" /\ pos = 0 /\ from = 0 /\ parsed = 0 /\ scanned = 0
        /\ world = 0 /\ cur = 0 /\ scan = "not" /\ inbox = <<>> /\ queue = <<>>
        /\ shown = Empty /\ ref = Empty /\ updates = <<>> /\ cut = FALSE
        /\ starts = [p \in Pages |-> "not"] /\ stops = [p \in Pages |-> "not"]
    BY DEF Init, HostInit, None
  <2>2. 0 \in 0..End /\ 0 \in 0..0
    BY <1>3
  <2> QED
    BY <1>1, <1>2, <2>1, <2>2 DEF RoomTypes
<1>5. TellsLines
  BY <1>1 DEF Init, HostInit, TellsLines
<1> QED
  BY <1>4, <1>5

\* The log of the room grows, and keeps what it says.
LEMMA LogGrows ==
  ASSUME RoomTypes, NEW line \in Lines, Write(line)
  PROVE  /\ log' \in Seq([kind : {"world", "joined", "left", "avatar"}, who : Players])
         /\ End \in Nat /\ End' = End + 1 /\ log'[End+1] = line
         /\ \A i \in 1..End : log'[i] = log[i]
         /\ \A n \in 0..End : /\ WorldAt(log', n) = WorldAt(log, n)
                              /\ Present(log', n) = Present(log, n)
<1>1. /\ log' = Append(log, line)
      /\ log \in Seq([kind : {"world", "joined", "left", "avatar"}, who : Players])
      /\ line \in [kind : {"world", "joined", "left", "avatar"}, who : Players]
  BY DEF Write, Lines, RoomTypes
<1>2. /\ log' \in Seq([kind : {"world", "joined", "left", "avatar"}, who : Players])
      /\ End \in Nat /\ End' = End + 1 /\ log'[End+1] = line
      /\ \A i \in 1..End : log'[i] = log[i]
  BY <1>1, AppendProperties, LenProperties DEF End
<1>3. ASSUME NEW n \in 0..End
      PROVE  WorldAt(log', n) = WorldAt(log, n) /\ Present(log', n) = Present(log, n)
  <2>1. n \in Nat /\ \A i \in 1..n : log'[i] = log[i]
    BY <1>2
  <2> QED
    BY <2>1, SameLog
<1> QED
  BY <1>2, <1>3

LEMMA WriteTypes ==
  ASSUME RoomTypes, TellsLines, NEW line \in Lines, Write(line), UNCHANGED pageVars
  PROVE  RoomTypes' /\ TellsLines'
<1>1. /\ log' \in Seq([kind : {"world", "joined", "left", "avatar"}, who : Players])
      /\ End \in Nat /\ End' = End + 1
  BY LogGrows
<1>2. UNCHANGED <<tailer, pos, from, parsed, scanned, world, cur, starts, stops, scan,
                  inbox, queue, shown, ref, updates, cut>>
  BY DEF Write, pageVars
<1>3. 0..End \subseteq 0..End' /\ 1..End \subseteq 1..End'
  BY <1>1
<1> QED
  BY <1>1, <1>2, <1>3 DEF RoomTypes, TellsLines

LEMMA HostTypes ==
  ASSUME RoomTypes, TellsLines, UNCHANGED pageVars,
         \/ \E p \in Pages : \/ SendStart(p) \/ SendStop(p) \/ Start(p)
                             \/ Begin(p) \/ Stop(p)
         \/ Attach
  PROVE  RoomTypes' /\ TellsLines'
<1>1. UNCHANGED <<log, scanned, cur, scan, inbox, queue, shown, ref, updates, cut>>
      /\ End' = End
  BY DEF pageVars, SendStart, SendStop, Start, Begin, Stop,
         Attach, End
<1>2. End \in Nat
  BY LenProperties DEF RoomTypes, End
<1>3. TellsLines'
  BY <1>1 DEF TellsLines
<1>4. ASSUME NEW p \in Pages, SendStart(p) \/ SendStop(p) \/ Begin(p) \/ Stop(p)
      PROVE  RoomTypes'
  BY <1>1, <1>4 DEF SendStart, SendStop, Begin, Stop, RoomTypes
<1>5. ASSUME NEW p \in Pages, Start(p)
      PROVE  RoomTypes'
  <2>1. parsed' \in 0..End /\ world' \in 0..End
    <3>1. CASE UNCHANGED <<parsed, world>>
      BY <3>1 DEF RoomTypes
    <3>2. CASE parsed' \in {0, End} /\ world' \in {world, LastWorld(parsed')}
      <4>1. parsed' \in 0..End
        BY <1>2, <3>2
      <4>2. WorldAt(log, parsed') \in 0..parsed'
        BY <4>1, WorldAtIs
      <4>3. LastWorld(parsed') \in 0..End
        BY <1>2, <4>1, <4>2, RadarReads
      <4> QED
        BY <3>2, <4>1, <4>3 DEF RoomTypes
    <3> QED
      BY <1>5, <3>1, <3>2 DEF Start, End
  <2>2. /\ UNCHANGED <<tailer, pos, from, stops>>
        /\ starts' \in [Pages -> {"not", "sent", "parsed", "done"}]
    BY <1>5 DEF Start, RoomTypes
  <2> QED
    BY <1>1, <2>1, <2>2 DEF RoomTypes
<1>6. CASE Attach
  <2>1. pos' = End /\ from' = End /\ UNCHANGED <<parsed, world, starts, stops>>
        /\ tailer' = "attached"
    BY <1>6 DEF Attach, End
  <2>2. pos' \in 0..End' /\ from' \in 0..pos'
    BY <1>1, <1>2, <2>1
  <2> QED
    BY <1>1, <1>3, <2>1, <2>2 DEF RoomTypes
<1> QED
  BY <1>3, <1>4, <1>5, <1>6

LEMMA SentTold ==
  ASSUME RoomTypes, TellsLines, Emit
  PROVE  /\ Event \in Told /\ Event.line = pos + 1 /\ pos + 1 \in 1..End
         /\ Kind(pos + 1) # "world" => Event.at = world
<1>1. pos \in Nat /\ End \in Nat /\ world \in Nat /\ pos < End
  BY LenProperties DEF Emit, RoomTypes, End
<1>2. Event = [line |-> pos + 1,
               at |-> IF Kind(pos + 1) = "world" THEN 0 ELSE world]
  BY DEF Event, None, Kind
<1> QED
  BY <1>1, <1>2 DEF Told

LEMMA EmitTypes ==
  ASSUME RoomTypes, TellsLines, Emit,
         inbox' = IF Mounted THEN Append(inbox, Event) ELSE inbox,
         UNCHANGED <<scan, scanned, queue, cur, shown, updates, ref, cut>>
  PROVE  RoomTypes' /\ TellsLines'
<1>1. /\ UNCHANGED <<log, tailer, from, parsed, starts, stops>> /\ End' = End
      /\ pos' = pos + 1 /\ world' \in {world, pos'}
  BY DEF Emit, End
<1>2. Event \in Told /\ Event.line \in 1..End /\ pos + 1 \in 1..End
  BY SentTold
<1>3. pos' \in 0..End /\ from \in 0..pos' /\ world' \in 0..End
  BY <1>1, <1>2 DEF RoomTypes
<1> DEFINE e == Event
<1> HIDE DEF e
<1>4. /\ Append(inbox, e) \in Seq(Told) /\ Len(Append(inbox, e)) = Len(inbox) + 1 /\ Len(inbox) \in Nat
      /\ \A i \in 1..Len(inbox) : Append(inbox, e)[i] = inbox[i]
      /\ Append(inbox, e)[Len(inbox) + 1] = e
  BY <1>2, AppendProperties, LenProperties DEF e, RoomTypes
<1>5. inbox' \in Seq(Told) /\ \A i \in 1..Len(inbox') : inbox'[i].line \in 1..End
  <2>1. CASE inbox' = inbox
    BY <2>1 DEF RoomTypes, TellsLines
  <2>2. CASE inbox' = Append(inbox, e)
    <3>1. \A i \in 1..(Len(inbox) + 1) : i \in 1..Len(inbox) \/ i = Len(inbox) + 1
      BY <1>4
    <3> QED
      BY <1>2, <1>4, <2>2, <3>1 DEF TellsLines, e
  <2> QED
    BY <2>1, <2>2 DEF e
<1>6. RoomTypes'
  BY <1>1, <1>3, <1>5 DEF RoomTypes
<1>7. TellsLines'
  BY <1>1, <1>5 DEF TellsLines
<1> QED
  BY <1>6, <1>7

LEMMA TearDownTypes ==
  ASSUME RoomTypes, TellsLines, NEW p \in Pages, TearDown(p), cut' = (cut \/ Mounted),
         UNCHANGED <<scan, scanned, inbox, queue, cur, shown, updates, ref>>
  PROVE  RoomTypes' /\ TellsLines'
<1>1. /\ UNCHANGED <<log, parsed, world, starts>> /\ End' = End
      /\ pos' = 0 /\ from' = 0 /\ tailer' = "none"
      /\ stops' = [stops EXCEPT ![p] = "done"]
  BY DEF TearDown, End
<1>2. pos' \in 0..End' /\ from' \in 0..pos' /\ cut' \in BOOLEAN
  <2>1. End \in Nat
    BY LenProperties DEF RoomTypes, End
  <2>2. cut' \in BOOLEAN
    BY DEF RoomTypes
  <2> QED
    BY <1>1, <2>1, <2>2
<1>3. RoomTypes'
  BY <1>1, <1>2 DEF RoomTypes
<1> QED
  BY <1>1, <1>3 DEF TellsLines

\* The effect of the page, its end, the scan and React.
LEMMA PageTypes ==
  ASSUME RoomTypes, TellsLines, radar \in Pages,
         Mount \/ Unmount \/ ScanReads \/ ScanFails
  PROVE  RoomTypes' /\ TellsLines'
<1>1. /\ UNCHANGED <<log, tailer, pos, from, parsed, world, queue, cur, shown, updates, ref, cut>>
      /\ End' = End
  BY DEF Mount, Unmount, ScanReads, ScanFails, SendStart,
         SendStop, hostVars, End
<1>2. /\ starts' \in [Pages -> {"not", "sent", "parsed", "done"}]
      /\ stops' \in [Pages -> {"not", "sent", "last", "done"}]
  BY DEF Mount, Unmount, ScanReads, ScanFails, SendStart,
         SendStop, hostVars, RoomTypes
<1>3. scanned' \in 0..End /\ scan' \in {"not", "sent", "read", "done", "failed"}
  <2>1. End \in 0..End
    BY LenProperties DEF RoomTypes, End
  <2> QED
    BY <2>1 DEF Mount, Unmount, ScanReads, ScanFails, RoomTypes, End
<1>4. inbox' = inbox \/ inbox' = <<>>
  BY DEF Mount, Unmount, ScanReads, ScanFails
<1>5. Len(<<>>) = 0 /\ <<>> \in Seq(Told)
  BY EmptySeq
<1>6. RoomTypes'
  BY <1>1, <1>2, <1>3, <1>4, <1>5 DEF RoomTypes
<1>7. TellsLines'
  BY <1>1, <1>4, <1>5 DEF TellsLines
<1> QED
  BY <1>6, <1>7

LEMMA RenderTypes ==
  ASSUME RoomTypes, TellsLines, OnItsWay, Render
  PROVE  RoomTypes' /\ TellsLines'
<1>1. /\ UNCHANGED <<log, tailer, pos, from, parsed, world, starts, stops, scan, scanned,
                     inbox, queue, cur, cut>>
      /\ updates' = <<>> /\ End' = End
  BY DEF Render, hostVars, End
<1>2. shown' \in Rooms /\ ref' \in Rooms
  BY RenderEnds DEF RoomTypes, OnItsWay
<1>3. <<>> \in Seq(Handings)
  BY EmptySeq
<1> QED
  BY <1>1, <1>2, <1>3 DEF RoomTypes, TellsLines

-----------------------------------------------------------------------------
(* The steps of the host                                                   *)

LEMMA WorldGrows ==
  ASSUME NEW s, NEW n \in Nat
  PROVE  WorldAt(s, n + 1) = IF s[n+1].kind = "world" THEN n + 1 ELSE WorldAt(s, n)
<1>1. CASE s[n+1].kind = "world"
  <2>1. \A i \in 1..(n+1) : i <= n + 1
    OBVIOUS
  <2>2. WorldAt(s, n + 1) = n + 1
    BY <1>1, <2>1, WorldAtIsThe
  <2> QED
    BY <1>1, <2>2
<1>2. CASE s[n+1].kind # "world"
  <2>1. \A i \in (n+1)..(n+1) : s[i].kind # "world"
    BY <1>2
  <2>2. WorldAt(s, n + 1) = WorldAt(s, n)
    BY <2>1, SameWorld
  <2> QED
    BY <1>2, <2>2
<1> QED
  BY <1>1, <1>2

\* Without a line that enters an instance the host believes in none.
LEMMA NoWorld ==
  ASSUME RoomTypes, HostKnows
  PROVE  End \in Nat /\ world <= WorldAt(log, End)
<1>1. End \in Nat /\ world \in 0..End
  BY LenProperties DEF RoomTypes, End
<1>2. /\ WorldAt(log, End) \in 0..End
      /\ \A i \in 1..End : log[i].kind = "world" => i <= WorldAt(log, End)
  BY <1>1, WorldAtIs
<1>3. CASE world = 0
  BY <1>1, <1>2, <1>3
<1>4. CASE world # 0
  BY <1>1, <1>2, <1>4 DEF HostKnows, Kind
<1> QED
  BY <1>1, <1>3, <1>4

\* The steps of the host that write nothing, neither begin nor end a tailer's
\* log, and neither come nor go with the page.
Quiet ==
  /\ UNCHANGED pageVars
  /\ \/ \E p \in Pages \ {radar} : SendStart(p) \/ SendStop(p)
     \/ \E p \in Pages : Start(p) \/ Begin(p) \/ Stop(p)

LEMMA QuietIs ==
  ASSUME RoomTypes, HostKnows, radar \in Pages, Quiet
  PROVE  /\ UNCHANGED <<log, pos, from, scan, scanned, inbox, queue, cur, shown, updates, ref, cut>>
         /\ tailer' = tailer \/ (tailer = "none" /\ tailer' = "fresh")
         /\ tailer = "attached" => parsed' = parsed
         /\ starts[radar] = "not" <=> starts'[radar] = "not"
         /\ stops[radar] = "not" <=> stops'[radar] = "not"
<1>1. UNCHANGED <<scan, scanned, inbox, queue, cur, shown, updates, ref, cut>>
  BY DEF Quiet, pageVars
<1>2. starts \in [Pages -> {"not", "sent", "parsed", "done"}]
      /\ stops \in [Pages -> {"not", "sent", "last", "done"}]
  BY DEF RoomTypes
<1>3. ASSUME NEW p \in Pages \ {radar}, SendStart(p) \/ SendStop(p)
      PROVE  /\ UNCHANGED <<log, pos, from, tailer, parsed>>
             /\ starts[radar] = starts'[radar] /\ stops[radar] = stops'[radar]
  BY <1>2, <1>3 DEF SendStart, SendStop
<1>4. ASSUME NEW p \in Pages, Start(p)
      PROVE  /\ UNCHANGED <<log, pos, from, tailer, stops>>
             /\ tailer = "attached" => parsed' = parsed
             /\ starts[radar] = "not" <=> starts'[radar] = "not"
  BY <1>2, <1>4 DEF Start
<1>5. ASSUME NEW p \in Pages, Begin(p)
      PROVE  /\ UNCHANGED <<log, pos, from, parsed, stops>>
             /\ tailer = "none" /\ tailer' = "fresh"
             /\ starts[radar] = "not" <=> starts'[radar] = "not"
  BY <1>2, <1>5 DEF Begin, HostKnows
<1>6. ASSUME NEW p \in Pages, Stop(p)
      PROVE  /\ UNCHANGED <<log, pos, from, tailer, parsed, starts>>
             /\ stops[radar] = "not" <=> stops'[radar] = "not"
  BY <1>2, <1>6 DEF Stop
<1> QED
  BY <1>1, <1>3, <1>4, <1>5, <1>6 DEF Quiet

LEMMA KnowsUnchanged ==
  ASSUME HostKnows, UNCHANGED <<log, world, starts, tailer, parsed, pos, from>>
  PROVE  HostKnows'
  BY DEF HostKnows, Kind

LEMMA KnowsSent ==
  ASSUME RoomTypes, HostKnows, NEW p \in Pages, SendStart(p)
  PROVE  HostKnows'
<1>1. /\ UNCHANGED <<log, world, tailer, parsed, pos, from>>
      /\ \A q \in Pages : starts'[q] = "parsed" => starts[q] = "parsed"
  BY DEF SendStart, RoomTypes
<1> QED
  BY <1>1 DEF HostKnows, Kind

LEMMA KnowsStart ==
  ASSUME RoomTypes, HostKnows, NEW p \in Pages, Start(p)
  PROVE  HostKnows'
<1>1. UNCHANGED <<log, tailer, pos, from>>
  BY DEF Start
<1>2. \A q \in Pages : starts[q] # "parsed"
  BY DEF Start, MutexFree
<1>3. CASE starts' = [starts EXCEPT ![p] = "done"] /\ UNCHANGED <<parsed, world>>
  <2>1. \A q \in Pages : starts'[q] # "parsed"
    BY <1>2, <1>3 DEF RoomTypes
  <2> QED
    BY <1>1, <1>2, <1>3, <2>1 DEF HostKnows, Kind
<1>4. CASE /\ tailer = "none" /\ starts' = [starts EXCEPT ![p] = "parsed"]
           /\ parsed' \in {0, End}
           /\ world' = IF LastWorld(parsed') = 0 THEN world ELSE LastWorld(parsed')
  <2>1. \A q \in Pages : starts'[q] = "parsed" => q = p
    BY <1>2, <1>4 DEF RoomTypes
  <2>2. LastWorld(parsed') = WorldAt(log, parsed')
    BY RadarReads
  <2>3. End \in Nat /\ world <= WorldAt(log, End) /\ world \in Nat
    <3>1. world \in 0..End
      BY DEF RoomTypes
    <3> QED
      BY <3>1, NoWorld
  <2>4. parsed' \in Nat
    BY <1>4, <2>3
  <2>5. WorldAt(log, parsed') # 0 => log[WorldAt(log, parsed')].kind = "world"
    BY <2>4, WorldAtIs
  <2>6. world' # 0 => log[world'].kind = "world"
    BY <1>4, <2>2, <2>5 DEF HostKnows, Kind
  <2>7. parsed' = 0 \/ world' = WorldAt(log, parsed')
    BY <1>4, <2>2, <2>3
  <2> QED
    BY <1>1, <1>4, <2>1, <2>6, <2>7 DEF HostKnows, Kind
<1> QED
  BY <1>3, <1>4 DEF Start, None, End

LEMMA KnowsBegin ==
  ASSUME RoomTypes, HostKnows, NEW p \in Pages, Begin(p)
  PROVE  HostKnows'
<1>1. UNCHANGED <<log, world, parsed, pos, from>> /\ tailer' = "fresh" /\ starts[p] = "parsed"
  BY DEF Begin
<1>2. \A q \in Pages : starts'[q] # "parsed"
  BY DEF Begin, RoomTypes, HostKnows
<1>3. parsed = 0 \/ world = WorldAt(log, parsed)
  BY <1>1 DEF HostKnows
<1> QED
  BY <1>1, <1>2, <1>3 DEF HostKnows, Kind

LEMMA KnowsAttach ==
  ASSUME RoomTypes, HostKnows, Attach
  PROVE  HostKnows'
<1>1. /\ UNCHANGED <<log, world, parsed, starts>>
      /\ tailer = "fresh" /\ tailer' = "attached" /\ pos' = End /\ from' = End
  BY DEF Attach, End
<1>2. \A q \in Pages : starts'[q] # "parsed"
  BY <1>1 DEF HostKnows
<1>3. End \in Nat /\ world <= WorldAt(log, End) /\ world \in Nat /\ parsed \in 0..End
  <2>1. world \in 0..End /\ parsed \in 0..End
    BY DEF RoomTypes
  <2> QED
    BY <2>1, NoWorld
<1>4. ~(WorldAt(log, End) > End)
  <2>1. WorldAt(log, End) \in 0..End
    BY <1>3, WorldAtIs
  <2> QED
    BY <1>3, <2>1
<1>5. ASSUME \A i \in (parsed+1)..End : Kind(i) # "world"
      PROVE  world = WorldAt(log, End)
  <2>1. WorldAt(log, End) = WorldAt(log, parsed)
    BY <1>3, <1>5, SameWorld DEF Kind
  <2>2. CASE parsed = 0
    <3>1. WorldAt(log, 0) \in 0..0
      BY WorldAtIs
    <3> QED
      BY <1>3, <2>1, <2>2, <3>1
  <2>3. CASE parsed # 0
    BY <1>1, <2>1, <2>3 DEF HostKnows
  <2> QED
    BY <2>2, <2>3
<1>6. world' # 0 => log'[world'].kind = "world"
  BY <1>1 DEF HostKnows, Kind
<1>7. (\A i \in (parsed'+1)..from' : log'[i].kind # "world") => world' = WorldAt(log', pos')
  BY <1>1, <1>5 DEF Kind
<1> QED
  BY <1>1, <1>2, <1>4, <1>6, <1>7 DEF HostKnows, Kind

LEMMA KnowsTearDown ==
  ASSUME RoomTypes, HostKnows, NEW p \in Pages, TearDown(p)
  PROVE  HostKnows'
<1>1. UNCHANGED <<log, world, parsed, starts>> /\ tailer' = "none"
  BY DEF TearDown
<1> QED
  BY <1>1 DEF HostKnows, Kind

LEMMA KnowsEmit ==
  ASSUME RoomTypes, HostKnows, Emit
  PROVE  HostKnows'
<1>1. /\ UNCHANGED <<log, parsed, starts, tailer, from>>
      /\ tailer = "attached" /\ pos' = pos + 1
      /\ world' = IF log[pos+1].kind = "world" THEN pos + 1 ELSE world
  BY DEF Emit
<1>2. pos \in Nat /\ from \in 0..pos
  BY LenProperties DEF RoomTypes, End
<1>3. WorldAt(log, pos + 1) = IF log[pos+1].kind = "world" THEN pos + 1 ELSE WorldAt(log, pos)
  BY <1>2, WorldGrows
<1>4. world' # 0 => log[world'].kind = "world"
  BY <1>1 DEF HostKnows, Kind
<1>5. ASSUME \/ WorldAt(log, pos + 1) > from
             \/ \A i \in (parsed+1)..from : Kind(i) # "world"
      PROVE  world' = WorldAt(log, pos + 1)
  <2>1. CASE log[pos+1].kind = "world"
    BY <1>1, <1>3, <2>1
  <2>2. CASE log[pos+1].kind # "world"
    BY <1>1, <1>3, <1>5, <2>2 DEF HostKnows
  <2> QED
    BY <2>1, <2>2
<1>6. \A q \in Pages : starts[q] # "parsed"
  BY <1>1 DEF HostKnows
<1> QED
  BY <1>1, <1>4, <1>5, <1>6 DEF HostKnows, Kind

LEMMA KnowsWrite ==
  ASSUME RoomTypes, HostKnows, NEW line \in Lines, Write(line)
  PROVE  HostKnows'
<1>1. UNCHANGED <<world, parsed, starts, tailer, pos, from>>
  BY DEF Write
<1>2. /\ End \in Nat /\ \A i \in 1..End : log'[i] = log[i]
      /\ \A n \in 0..End : WorldAt(log', n) = WorldAt(log, n)
  BY LogGrows
<1>3. /\ pos \in 0..End /\ from \in 0..pos /\ parsed \in 0..End /\ world \in 0..End
  BY DEF RoomTypes
<1>4. WorldAt(log', pos) = WorldAt(log, pos) /\ WorldAt(log', parsed) = WorldAt(log, parsed)
  BY <1>2, <1>3
<1>5. \A i \in (parsed+1)..from : log'[i].kind = Kind(i)
  BY <1>2, <1>3 DEF Kind
<1>6. world # 0 => log'[world].kind = "world"
  BY <1>2, <1>3 DEF HostKnows, Kind
<1> QED
  BY <1>1, <1>4, <1>5, <1>6 DEF HostKnows, Kind

-----------------------------------------------------------------------------
(* The way of the page                                                     *)

\* The log is as it was, or a line longer.
LogKept ==
  /\ End \in Nat /\ End' \in Nat /\ End <= End'
  /\ \A i \in 1..End : log'[i] = log[i]
  /\ \A n \in 0..End : /\ WorldAt(log', n) = WorldAt(log, n)
                       /\ Present(log', n) = Present(log, n)
  /\ \A c, room : \A m \in 0..End : Heads(c, room, m) => Heads(c, room, m)'

LEMMA SameLogKept ==
  ASSUME RoomTypes, UNCHANGED log
  PROVE  LogKept
<1>1. End \in Nat /\ End' = End
  BY LenProperties DEF RoomTypes, End
<1>2. \A c, room, m : Heads(c, room, m) => Heads(c, room, m)'
  BY <1>1 DEF Heads
<1> QED
  BY <1>1, <1>2 DEF LogKept

LEMMA LongerLogKept ==
  ASSUME RoomTypes, NEW line \in Lines, Write(line)
  PROVE  LogKept
<1>1. /\ End \in Nat /\ End' = End + 1 /\ log'[End+1] = line
      /\ \A i \in 1..End : log'[i] = log[i]
      /\ \A n \in 0..End : /\ WorldAt(log', n) = WorldAt(log, n)
                           /\ Present(log', n) = Present(log, n)
  BY LogGrows
<1>2. ASSUME NEW c, NEW room, NEW m \in 0..End, Heads(c, room, m)
      PROVE  Heads(c, room, m)'
  <2>1. WorldAt(log', End + 1) = IF log'[End+1].kind = "world" THEN End + 1 ELSE WorldAt(log', End)
    BY <1>1, WorldGrows
  <2>2. WorldAt(log', End) = WorldAt(log, End) /\ Present(log', End) = Present(log, End)
    BY <1>1
  <2>3. CASE log'[End+1].kind = "world"
    <3>1. WorldAt(log', End') > m
      BY <1>1, <2>1, <2>3
    <3> QED
      BY <3>1 DEF Heads
  <2>4. CASE log'[End+1].kind # "world" /\ WorldAt(log, End) > m
    BY <1>1, <2>1, <2>2, <2>4 DEF Heads
  <2>5. CASE log'[End+1].kind # "world" /\ ~(WorldAt(log, End) > m)
    <3>1. /\ c = WorldAt(log, End)
          /\ \A p \in Players : \/ \E i \in (m+1)..End : Concerns(log, i, p)
                                \/ p \in Seen(room) <=> p \in Present(log, End)
      BY <1>2, <2>5 DEF Heads
    <3>2. c = WorldAt(log', End')
      BY <1>1, <2>1, <2>2, <2>5, <3>1
    <3>3. ASSUME NEW p \in Players, \A i \in (m+1)..End' : ~Concerns(log', i, p)
          PROVE  p \in Seen(room) <=> p \in Present(log', End')
      <4>1. \A i \in (m+1)..End : i \in (m+1)..End' /\ log'[i] = log[i]
        BY <1>1
      <4>2. \A i \in (m+1)..End : ~Concerns(log, i, p)
        BY <3>3, <4>1 DEF Concerns
      <4>3. \A i \in (End+1)..End' : log'[i].kind # "world" /\ ~Concerns(log', i, p)
        <5>1. \A i \in (End+1)..End' : i = End + 1 /\ i \in (m+1)..End'
          BY <1>1
        <5> QED
          BY <2>5, <3>3, <5>1
      <4>4. p \in Present(log', End') <=> p \in Present(log', End)
        <5>1. End' \in Nat /\ End \in 0..End'
          BY <1>1
        <5> QED
          BY <4>3, <5>1, SamePresent
      <4> QED
        BY <2>2, <3>1, <4>2, <4>4
    <3> QED
      BY <3>2, <3>3 DEF Heads
  <2> QED
    BY <2>3, <2>4, <2>5
<1> QED
  BY <1>1, <1>2 DEF LogKept

LEMMA BacklogKept ==
  ASSUME RoomTypes, LogKept, UNCHANGED <<pos, from, parsed, cut>>,
         NEW q, NEW j, NEW m \in from..pos, Backlog(q, j, m)
  PROVE  Backlog(q, j, m)'
<1>1. End \in Nat /\ pos \in 0..End /\ from \in 0..pos /\ parsed \in 0..End
  BY DEF RoomTypes, LogKept
<1>2. Unmissed' = Unmissed
  <2>1. \A i \in (parsed+1)..from : log'[i] = log[i]
    BY <1>1 DEF LogKept
  <2> QED
    BY <2>1 DEF Unmissed, Kind
<1>3. ASSUME NEW e, NEW l \in 1..pos, IsTold(e, l)
      PROVE  IsTold(e, l)'
  <2>1. log'[l] = log[l] /\ WorldAt(log', l) = WorldAt(log, l)
    BY <1>1 DEF LogKept
  <2> QED
    BY <1>2, <1>3, <2>1 DEF IsTold, Kind
<1>4. \A i \in 1..(pos - m) : m + i \in 1..pos
  BY <1>1
<1>5. /\ j <= Len(q) - (pos - m)
      /\ \A i \in 1..(pos - m) : IsTold(q[Len(q) - (pos - m)+i], m + i)'
      /\ Len(q) - (pos - m) > j => cut /\ m = from
      /\ \A i \in (j+1)..(Len(q) - (pos - m)) : q[i].line <= from
  BY <1>3, <1>4 DEF Backlog
<1> QED
  BY <1>5 DEF Backlog

LEMMA FollowedKept ==
  ASSUME RoomTypes, LogKept, UNCHANGED <<scan, scanned, from, parsed, cut>>
  PROVE  Followed' = Followed
<1>1. \A i \in (scanned+1)..from : log'[i] = log[i]
  BY DEF RoomTypes, LogKept
<1>2. \A i \in (parsed+1)..from : log'[i] = log[i]
  BY DEF RoomTypes, LogKept
<1> QED
  BY <1>1, <1>2 DEF Followed, NothingBetween

\* A step that leaves the page and what the tailer has read alone.
LEMMA StaysOnItsWay ==
  ASSUME RoomTypes, OnItsWay, LogKept,
         UNCHANGED <<scan, scanned, inbox, queue, cur, shown, updates, cut>>,
         Mounted' => Mounted,
         tailer' = "attached" <=> tailer = "attached",
         tailer = "attached" => UNCHANGED <<pos, from, parsed>>
  PROVE  OnItsWay'
<1>1. PICK end \in Rooms :
        /\ ComesTo(shown, updates, end)
        /\ BeforeAttach(end)
        /\ Mounted /\ tailer = "attached" => \E m \in from..pos : Ahead(end, m)
  BY DEF OnItsWay
<1>2. BeforeAttach(end)'
  <2>1. scanned \in 0..End
    BY DEF RoomTypes
  <2>2. WorldAt(log', scanned) = WorldAt(log, scanned) /\ Present(log', scanned) = Present(log, scanned)
    BY <2>1 DEF LogKept
  <2> QED
    BY <1>1, <2>2 DEF BeforeAttach, Waiting
<1>3. ASSUME Mounted', tailer' = "attached"
      PROVE  \E m \in from'..pos' : Ahead(end, m)'
  <2>1. PICK m \in from..pos : Ahead(end, m)
    BY <1>1, <1>3
  <2>2. UNCHANGED <<pos, from, parsed>>
    BY <1>3
  <2>3. Waiting' = Waiting
    BY DEF Waiting
  <2>4. Backlog(Waiting, 0, m)'
    <3> DEFINE q == Waiting
    <3>1. Backlog(q, 0, m)
      BY <2>1 DEF Ahead
    <3>2. \A r : Backlog(r, 0, m) => Backlog(r, 0, m)'
      BY <2>2, BacklogKept
    <3>3. PICK r : r = q
      OBVIOUS
    <3>4. Backlog(r, 0, m)'
      BY <3>1, <3>2, <3>3
    <3>5. r = Waiting'
      BY <2>3, <3>3
    <3> QED
      BY <3>4, <3>5 DEF Backlog
  <2>5. scan' = "read" => m = from' \/ m <= scanned'
    BY <2>1, <2>2 DEF Ahead
  <2>6. ASSUME scan' \in {"done", "failed"}, cur' > from' \/ Followed'
        PROVE  Heads(cur, end, m)'
    <3>1. Followed' = Followed
      BY <2>2, FollowedKept
    <3>2. Heads(cur, end, m)
      BY <2>1, <2>2, <2>6, <3>1 DEF Ahead
    <3>3. m \in 0..End
      BY DEF RoomTypes, LogKept
    <3>4. PICK c : c = cur
      OBVIOUS
    <3>5. Heads(c, end, m)
      BY <3>2, <3>4 DEF Heads
    <3>6. Heads(c, end, m)'
      BY <3>3, <3>5 DEF LogKept
    <3> QED
      BY <3>4, <3>6 DEF Heads
  <2>7. Ahead(end, m)'
    BY <2>4, <2>5, <2>6 DEF Ahead
  <2>8. m \in from'..pos'
    BY <2>2
  <2> QED
    BY <2>7, <2>8
<1>4. ComesTo(shown', updates', end)
  BY <1>1
<1> QED
  BY <1>2, <1>3, <1>4 DEF OnItsWay, ComesTo

LEMMA WaitingTells ==
  ASSUME RoomTypes, TellsLines
  PROVE  /\ Waiting \in Seq(Told) /\ Len(Waiting) \in Nat
         /\ \A i \in 1..Len(Waiting) : Waiting[i].line \in 1..End
         /\ Len(queue) \in Nat /\ Len(inbox) \in Nat
         /\ queue \o inbox \in Seq(Told) /\ Len(queue \o inbox) = Len(queue) + Len(inbox)
         /\ \A i \in 1..Len(queue) : (queue \o inbox)[i] = queue[i]
         /\ \A i \in 1..Len(inbox) : (queue \o inbox)[Len(queue) + i] = inbox[i]
<1>1. queue \in Seq(Told) /\ inbox \in Seq(Told) /\ Len(queue) \in Nat /\ Len(inbox) \in Nat
  BY LenProperties DEF RoomTypes
<1> DEFINE q == queue \o inbox
<1>2. /\ q \in Seq(Told) /\ Len(q) = Len(queue) + Len(inbox)
      /\ \A i \in 1 .. Len(queue) + Len(inbox) :
           q[i] = IF i <= Len(queue) THEN queue[i] ELSE inbox[i - Len(queue)]
  BY <1>1, ConcatProperties
<1> HIDE DEF q
<1>3. /\ \A i \in 1..Len(queue) : q[i] = queue[i]
      /\ \A i \in 1..Len(inbox) : q[Len(queue) + i] = inbox[i]
  <2>1. ASSUME NEW i \in 1..Len(inbox) PROVE q[Len(queue) + i] = inbox[i]
    <3>1. Len(queue) + i \in 1..(Len(queue) + Len(inbox)) /\ ~(Len(queue) + i <= Len(queue))
          /\ (Len(queue) + i) - Len(queue) = i
      BY <1>1
    <3> QED
      BY <1>2, <3>1
  <2> QED
    BY <1>1, <1>2, <2>1
<1>4. \A i \in 1..Len(q) : q[i].line \in 1..End
  <2> TAKE i \in 1..Len(q)
  <2>1. CASE i <= Len(queue)
    BY <1>1, <1>2, <2>1 DEF TellsLines
  <2>2. CASE ~(i <= Len(queue))
    <3>1. i - Len(queue) \in 1..Len(inbox)
      BY <1>1, <1>2, <2>2
    <3> QED
      BY <1>2, <2>2, <3>1 DEF TellsLines
  <2> QED
    BY <2>1, <2>2
<1>5. /\ Waiting \in Seq(Told) /\ Len(Waiting) \in Nat
      /\ \A i \in 1..Len(Waiting) : Waiting[i].line \in 1..End
  <2>1. CASE Waiting = q
    BY <1>1, <1>2, <1>4, <2>1
  <2>2. CASE Waiting = inbox
    BY <1>1, <2>2 DEF TellsLines
  <2> QED
    BY <2>1, <2>2 DEF Waiting, q
<1>6. q = queue \o inbox
  BY DEF q
<1> QED
  BY <1>1, <1>2, <1>3, <1>5, <1>6

\* What the next state waits for.
LEMMA BacklogNext ==
  ASSUME NEW r, r = Waiting', NEW m, NEW d \in Nat, d = Len(r) - (pos' - m),
         \A i \in 1..(pos' - m) : IsTold(r[d+i], m + i)',
         d > 0 => cut' /\ m = from',
         \A i \in 1..d : r[i].line <= from'
  PROVE  Backlog(Waiting, 0, m)'
<1>1. Len(Waiting') - (pos' - m) = d /\ 0 <= d /\ \A i \in (0+1)..d : i \in 1..d
  OBVIOUS
<1>2. \A i \in 1..(pos' - m) : IsTold(Waiting[d+i], m + i)'
  BY DEF IsTold
<1> QED
  BY <1>1, <1>2 DEF Backlog

LEMMA BacklogSame ==
  ASSUME RoomTypes, NEW r \in Seq(Told), r = Waiting', NEW m \in Nat, Backlog(r, 0, m),
         UNCHANGED <<log, pos, from, parsed, cut>>
  PROVE  Backlog(Waiting, 0, m)'
<1>1. \A e, l : IsTold(e, l) => IsTold(e, l)'
  BY DEF IsTold, Unmissed, Kind
<1>2. PICK d : d = Len(r) - (pos - m)
  OBVIOUS
<1>3. Len(r) \in Nat /\ pos \in Nat
  BY LenProperties DEF RoomTypes, End
<1>4. /\ d \in Nat
      /\ \A i \in 1..(pos - m) : IsTold(r[d+i], m + i)
      /\ d > 0 => cut /\ m = from
      /\ \A i \in 1..d : r[i].line <= from
  <2>1. /\ 0 <= d
        /\ \A i \in 1..(pos - m) : IsTold(r[d+i], m + i)
        /\ d > 0 => cut /\ m = from
        /\ \A i \in (0+1)..d : r[i].line <= from
    BY <1>2 DEF Backlog
  <2>2. d \in Nat
    BY <1>2, <1>3, <2>1
  <2> QED
    BY <2>1, <2>2
<1>5. \A i \in 1..(pos' - m) : IsTold(r[d+i], m + i)'
  BY <1>1, <1>4
<1> QED
  BY <1>2, <1>4, <1>5, BacklogNext

LEMMA AttachOnItsWay ==
  ASSUME RoomTypes, TellsLines, OnItsWay, Attach, UNCHANGED pageVars
  PROVE  OnItsWay'
<1>1. /\ UNCHANGED <<log, parsed, starts, stops, scan, scanned, inbox, queue, cur, shown, updates, cut>>
      /\ tailer = "fresh" /\ tailer' = "attached" /\ pos' = End /\ from' = End /\ End' = End
  BY DEF Attach, pageVars, End
<1>2. PICK end \in Rooms : ComesTo(shown, updates, end) /\ BeforeAttach(end)
  BY DEF OnItsWay
<1>3. End \in Nat /\ cur \in 0..End /\ scanned \in 0..End
  BY LenProperties DEF RoomTypes, End
<1>4. BeforeAttach(end)'
  BY <1>1 DEF BeforeAttach
<1>5. ASSUME Mounted'
      PROVE  Ahead(end, End)'
  <2>1. Mounted
    BY <1>1, <1>5 DEF Mounted
  <2>2. PICK r : r = Waiting'
    OBVIOUS
  <2>3. r = Waiting
    BY <1>1, <2>2 DEF Waiting
  <2>4. /\ Len(r) \in Nat /\ (Len(r) > 0 => cut)
        /\ \A i \in 1..Len(r) : r[i].line <= End
    <3>1. Len(r) \in Nat /\ \A i \in 1..Len(r) : r[i].line \in 1..End
      BY <2>3, WaitingTells
    <3>2. ~cut => r = <<>>
      BY <1>1, <1>2, <2>1, <2>3 DEF BeforeAttach
    <3>3. Len(<<>>) = 0
      BY EmptySeq
    <3> QED
      BY <1>3, <3>1, <3>2, <3>3
  <2>5. PICK m : m = End
    OBVIOUS
  <2>6. Backlog(Waiting, 0, m)'
    <3>1. pos' - m = 0 /\ Len(r) - (pos' - m) = Len(r) /\ 1..0 = {}
      BY <1>1, <1>3, <2>4, <2>5
    <3>2. PICK d : d = Len(r)
      OBVIOUS
    <3> QED
      BY <1>1, <2>2, <2>4, <2>5, <3>1, <3>2, BacklogNext
  <2>7. ASSUME scan \in {"done", "failed"}, cur > End \/ Followed'
        PROVE  cur = WorldAt(log, End) /\ Seen(end) = Present(log, End)
    <3>1. /\ scan = "done" /\ ~cut
          /\ \A i \in (scanned+1)..End : log[i].kind = "avatar"
      BY <1>1, <1>3, <2>7 DEF Followed, NothingBetween
    <3>2. cur = WorldAt(log, scanned) /\ Seen(end) = Present(log, scanned)
      BY <1>1, <1>2, <2>1, <3>1 DEF BeforeAttach
    <3>3. \A i \in (scanned+1)..End : log[i].kind # "world" /\ \A p : ~Concerns(log, i, p)
      BY <3>1 DEF Concerns
    <3>4. WorldAt(log, End) = WorldAt(log, scanned)
      BY <1>3, <3>3, SameWorld
    <3>5. \A p \in Players : p \in Present(log, End) <=> p \in Present(log, scanned)
      BY <1>3, <3>3, SamePresent
    <3>6. Present(log, End) \subseteq Players /\ Present(log, scanned) \subseteq Players
      BY DEF Present
    <3> QED
      BY <3>2, <3>4, <3>5, <3>6
  <2>8. scan' \in {"done", "failed"} /\ (cur' > from' \/ Followed') => Heads(cur, end, m)'
    BY <1>1, <2>5, <2>7 DEF Heads
  <2>9. Ahead(end, m)'
    BY <1>1, <2>5, <2>6, <2>8 DEF Ahead
  <2> QED
    BY <1>1, <2>5, <2>9
<1>6. ComesTo(shown', updates', end) /\ End \in from'..pos'
  BY <1>1, <1>2, <1>3
<1> QED
  BY <1>1, <1>4, <1>5, <1>6 DEF OnItsWay, ComesTo

LEMMA TearDownOnItsWay ==
  ASSUME RoomTypes, OnItsWay, radar \in Pages, NEW p \in Pages, TearDown(p),
         cut' = (cut \/ Mounted), UNCHANGED <<shown, updates>>
  PROVE  OnItsWay'
<1>1. PICK end \in Rooms : ComesTo(shown, updates, end)
  BY DEF OnItsWay
<1>2. tailer' = "none" /\ (Mounted' => Mounted) /\ (Mounted => cut')
  BY DEF TearDown, RoomTypes, Mounted
<1>3. BeforeAttach(end)'
  BY <1>2 DEF BeforeAttach
<1>4. ComesTo(shown', updates', end)
  BY <1>1
<1> QED
  BY <1>2, <1>3, <1>4 DEF OnItsWay, ComesTo

LEMMA EmitOnItsWay ==
  ASSUME RoomTypes, TellsLines, HostKnows, OnItsWay, Emit,
         inbox' = IF Mounted THEN Append(inbox, Event) ELSE inbox,
         UNCHANGED <<scan, scanned, queue, cur, shown, updates, ref, cut>>
  PROVE  OnItsWay'
<1>1. /\ UNCHANGED <<log, tailer, from, parsed, starts, stops>> /\ End' = End
      /\ tailer = "attached" /\ pos' = pos + 1
  BY DEF Emit, End
<1>2. PICK end \in Rooms :
        /\ ComesTo(shown, updates, end)
        /\ Mounted /\ tailer = "attached" => \E m \in from..pos : Ahead(end, m)
  BY DEF OnItsWay
<1>3. pos \in Nat /\ from \in Nat /\ from <= pos
  BY LenProperties DEF RoomTypes, End
<1>4. BeforeAttach(end)'
  BY <1>1 DEF BeforeAttach
<1>5. ASSUME Mounted'
      PROVE  \E m \in from'..pos' : Ahead(end, m)'
  <2>1. Mounted
    BY <1>1, <1>5 DEF Mounted
  <2>2. PICK m \in from..pos : Ahead(end, m)
    BY <1>1, <1>2, <2>1
  <2>3. PICK e : e = Event
    OBVIOUS
  <2>4. e \in Told /\ e.line = pos + 1 /\ (Kind(pos + 1) # "world" => e.at = world)
    BY <2>3, SentTold
  <2>5. PICK q : q = Waiting
    OBVIOUS
  <2>6. q \in Seq(Told) /\ queue \in Seq(Told) /\ inbox \in Seq(Told)
    BY <2>5, WaitingTells DEF RoomTypes
  <2>7. Append(q, e) = Waiting'
    <3>1. inbox' = Append(inbox, e)
      BY <2>1, <2>3 DEF Mounted
    <3>2. queue \o Append(inbox, e) = Append(queue \o inbox, e)
      BY <2>4, <2>6, AppendConcat
    <3> QED
      BY <2>5, <3>1, <3>2 DEF Waiting
  <2> DEFINE r == Append(q, e)
  <2>8. Len(q) \in Nat /\ Len(r) = Len(q) + 1 /\ r[Len(q)+1] = e /\ \A i \in 1..Len(q) : r[i] = q[i]
    BY <2>4, <2>6, AppendProperties, LenProperties
  <2>9. Backlog(q, 0, m)
    BY <2>2, <2>5 DEF Ahead
  <2> HIDE DEF r
  <2>10. \A f, l : IsTold(f, l) => IsTold(f, l)'
    BY <1>1 DEF IsTold, Unmissed, Kind
  <2>11. \A l : l = pos + 1 => IsTold(e, l)'
    <3>1. WorldAt(log, pos + 1) = IF log[pos+1].kind = "world" THEN pos + 1 ELSE WorldAt(log, pos)
      BY <1>3, WorldGrows
    <3>2. IsTold(e, pos + 1)
      BY <1>1, <2>4, <3>1 DEF IsTold, Unmissed, HostKnows, Kind
    <3> QED
      BY <2>10, <3>2
  <2>12. Backlog(Waiting, 0, m)'
    <3> PICK d : d = Len(q) - (pos - m)
      OBVIOUS
    <3>1. /\ 0 <= d /\ d \in Nat
          /\ \A i \in 1..(pos - m) : IsTold(q[d+i], m + i)
          /\ d > 0 => cut /\ m = from
          /\ \A i \in 1..d : q[i].line <= from
      BY <1>3, <2>8, <2>9 DEF Backlog
    <3>2. Len(r) - (pos' - m) = d /\ pos' - m = (pos - m) + 1
      BY <1>1, <1>3, <2>8
    <3>3. ASSUME NEW i \in 1..((pos - m) + 1) PROVE IsTold(r[d+i], m + i)'
      <4>1. CASE i = (pos - m) + 1
        <5>1. d + i = Len(q) + 1 /\ m + i = pos + 1
          BY <1>3, <2>8, <4>1
        <5>2. r[d+i] = e
          BY <2>8, <5>1
        <5>3. IsTold(e, m + i)'
          BY <2>11, <5>1
        <5> QED
          BY <5>2, <5>3 DEF IsTold
      <4>2. CASE i # (pos - m) + 1
        <5>1. i \in 1..(pos - m) /\ d + i \in 1..Len(q)
          BY <1>3, <2>8, <3>1, <4>2
        <5>2. IsTold(r[d+i], m + i)
          BY <2>8, <3>1, <5>1
        <5> QED
          BY <2>10, <5>2
      <4> QED
        BY <4>1, <4>2
    <3>4. \A i \in 1..d : r[i].line <= from
      <4>1. \A i \in 1..d : i \in 1..Len(q)
        BY <1>3, <2>8, <3>1
      <4> QED
        BY <2>8, <3>1, <4>1
    <3>5. \A i \in 1..(pos' - m) : IsTold(r[d+i], m + i)'
      BY <3>2, <3>3
    <3> QED
      BY <1>1, <2>7, <3>1, <3>2, <3>4, <3>5, BacklogNext DEF r
  <2>13. Ahead(end, m)'
    <3>1. Followed' = Followed
      BY <1>1 DEF Followed, NothingBetween
    <3>2. Heads(cur, end, m) => Heads(cur, end, m)'
      BY <1>1 DEF Heads
    <3> QED
      BY <1>1, <2>2, <2>12, <3>1, <3>2 DEF Ahead
  <2>14. m \in from'..pos'
    BY <1>1, <1>3
  <2> QED
    BY <2>13, <2>14
<1>6. ComesTo(shown', updates', end)
  BY <1>2
<1> QED
  BY <1>4, <1>5, <1>6 DEF OnItsWay, ComesTo

-----------------------------------------------------------------------------
(* The steps of the page                                                   *)

LEMMA MountOnItsWay ==
  ASSUME RoomTypes, PageAlone, OnItsWay, radar \in Pages, Mount
  PROVE  OnItsWay'
<1>1. /\ UNCHANGED <<log, tailer, pos, from, parsed, stops, inbox, queue, cur, shown, updates, cut>>
      /\ starts[radar] = "not" /\ scan' = "sent"
  BY DEF Mount, SendStart
<1>2. PICK end \in Rooms : ComesTo(shown, updates, end)
  BY DEF OnItsWay
<1>3. /\ inbox = <<>> /\ queue = <<>> /\ \A S : <<>> \in Seq(S)
      /\ <<>> \o <<>> = <<>> /\ Len(<<>>) = 0
  BY <1>1, EmptySeq, ConcatEmptySeq DEF PageAlone
<1>4. Waiting' = <<>>
  BY <1>1, <1>3 DEF Waiting
<1>5. BeforeAttach(end)'
  BY <1>1, <1>4 DEF BeforeAttach
<1>6. pos \in Nat /\ from \in Nat /\ from <= pos
  BY LenProperties DEF RoomTypes, End
<1>7. PICK m : m = pos
  OBVIOUS
<1>8. Backlog(Waiting, 0, m)'
  <2>1. PICK r : r = <<>>
    OBVIOUS
  <2>2. pos' - m = 0 /\ 0 = Len(r) - (pos' - m) /\ 1..0 = {}
    BY <1>1, <1>3, <1>6, <1>7, <2>1
  <2> QED
    BY <1>4, <2>1, <2>2, BacklogNext
<1>9. Ahead(end, m)' /\ m \in from'..pos'
  BY <1>1, <1>6, <1>7, <1>8 DEF Ahead
<1>10. ComesTo(shown', updates', end)
  BY <1>1, <1>2
<1> QED
  BY <1>5, <1>9, <1>10 DEF OnItsWay, ComesTo

LEMMA UnmountOnItsWay ==
  ASSUME RoomTypes, OnItsWay, radar \in Pages, Unmount
  PROVE  OnItsWay'
<1>1. UNCHANGED <<shown, updates>> /\ stops'[radar] = "sent"
  BY DEF Unmount, SendStop, RoomTypes
<1>2. PICK end \in Rooms : ComesTo(shown, updates, end)
  BY DEF OnItsWay
<1>3. ~Mounted'
  BY <1>1 DEF Mounted
<1>4. BeforeAttach(end)'
  BY <1>3 DEF BeforeAttach
<1>5. ComesTo(shown', updates', end)
  BY <1>1, <1>2
<1> QED
  BY <1>3, <1>4, <1>5 DEF OnItsWay, ComesTo

LEMMA ScanReadsOnItsWay ==
  ASSUME RoomTypes, TellsLines, OnItsWay, ScanReads
  PROVE  OnItsWay'
<1>1. /\ UNCHANGED <<log, tailer, pos, from, parsed, starts, stops, inbox, queue,
                     cur, shown, updates, cut>>
      /\ scan = "sent" /\ scan' = "read" /\ scanned' = End
  BY DEF ScanReads, hostVars, End
<1>2. PICK end \in Rooms :
        /\ ComesTo(shown, updates, end)
        /\ BeforeAttach(end)
        /\ Mounted /\ tailer = "attached" => \E m \in from..pos : Ahead(end, m)
  BY DEF OnItsWay
<1>3. Waiting' = Waiting
  BY <1>1 DEF Waiting
<1>4. BeforeAttach(end)'
  BY <1>1, <1>2, <1>3 DEF BeforeAttach, Mounted
<1>5. ASSUME Mounted', tailer' = "attached"
      PROVE  \E m \in from'..pos' : Ahead(end, m)'
  <2>1. PICK m \in from..pos : Ahead(end, m)
    BY <1>1, <1>2, <1>5 DEF Mounted
  <2>2. PICK r : r = Waiting
    OBVIOUS
  <2>3. r \in Seq(Told)
    BY <2>2, WaitingTells
  <2>4. m \in Nat /\ m <= End
    BY LenProperties DEF RoomTypes, End
  <2>5. Backlog(Waiting, 0, m)'
    BY <1>1, <1>3, <2>1, <2>2, <2>3, <2>4, BacklogSame DEF Ahead
  <2>6. Ahead(end, m)' /\ m \in from'..pos'
    BY <1>1, <2>4, <2>5 DEF Ahead
  <2> QED
    BY <2>6
<1>6. ComesTo(shown', updates', end)
  BY <1>1, <1>2
<1> QED
  BY <1>4, <1>5, <1>6 DEF OnItsWay, ComesTo

LEMMA ScanFailsOnItsWay ==
  ASSUME RoomTypes, TellsLines, PageAlone, OnItsWay, ScanFails
  PROVE  OnItsWay'
<1>1. /\ UNCHANGED <<log, tailer, pos, from, parsed, starts, stops, inbox, queue, scanned,
                     cur, shown, updates, cut>>
      /\ scan \in {"sent", "read"} /\ scan' = "failed"
  BY DEF ScanFails, hostVars
<1>2. PICK end \in Rooms :
        /\ ComesTo(shown, updates, end)
        /\ BeforeAttach(end)
        /\ Mounted /\ tailer = "attached" => \E m \in from..pos : Ahead(end, m)
  BY DEF OnItsWay
<1>3. /\ Waiting = queue \o inbox /\ Waiting' = inbox
  BY <1>1 DEF Waiting
<1>4. /\ queue \o inbox \in Seq(Told) /\ Len(queue \o inbox) = Len(queue) + Len(inbox)
      /\ \A i \in 1..Len(inbox) : (queue \o inbox)[Len(queue) + i] = inbox[i]
      /\ Len(queue) \in Nat /\ Len(inbox) \in Nat /\ inbox \in Seq(Told)
  BY WaitingTells DEF RoomTypes
<1>5. BeforeAttach(end)'
  <2>1. queue \o inbox = <<>> => inbox = <<>>
    BY <1>4, EmptySeq
  <2> QED
    BY <1>1, <1>2, <1>3, <2>1 DEF BeforeAttach, Mounted
<1>6. ASSUME Mounted', tailer' = "attached"
      PROVE  \E m \in from'..pos' : Ahead(end, m)'
  <2>1. PICK m \in from..pos : Backlog(queue \o inbox, 0, m)
    BY <1>1, <1>2, <1>3, <1>6 DEF Mounted, Ahead
  <2>2. PICK k \in m..pos : Backlog(queue \o inbox, Len(queue), k)
    <3>1. 0 \in 0..Len(queue \o inbox) /\ Len(queue) \in 0..Len(queue \o inbox)
      BY <1>4
    <3> QED
      BY <1>4, <2>1, <3>1, BacklogDrop
  <2>3. k \in from..pos /\ k \in Nat
    BY LenProperties DEF RoomTypes, End
  <2>4. Backlog(inbox, 0, k)
    <3>1. Len(queue) \in 0..Len(queue \o inbox) /\ Len(inbox) = Len(queue \o inbox) - Len(queue)
      BY <1>4
    <3> QED
      BY <1>4, <2>2, <2>3, <3>1, BacklogSuffix
  <2>5. PICK r : r = inbox
    OBVIOUS
  <2>6. Backlog(Waiting, 0, k)'
    BY <1>1, <1>3, <1>4, <2>3, <2>4, <2>5, BacklogSame
  <2>7. ~(cur' > from') /\ ~Followed'
    <3>1. cur = 0 /\ from \in Nat
      BY <1>1 DEF PageAlone, RoomTypes
    <3> QED
      BY <1>1, <3>1 DEF Followed
  <2>8. Ahead(end, k)' /\ k \in from'..pos'
    BY <1>1, <2>3, <2>6, <2>7 DEF Ahead
  <2> QED
    BY <2>8
<1>7. ComesTo(shown', updates', end)
  BY <1>1, <1>2
<1> QED
  BY <1>5, <1>6, <1>7 DEF OnItsWay, ComesTo

LEMMA RenderOnItsWay ==
  ASSUME RoomTypes, TellsLines, OnItsWay, Render
  PROVE  OnItsWay'
<1>1. /\ UNCHANGED <<log, tailer, pos, from, parsed, starts, stops, scan, scanned,
                     inbox, queue, cur, cut>>
      /\ updates' = <<>>
  BY DEF Render, hostVars
<1>2. PICK end \in Rooms :
        /\ ComesTo(shown, updates, end)
        /\ BeforeAttach(end)
        /\ Mounted /\ tailer = "attached" => \E m \in from..pos : Ahead(end, m)
  BY DEF OnItsWay
<1>3. shown' = end
  BY <1>2, RenderEnds DEF RoomTypes
<1>4. ComesTo(shown', updates', end)
  BY <1>1, <1>3, ComesNone
<1>5. Waiting' = Waiting
  BY <1>1 DEF Waiting
<1>6. BeforeAttach(end)'
  BY <1>1, <1>2, <1>5 DEF BeforeAttach, Mounted
<1>7. ASSUME Mounted', tailer' = "attached"
      PROVE  \E m \in from'..pos' : Ahead(end, m)'
  <2>1. PICK m \in from..pos : Ahead(end, m)
    BY <1>1, <1>2, <1>7 DEF Mounted
  <2>2. PICK r : r = Waiting
    OBVIOUS
  <2>3. r \in Seq(Told) /\ m \in Nat
    BY <2>2, WaitingTells, LenProperties DEF RoomTypes, End
  <2>4. Backlog(Waiting, 0, m)'
    BY <1>1, <1>5, <2>1, <2>2, <2>3, BacklogSame DEF Ahead
  <2>5. Followed' = Followed /\ (Heads(cur, end, m) => Heads(cur, end, m)')
    BY <1>1 DEF Followed, NothingBetween, Heads, End
  <2>6. Ahead(end, m)' /\ m \in from'..pos'
    BY <1>1, <2>1, <2>4, <2>5 DEF Ahead
  <2> QED
    BY <2>6
<1> QED
  BY <1>4, <1>6, <1>7 DEF OnItsWay, ComesTo

\* The page hears an event while the scan is on its way.
LEMMA Queueing ==
  ASSUME RoomTypes, TellsLines, OnItsWay, Hear, scan \in {"sent", "read"}
  PROVE  RoomTypes' /\ TellsLines' /\ OnItsWay' /\ cur' = cur
<1>1. /\ UNCHANGED <<log, tailer, pos, from, parsed, world, starts, stops, scan, scanned,
                     cur, shown, updates, ref, cut>> /\ End' = End
      /\ inbox # <<>> /\ inbox' = Tail(inbox) /\ queue' = Append(queue, Head(inbox))
  BY DEF Hear, hostVars, End
<1>2. queue \in Seq(Told) /\ inbox \in Seq(Told)
  BY DEF RoomTypes
<1> DEFINE e == Head(inbox)
           t == Tail(inbox)
<1>3. /\ e \in Told /\ t \in Seq(Told) /\ Len(t) = Len(inbox) - 1 /\ e = inbox[1]
      /\ \A i \in 1..Len(t) : t[i] = inbox[i+1]
      /\ inbox = <<e>> \o t /\ Len(inbox) \in Nat \ {0}
  <2>1. /\ e \in Told /\ t \in Seq(Told) /\ Len(t) = Len(inbox) - 1
        /\ \A i \in 1..Len(t) : t[i] = inbox[i+1]
    BY <1>1, <1>2, HeadTailProperties
  <2>2. Len(inbox) \in Nat \ {0} /\ e = inbox[1]
    BY <1>1, <1>2, EmptySeq
  <2> HIDE DEF e, t
  <2>3. <<e>> \in Seq(Told) /\ Len(<<e>>) = 1 /\ <<e>>[1] = e
    BY <2>1
  <2> DEFINE u == <<e>>
  <2> HIDE DEF u
  <2>4. /\ u \o t \in Seq(Told) /\ Len(u \o t) = Len(inbox)
        /\ \A i \in 1..Len(inbox) : (u \o t)[i] = IF i <= 1 THEN u[i] ELSE t[i - 1]
    <3>1. u \in Seq(Told) /\ Len(u) = 1
      BY <2>3 DEF u
    <3>2. /\ u \o t \in Seq(Told) /\ Len(u \o t) = Len(u) + Len(t)
          /\ \A i \in 1..(Len(u) + Len(t)) : (u \o t)[i] = IF i <= Len(u) THEN u[i] ELSE t[i - Len(u)]
      <4>1. u \in Seq(Told) /\ t \in Seq(Told)
        BY <2>1, <3>1
      <4> QED
        BY <4>1, ConcatProperties, Zenon
    <3>3. Len(u) + Len(t) = Len(inbox)
      BY <2>1, <2>2, <3>1
    <3> QED
      BY <3>1, <3>2, <3>3
  <2>5. \A i \in 1..Len(inbox) : inbox[i] = (u \o t)[i]
    <3> TAKE i \in 1..Len(inbox)
    <3>1. CASE i = 1
      BY <2>2, <2>3, <2>4, <3>1 DEF u
    <3>2. CASE i # 1
      <4>1. i - 1 \in 1..Len(t) /\ (i - 1) + 1 = i /\ ~(i <= 1)
        BY <2>1, <2>2, <3>2
      <4> QED
        BY <2>1, <2>4, <4>1
    <3> QED
      BY <3>1, <3>2
  <2>6. inbox = u \o t
    BY <1>2, <2>4, <2>5, SeqEqual
  <2> QED
    BY <2>1, <2>2, <2>6 DEF u
<1> HIDE DEF e, t
<1>4. Append(queue, e) \o t = queue \o inbox
  <2>1. <<e>> \in Seq(Told)
    BY <1>3
  <2>2. Append(queue, e) = queue \o <<e>>
    BY <1>2, <1>3, AppendIsConcat
  <2> QED
    BY <1>2, <1>3, <2>1, <2>2, ConcatAssociative
<1>5. Waiting' = Waiting
  BY <1>1, <1>4 DEF Waiting, e, t
<1>6. /\ queue' \in Seq(Told) /\ Len(queue') = Len(queue) + 1 /\ Len(queue) \in Nat
      /\ queue'[Len(queue) + 1] = e /\ \A i \in 1..Len(queue) : queue'[i] = queue[i]
  BY <1>1, <1>2, <1>3, AppendProperties, LenProperties DEF e
<1>7. RoomTypes'
  BY <1>1, <1>3, <1>6 DEF RoomTypes, t
<1>8. TellsLines'
  <2>1. \A i \in 1..Len(queue') : queue'[i].line \in 1..End
    <3> TAKE i \in 1..Len(queue')
    <3>1. CASE i = Len(queue) + 1
      BY <1>3, <1>6, <3>1 DEF TellsLines
    <3>2. CASE i # Len(queue) + 1
      BY <1>6, <3>2 DEF TellsLines
    <3> QED
      BY <3>1, <3>2
  <2>2. \A i \in 1..Len(t) : t[i].line \in 1..End
    <3>1. \A i \in 1..Len(t) : i + 1 \in 1..Len(inbox)
      BY <1>3
    <3> QED
      BY <1>3, <3>1 DEF TellsLines
  <2> QED
    BY <1>1, <2>1, <2>2 DEF TellsLines, t
<1>9. PICK end \in Rooms :
        /\ ComesTo(shown, updates, end)
        /\ BeforeAttach(end)
        /\ Mounted /\ tailer = "attached" => \E m \in from..pos : Ahead(end, m)
  BY DEF OnItsWay
<1>10. BeforeAttach(end)'
  BY <1>1, <1>5, <1>9 DEF BeforeAttach, Mounted
<1>11. ASSUME Mounted', tailer' = "attached"
       PROVE  \E m \in from'..pos' : Ahead(end, m)'
  <2>1. PICK m \in from..pos : Ahead(end, m)
    BY <1>1, <1>9, <1>11 DEF Mounted
  <2>2. PICK r : r = Waiting
    OBVIOUS
  <2>3. r \in Seq(Told) /\ m \in Nat
    BY <2>2, WaitingTells, LenProperties DEF RoomTypes, End
  <2>4. Backlog(Waiting, 0, m)'
    BY <1>1, <1>5, <2>1, <2>2, <2>3, BacklogSame DEF Ahead
  <2>5. Ahead(end, m)' /\ m \in from'..pos'
    BY <1>1, <2>1, <2>4 DEF Ahead
  <2> QED
    BY <2>5
<1>12. OnItsWay'
  <2>1. ComesTo(shown', updates', end)
    BY <1>1, <1>9
  <2> QED
    BY <1>10, <1>11, <2>1 DEF OnItsWay, ComesTo
<1> QED
  BY <1>1, <1>7, <1>8, <1>12

LEMMA ViewIs ==
  ASSUME RoomTypes
  PROVE  /\ View \in Views
         /\ View.cur = cur /\ View.updates = updates /\ View.ref = ref
<1>1. cur \in Nat /\ updates \in Seq(Handings) /\ ref \in Rooms
  BY DEF RoomTypes
<1> QED
  BY <1>1 DEF View, Views

\* An event it processes.
LEMMA Hearing ==
  ASSUME RoomTypes, TellsLines, PageAlone, OnItsWay, Hear, scan \notin {"sent", "read"}
  PROVE  RoomTypes' /\ TellsLines' /\ OnItsWay' /\ (cur' # 0 => Kind(cur') = "world")
<1>1. /\ UNCHANGED <<log, tailer, pos, from, parsed, world, starts, stops, scan, scanned,
                     queue, shown, cut>> /\ End' = End
      /\ Mounted /\ inbox # <<>> /\ inbox' = Tail(inbox)
  BY DEF Hear, hostVars, End, Mounted
<1>2. PICK eager \in BOOLEAN : Show(Processed(View, Head(inbox), eager))
  BY DEF Hear
<1>3. inbox \in Seq(Told)
  BY DEF RoomTypes
<1> DEFINE t == Tail(inbox)
           v == View
           x == Processed(v, inbox[1], eager)
<1>4. /\ t \in Seq(Told) /\ Len(t) = Len(inbox) - 1 /\ \A i \in 1..Len(t) : t[i] = inbox[1+i]
      /\ inbox[1] \in Told /\ inbox[1] = Head(inbox) /\ inbox[1].line \in 1..End
      /\ Len(inbox) \in Nat \ {0}
  <2>1. t \in Seq(Told) /\ Len(t) = Len(inbox) - 1 /\ \A i \in 1..Len(t) : t[i] = inbox[i+1]
    BY <1>1, <1>3, HeadTailProperties
  <2>2. Len(inbox) \in Nat \ {0}
    BY <1>1, <1>3, EmptySeq
  <2>3. \A i \in 1..Len(t) : i + 1 = 1 + i
    BY <2>1, <2>2
  <2>4. 1 \in 1..Len(inbox)
    BY <2>2
  <2>5. inbox[1] \in Told /\ inbox[1].line \in 1..End
    BY <1>3, <2>4, ElementOfSeq DEF TellsLines
  <2>6. inbox[1] = Head(inbox)
    BY <1>1, <1>3
  <2> QED
    BY <2>1, <2>2, <2>3, <2>5, <2>6
<1>5. cur' = x.cur /\ updates' = x.updates /\ ref' = x.ref
  BY <1>2, <1>4 DEF Show
<1>6. /\ v \in Views /\ v.cur = cur /\ v.updates = updates
      /\ cur \in 0..End /\ (cur # 0 => Kind(cur) = "world")
  BY ViewIs DEF RoomTypes, PageAlone
<1>7. PICK end \in Rooms :
        /\ ComesTo(shown, updates, end)
        /\ BeforeAttach(end)
        /\ Mounted /\ tailer = "attached" => \E m \in from..pos : Ahead(end, m)
  BY DEF OnItsWay
<1>8. Waiting = inbox /\ Waiting' = t
  BY <1>1 DEF Waiting
<1> HIDE DEF t, v
<1>9. /\ x \in Views /\ x.cur \in 0..End /\ (x.cur # 0 => Kind(x.cur) = "world")
      /\ \E new \in Rooms : ComesTo(shown, x.updates, new)
  <2> DEFINE e == inbox[1]
  <2>1. e \in Told /\ e.line \in 1..End
    BY <1>4
  <2> HIDE DEF e
  <2>2. LET y == Processed(v, e, eager)
        IN  /\ y \in Views /\ y.cur \in 0..End /\ (y.cur # 0 => Kind(y.cur) = "world")
            /\ \E new \in Rooms : ComesTo(shown, y.updates, new)
    BY <1>6, <1>7, <2>1, Processing
  <2> QED
    BY <2>2 DEF e
<1>10. tailer # "attached" => cut
  BY <1>1, <1>7, <1>8 DEF BeforeAttach
<1>11. ASSUME tailer = "attached"
       PROVE  \E new \in Rooms : /\ ComesTo(shown, x.updates, new)
                                 /\ \E n \in from..pos :
                                      /\ Backlog(t, 0, n)
                                      /\ x.cur > from \/ Followed => Heads(x.cur, new, n)
  <2>1. PICK m \in from..pos : Ahead(end, m)
    BY <1>1, <1>7, <1>11
  <2>2. scan \in {"done", "failed"}
    BY <1>1 DEF RoomTypes, PageAlone
  <2>3. Backlog(inbox, 0, m) /\ (v.cur > from \/ Followed => Heads(v.cur, end, m))
    BY <1>6, <1>8, <2>1, <2>2 DEF Ahead
  <2>4. Followed \in BOOLEAN /\ (Followed => Unmissed /\ ~cut)
    BY DEF Followed, NothingBetween, Unmissed, Kind
  <2>5. 0 \in Nat /\ 0 < Len(inbox) /\ 0 + 1 = 1
    BY <1>4
  <2>6. v.cur \in 0..End /\ (v.cur # 0 => Kind(v.cur) = "world") /\ ComesTo(shown, v.updates, end)
    BY <1>6, <1>7
  <2>7. \E n \in m..pos, new \in Rooms :
          /\ ComesTo(shown, x.updates, new)
          /\ Backlog(inbox, 1, n)
          /\ x.cur > from \/ Followed => Heads(x.cur, new, n)
    <3> DEFINE B == Followed
    <3>1. B \in BOOLEAN /\ (B => Unmissed /\ ~cut) /\ (v.cur > from \/ B => Heads(v.cur, end, m))
      BY <2>3, <2>4
    <3> HIDE DEF B
    <3>2. LET y == Processed(v, inbox[0 + 1], eager)
          IN  \E n \in m..pos, new \in Rooms :
                /\ ComesTo(shown, y.updates, new)
                /\ Backlog(inbox, 0 + 1, n)
                /\ y.cur > from \/ B => Heads(y.cur, new, n)
      BY <1>3, <1>4, <1>6, <2>3, <2>5, <2>6, <3>1, NextEvent
    <3> QED
      BY <2>5, <3>2 DEF B
  <2>8. PICK n \in m..pos, new \in Rooms :
          /\ ComesTo(shown, x.updates, new)
          /\ Backlog(inbox, 1, n)
          /\ x.cur > from \/ Followed => Heads(x.cur, new, n)
    BY <2>7
  <2>9. n \in from..pos /\ 1 \in 0..Len(inbox)
    BY <1>4 DEF RoomTypes
  <2>10. Backlog(t, 0, n)
    BY <1>3, <1>4, <2>8, <2>9, BacklogSuffix
  <2> QED
    BY <2>8, <2>9, <2>10
<1> HIDE DEF x
<1>12. OnItsWay'
  <2>1. CASE tailer # "attached"
    <3>1. PICK new \in Rooms : ComesTo(shown, x.updates, new)
      BY <1>9
    <3>2. ComesTo(shown', updates', new)
      BY <1>1, <1>5, <3>1
    <3>3. BeforeAttach(new)'
      BY <1>1, <1>10, <2>1 DEF BeforeAttach
    <3> QED
      BY <1>1, <2>1, <3>2, <3>3 DEF OnItsWay, ComesTo
  <2>2. CASE tailer = "attached"
    <3>1. PICK new \in Rooms : /\ ComesTo(shown, x.updates, new)
                               /\ \E n \in from..pos :
                                    /\ Backlog(t, 0, n)
                                    /\ x.cur > from \/ Followed => Heads(x.cur, new, n)
      BY <1>11, <2>2
    <3>2. PICK n \in from..pos : /\ Backlog(t, 0, n)
                                 /\ x.cur > from \/ Followed => Heads(x.cur, new, n)
      BY <3>1
    <3>3. PICK r : r = t
      OBVIOUS
    <3>4. PICK c : c = x.cur
      OBVIOUS
    <3>5. n \in Nat
      BY LenProperties DEF RoomTypes, End
    <3>6. Backlog(Waiting, 0, n)'
      BY <1>1, <1>4, <1>8, <3>2, <3>3, <3>5, BacklogSame
    <3>7. Followed' = Followed /\ (Heads(c, new, n) => Heads(c, new, n)')
      BY <1>1 DEF Followed, NothingBetween, Heads
    <3>8. Heads(c, new, n)' => Heads(cur, new, n)'
      BY <1>5, <3>4 DEF Heads
    <3>9. cur' > from' \/ Followed' => Heads(cur, new, n)'
      BY <1>1, <1>5, <3>2, <3>4, <3>7, <3>8
    <3>10. scan' # "read"
      BY <1>1
    <3>11. Ahead(new, n)' /\ n \in from'..pos'
      BY <1>1, <3>6, <3>9, <3>10 DEF Ahead
    <3>12. ComesTo(shown', updates', new)
      BY <1>1, <1>5, <3>1
    <3>13. BeforeAttach(new)'
      BY <1>1, <2>2 DEF BeforeAttach
    <3> QED
      BY <3>11, <3>12, <3>13 DEF OnItsWay, ComesTo
  <2> QED
    BY <2>1, <2>2
<1>13. RoomTypes'
  <2>1. x.cur \in 0..End /\ x.updates \in Seq(Handings) /\ x.ref \in Rooms
    BY <1>9 DEF Views
  <2> QED
    BY <1>1, <1>4, <1>5, <2>1 DEF RoomTypes, t
<1>14. TellsLines'
  <2>1. \A i \in 1..Len(t) : t[i].line \in 1..End
    <3>1. \A i \in 1..Len(t) : 1 + i \in 1..Len(inbox)
      BY <1>4
    <3> QED
      BY <1>4, <3>1 DEF TellsLines
  <2> QED
    BY <1>1, <2>1 DEF TellsLines, t
<1>15. cur' # 0 => Kind(cur') = "world"
  BY <1>5, <1>9
<1> QED
  BY <1>12, <1>13, <1>14, <1>15

\* The room as the scan has it: what the page shows before the queue.
LEMMA HydratedIs ==
  ASSUME RoomTypes, PageAlone, OnItsWay, scan = "read"
  PROVE  /\ Hydrated \in Views /\ Hydrated.cur = WorldAt(log, scanned)
         /\ Hydrated.cur \in 0..End /\ (Hydrated.cur # 0 => Kind(Hydrated.cur) = "world")
         /\ \E room \in Rooms : /\ ComesTo(shown, Hydrated.updates, room)
                                /\ Seen(room) = Present(log, scanned)
<1> DEFINE S == Present(log, scanned)
           room == RoomOf(S)
           u == [op |-> "set", room |-> room]
           w == WorldAt(log, scanned)
<1>1. S \subseteq Players
  BY DEF Present
<1>2. scanned \in Nat /\ End \in Nat /\ scanned <= End
  BY LenProperties DEF RoomTypes, End
<1>3. w \in 0..scanned /\ (w # 0 => Kind(w) = "world")
  BY <1>2, WorldAtIs DEF Kind
<1> HIDE DEF S, w
<1>4. room \in Rooms /\ Seen(room) = S
  BY <1>1 DEF RoomOf, Rooms, Seen
<1>5. u \in Handings /\ Ran(shown, u) = room
  BY <1>4 DEF Handings, Ran
<1>6. /\ View \in Views
      /\ View.cur = cur /\ View.updates = updates /\ View.ref = ref
  BY ViewIs
<1>7. /\ InRoom(scanned) = S /\ LastWorld(scanned) = w
  BY RadarReads DEF S, w
<1>8. cur = 0
  BY DEF PageAlone
<1>9. Hydrated = [Replaced(View, room) EXCEPT !.cur = IF w = 0 THEN 0 ELSE w]
  BY <1>7, <1>8 DEF Hydrated, None
<1> HIDE DEF room
<1>10. Replaced(View, room) = [cur |-> 0, updates |-> Append(updates, u), ref |-> room]
  BY <1>6, <1>8, ViewWith DEF Replaced
<1> DEFINE us == Append(updates, u)
<1>11. us \in Seq(Handings) /\ \E end \in Rooms : end = room /\ ComesTo(shown, us, end)
  <2>1. PICK end \in Rooms : ComesTo(shown, updates, end)
    BY DEF OnItsWay
  <2>2. updates \in Seq(Handings)
    BY DEF RoomTypes
  <2> HIDE DEF u
  <2>3. ComesTo(shown, us, Ran(end, u)) /\ us \in Seq(Handings)
    BY <1>5, <2>1, <2>2, ComesAppend
  <2>4. Ran(end, u) = room
    BY DEF u, Ran
  <2> QED
    BY <1>4, <2>3, <2>4
<1> HIDE DEF us
<1>12. Hydrated = [cur |-> w, updates |-> us, ref |-> room]
  <2>1. Replaced(View, room) = [cur |-> 0, updates |-> us, ref |-> room]
    BY <1>10 DEF us
  <2>2. Hydrated = [[cur |-> 0, updates |-> us, ref |-> room] EXCEPT !.cur = IF w = 0 THEN 0 ELSE w]
    BY <1>9, <2>1
  <2>3. (IF w = 0 THEN 0 ELSE w) = w
    OBVIOUS
  <2> QED
    BY <2>2, <2>3
<1>13. Hydrated.cur = w /\ Hydrated.updates = us /\ Hydrated \in Views
  BY <1>2, <1>3, <1>4, <1>11, <1>12 DEF Views
<1>14. w \in 0..End
  BY <1>2, <1>3
<1> QED
  BY <1>3, <1>4, <1>11, <1>13, <1>14 DEF S, w

\* The scan is ahead of the lines the page waits for, or nothing fell between.
LEMMA HydratedHeads ==
  ASSUME RoomTypes, NEW m \in from..pos, m = from \/ m <= scanned,
         NEW room, Seen(room) = Present(log, scanned),
         WorldAt(log, scanned) > from \/ NothingBetween
  PROVE  Heads(WorldAt(log, scanned), room, m)
<1> DEFINE w == WorldAt(log, End)
           c == WorldAt(log, scanned)
<1>1. /\ End \in Nat /\ scanned \in Nat /\ scanned <= End /\ from \in Nat /\ m \in Nat
      /\ m <= End /\ from <= m
  BY LenProperties DEF RoomTypes, End
<1>2. /\ w \in 0..End /\ (w # 0 => log[w].kind = "world")
      /\ \A i \in 1..End : log[i].kind = "world" => i <= w
      /\ c \in 0..scanned
  BY <1>1, WorldAtIs
<1> HIDE DEF w, c
<1>3. SUFFICES ASSUME w <= m
               PROVE  /\ c = w
                      /\ \A p \in Players : \/ \E i \in (m+1)..End : Concerns(log, i, p)
                                            \/ p \in Seen(room) <=> p \in Present(log, End)
  BY <1>1, <1>2 DEF Heads, w, c
<1>4. \A i \in (scanned+1)..m : log[i].kind = "avatar"
  <2>1. CASE m <= scanned
    BY <1>1, <2>1
  <2>2. CASE ~(m <= scanned)
    <3>1. m = from /\ ~(c > from)
      BY <1>1, <1>2, <2>2
    <3> QED
      BY <3>1 DEF NothingBetween, c
  <2> QED
    BY <2>1, <2>2
<1>5. w <= scanned
  <2>1. SUFFICES ASSUME w > scanned PROVE FALSE
    BY <1>1, <1>2
  <2>2. w \in (scanned+1)..m /\ w # 0
    BY <1>1, <1>2, <1>3, <2>1
  <2> QED
    BY <1>2, <1>4, <2>2
<1>6. \A i \in (scanned+1)..End : log[i].kind # "world"
  BY <1>1, <1>2, <1>5
<1>7. c = w
  BY <1>1, <1>6, SameWorld DEF w, c
<1>8. ASSUME NEW p \in Players, \A i \in (m+1)..End : ~Concerns(log, i, p)
      PROVE  p \in Present(log, End) <=> p \in Present(log, scanned)
  <2>1. ASSUME NEW i \in (scanned+1)..End PROVE ~Concerns(log, i, p)
    <3>1. i \in (scanned+1)..m \/ i \in (m+1)..End
      BY <1>1
    <3> QED
      BY <1>4, <1>8, <3>1 DEF Concerns
  <2> QED
    BY <1>1, <1>6, <2>1, SamePresent
<1> QED
  BY <1>7, <1>8

\* The scan answers.
LEMMA Answering ==
  ASSUME RoomTypes, TellsLines, PageAlone, OnItsWay, ScanAnswers
  PROVE  RoomTypes' /\ TellsLines' /\ OnItsWay' /\ (cur' # 0 => Kind(cur') = "world")
<1>1. /\ UNCHANGED <<log, tailer, pos, from, parsed, world, starts, stops, scanned,
                     inbox, shown, cut>> /\ End' = End
      /\ Mounted /\ scan = "read" /\ scan' = "done" /\ queue' = <<>>
  BY DEF ScanAnswers, hostVars, End, Mounted
<1>2. queue \in Seq(Told)
  BY DEF RoomTypes
<1>3. PICK h : /\ h[0] = Hydrated
               /\ \A i \in 1..Len(queue) : h[i] = Folded("ScanAnswers", h[i-1], queue[i])
               /\ cur' = h[Len(queue)].cur /\ updates' = h[Len(queue)].updates
               /\ ref' = h[Len(queue)].ref
  BY <1>2, ScanFolds DEF FoldsTo
<1>4. PICK end \in Rooms :
        /\ ComesTo(shown, updates, end)
        /\ BeforeAttach(end)
        /\ Mounted /\ tailer = "attached" => \E m \in from..pos : Ahead(end, m)
  BY DEF OnItsWay
<1>5. PICK room \in Rooms : /\ ComesTo(shown, Hydrated.updates, room)
                            /\ Seen(room) = Present(log, scanned)
  BY <1>1, HydratedIs
<1>6. /\ Hydrated \in Views /\ Hydrated.cur = WorldAt(log, scanned)
      /\ Hydrated.cur \in 0..End /\ (Hydrated.cur # 0 => Kind(Hydrated.cur) = "world")
  BY <1>1, HydratedIs
<1> DEFINE q == queue \o inbox
           n == Len(queue)
           B == NothingBetween
<1>7. /\ Waiting = q /\ Waiting' = inbox
  BY <1>1 DEF Waiting
<1>8. /\ q \in Seq(Told) /\ Len(q) = n + Len(inbox) /\ n \in Nat /\ Len(inbox) \in Nat
      /\ \A i \in 1..n : q[i] = queue[i] /\ q[i] \in Told /\ q[i].line \in 1..End
      /\ \A i \in 1..Len(inbox) : q[n + i] = inbox[i]
      /\ inbox \in Seq(Told)
  <2>1. \A i \in 1..n : queue[i] \in Told /\ queue[i].line \in 1..End
    BY <1>2, ElementOfSeq DEF TellsLines
  <2> QED
    BY <2>1, WaitingTells DEF RoomTypes
<1>9. B \in BOOLEAN /\ (B => Unmissed /\ ~cut)
  BY DEF NothingBetween, Unmissed, Kind
<1> HIDE DEF q, n, B
<1> DEFINE Good(j, new) ==
             tailer = "attached" =>
               \E m \in from..pos : /\ Backlog(q, j, m)
                                    /\ h[j].cur > from \/ B => Heads(h[j].cur, new, m)
           T == {j \in Nat : j <= n =>
                   /\ h[j] \in Views /\ h[j].cur \in 0..End /\ (h[j].cur # 0 => Kind(h[j].cur) = "world")
                   /\ \E new \in Rooms : ComesTo(shown, h[j].updates, new) /\ Good(j, new)}
<1>10. 0 \in T
  <2>1. ASSUME tailer = "attached"
        PROVE  \E m \in from..pos : /\ Backlog(q, 0, m)
                                    /\ h[0].cur > from \/ B => Heads(h[0].cur, room, m)
    <3>1. PICK m \in from..pos : Ahead(end, m)
      BY <1>1, <1>4, <2>1
    <3>2. Backlog(q, 0, m) /\ (m = from \/ m <= scanned)
      BY <1>1, <1>7, <3>1 DEF Ahead
    <3>3. h[0].cur > from \/ B => Heads(h[0].cur, room, m)
      BY <1>3, <1>5, <1>6, <3>2, HydratedHeads DEF B
    <3> QED
      BY <3>2, <3>3
  <2> QED
    BY <1>3, <1>5, <1>6, <2>1
<1>11. ASSUME NEW j \in Nat, j \in T PROVE j + 1 \in T
  <2> SUFFICES ASSUME j + 1 <= n
               PROVE  /\ h[j+1] \in Views /\ h[j+1].cur \in 0..End
                      /\ h[j+1].cur # 0 => Kind(h[j+1].cur) = "world"
                      /\ \E new \in Rooms : ComesTo(shown, h[j+1].updates, new) /\ Good(j + 1, new)
    OBVIOUS
  <2>1. j <= n /\ j + 1 \in 1..n /\ (j + 1) - 1 = j /\ j < Len(q)
    BY <1>8
  <2>2. /\ h[j] \in Views /\ h[j].cur \in 0..End /\ (h[j].cur # 0 => Kind(h[j].cur) = "world")
        /\ \E new \in Rooms : ComesTo(shown, h[j].updates, new) /\ Good(j, new)
    BY <1>11, <2>1
  <2>3. PICK old \in Rooms : ComesTo(shown, h[j].updates, old) /\ Good(j, old)
    BY <2>2
  <2>4. h[j+1] = Processed(h[j], q[j+1], FALSE)
    BY <1>3, <1>8, <2>1 DEF Folded, n
  <2>5. q[j+1] \in Told /\ q[j+1].line \in 1..End
    BY <1>8, <2>1
  <2> DEFINE v == h[j]
             e == q[j+1]
  <2> HIDE DEF T
  <2>6. CASE tailer # "attached"
    <3>1. v \in Views /\ v.cur \in 0..End /\ (v.cur # 0 => Kind(v.cur) = "world")
          /\ ComesTo(shown, v.updates, old) /\ e \in Told /\ e.line \in 1..End
      BY <2>2, <2>3, <2>5
    <3> HIDE DEF v, e
    <3>2. LET x == Processed(v, e, FALSE)
          IN  /\ x \in Views /\ x.cur \in 0..End /\ (x.cur # 0 => Kind(x.cur) = "world")
              /\ \E new \in Rooms : ComesTo(shown, x.updates, new)
      BY <3>1, Processing
    <3> QED
      BY <2>4, <2>6, <3>2 DEF v, e
  <2>7. CASE tailer = "attached"
    <3>1. PICK m \in from..pos : /\ Backlog(q, j, m)
                                 /\ v.cur > from \/ B => Heads(v.cur, old, m)
      BY <2>3, <2>7
    <3>2. v \in Views /\ v.cur \in 0..End /\ (v.cur # 0 => Kind(v.cur) = "world")
          /\ ComesTo(shown, v.updates, old)
      BY <2>2, <2>3
    <3> HIDE DEF v
    <3>3. LET x == Processed(v, q[j+1], FALSE)
          IN  /\ x \in Views /\ x.cur \in 0..End /\ (x.cur # 0 => Kind(x.cur) = "world")
              /\ \E k \in m..pos, new \in Rooms :
                   /\ ComesTo(shown, x.updates, new)
                   /\ Backlog(q, j + 1, k)
                   /\ x.cur > from \/ B => Heads(x.cur, new, k)
      <4>1. q \in Seq(Told) /\ j < Len(q) /\ q[j+1].line \in 1..End
        BY <1>8, <2>1, <2>5
      <4>2. v.cur > from \/ B => Heads(v.cur, old, m)
        BY <3>1
      <4>3. Backlog(q, j, m)
        BY <3>1
      <4> HIDE DEF Good
      <4>4. PICK eager : eager = FALSE
        OBVIOUS
      <4>5. LET x == Processed(v, q[j+1], eager)
            IN  \E k \in m..pos, new \in Rooms :
                     /\ ComesTo(shown, x.updates, new)
                     /\ Backlog(q, j + 1, k)
                     /\ x.cur > from \/ B => Heads(x.cur, new, k)
        BY <1>9, <3>2, <4>1, <4>2, <4>3, NextEvent, ZenonT(60)
      <4>6. LET x == Processed(v, q[j+1], eager)
            IN  /\ x \in Views /\ x.cur \in 0..End /\ (x.cur # 0 => Kind(x.cur) = "world")
        <5>1. e \in Told /\ e.line \in 1..End
          BY <2>5
        <5> HIDE DEF e
        <5>2. LET y == Processed(v, e, eager)
              IN  y \in Views /\ y.cur \in 0..End /\ (y.cur # 0 => Kind(y.cur) = "world")
          BY <3>2, <5>1, Processing
        <5> QED
          BY <5>2 DEF e
      <4> QED
        BY <4>4, <4>5, <4>6
    <3>4. \A k \in m..pos : k \in from..pos
      BY DEF RoomTypes
    <3> QED
      BY <2>4, <3>3, <3>4 DEF v
  <2> QED
    BY <2>6, <2>7
<1>12. n \in T
  <2> HIDE DEF T
  <2> QED
    BY <1>8, <1>10, <1>11, InductionOnNat
<1> DEFINE x == h[n]
<1>13. /\ x \in Views /\ x.cur \in 0..End /\ (x.cur # 0 => Kind(x.cur) = "world")
       /\ \E new \in Rooms : ComesTo(shown, x.updates, new) /\ Good(n, new)
  BY <1>8, <1>12
<1>14. cur' = x.cur /\ updates' = x.updates /\ ref' = x.ref
  BY <1>3 DEF n
<1>15. RoomTypes'
  <2>1. x.updates \in Seq(Handings) /\ x.ref \in Rooms /\ <<>> \in Seq(Told)
    BY <1>13, EmptySeq DEF Views
  <2> HIDE DEF x
  <2> QED
    BY <1>1, <1>13, <1>14, <2>1 DEF RoomTypes
<1>16. TellsLines'
  <2>1. Len(<<>>) = 0
    BY EmptySeq
  <2> QED
    BY <1>1, <2>1 DEF TellsLines
<1>17. OnItsWay'
  <2>1. CASE tailer # "attached" /\ cut
    <3>1. PICK new \in Rooms : ComesTo(shown, x.updates, new)
      BY <1>13
    <3>2. ComesTo(shown', updates', new)
      BY <1>1, <1>14, <3>1
    <3>3. BeforeAttach(new)'
      BY <1>1, <2>1 DEF BeforeAttach
    <3> QED
      BY <1>1, <2>1, <3>2, <3>3 DEF OnItsWay, ComesTo
  <2>2. CASE tailer # "attached" /\ ~cut
    <3>1. q = <<>>
      BY <1>1, <1>4, <1>7, <2>2 DEF BeforeAttach
    <3>2. n = 0 /\ inbox = <<>>
      <4>1. Len(q) = 0
        BY <3>1, EmptySeq
      <4> QED
        BY <1>8, <4>1, EmptySeq
    <3>3. cur' = WorldAt(log, scanned) /\ updates' = Hydrated.updates
      BY <1>3, <1>6, <1>14, <3>2
    <3>4. ComesTo(shown', updates', room)
      BY <1>1, <1>5, <3>3
    <3>5. BeforeAttach(room)'
      BY <1>1, <1>5, <1>7, <3>2, <3>3 DEF BeforeAttach
    <3> QED
      BY <1>1, <2>2, <3>4, <3>5 DEF OnItsWay, ComesTo
  <2>3. CASE tailer = "attached"
    <3>1. PICK new \in Rooms : ComesTo(shown, x.updates, new) /\ Good(n, new)
      BY <1>13
    <3>2. PICK m \in from..pos : /\ Backlog(q, n, m)
                                 /\ x.cur > from \/ B => Heads(x.cur, new, m)
      BY <2>3, <3>1
    <3>3. n \in 0..Len(q) /\ Len(inbox) = Len(q) - n
      BY <1>8
    <3>4. Backlog(inbox, 0, m)
      BY <1>8, <3>2, <3>3, BacklogSuffix
    <3>5. PICK r : r = inbox
      OBVIOUS
    <3>6. PICK c : c = x.cur
      OBVIOUS
    <3>7. m \in Nat
      BY LenProperties DEF RoomTypes, End
    <3>8. Backlog(Waiting, 0, m)'
      BY <1>1, <1>7, <1>8, <3>4, <3>5, <3>7, BacklogSame
    <3>9. (Followed' => B) /\ (Heads(c, new, m) => Heads(c, new, m)')
      BY <1>1 DEF Followed, NothingBetween, Heads, B
    <3> HIDE DEF x
    <3>10. Heads(c, new, m)' => Heads(cur, new, m)'
      BY <1>14, <3>6 DEF Heads
    <3>11. cur' > from' \/ Followed' => Heads(cur, new, m)'
      BY <1>1, <1>14, <3>2, <3>6, <3>9, <3>10
    <3>12. Ahead(new, m)' /\ m \in from'..pos'
      BY <1>1, <3>8, <3>11 DEF Ahead
    <3>13. ComesTo(shown', updates', new)
      BY <1>1, <1>14, <3>1
    <3>14. BeforeAttach(new)'
      BY <1>1, <2>3 DEF BeforeAttach
    <3> QED
      BY <3>12, <3>13, <3>14 DEF OnItsWay, ComesTo
  <2> QED
    BY <2>1, <2>2, <2>3
<1>18. cur' # 0 => Kind(cur') = "world"
  BY <1>13, <1>14
<1> QED
  BY <1>15, <1>16, <1>17, <1>18

-----------------------------------------------------------------------------
(* Every step                                                              *)

LEMMA AloneWithHost ==
  ASSUME RoomTypes, PageAlone, LogKept, UNCHANGED <<scan, queue, cur>>, inbox' = inbox \/ Mounted,
         starts[radar] = "not" <=> starts'[radar] = "not",
         stops[radar] = "not" <=> stops'[radar] = "not"
  PROVE  PageAlone'
<1>1. cur # 0 => log'[cur].kind = "world"
  <2>1. cur # 0 => cur \in 1..End
    BY DEF RoomTypes, LogKept
  <2> QED
    BY <2>1 DEF PageAlone, LogKept, Kind
<1>2. Mounted' <=> Mounted
  BY DEF Mounted
<1>3. starts'[radar] = "not" => /\ scan = "not" /\ stops'[radar] = "not"
                                /\ inbox' = <<>> /\ queue = <<>>
  BY DEF PageAlone, Mounted
<1> QED
  BY <1>1, <1>2, <1>3 DEF PageAlone, Kind

LEMMA InvQuiet ==
  ASSUME RoomInv, radar \in Pages, Quiet
  PROVE  RoomInv'
<1>1. RoomTypes /\ TellsLines /\ HostKnows /\ PageAlone /\ OnItsWay
  BY DEF RoomInv
<1>2. RoomTypes' /\ TellsLines'
  BY <1>1, HostTypes DEF Quiet
<1>3. /\ UNCHANGED <<log, pos, from, scan, scanned, inbox, queue, cur, shown, updates, ref, cut>>
      /\ tailer' = tailer \/ (tailer = "none" /\ tailer' = "fresh")
      /\ tailer = "attached" => parsed' = parsed
      /\ starts[radar] = "not" <=> starts'[radar] = "not"
      /\ stops[radar] = "not" <=> stops'[radar] = "not"
  BY <1>1, QuietIs
<1>4. HostKnows'
  <2>1. ASSUME NEW p \in Pages, SendStop(p) \/ Stop(p)
        PROVE  HostKnows'
    BY <1>1, <2>1, KnowsUnchanged DEF SendStop, Stop
  <2> QED
    BY <1>1, <2>1, KnowsSent, KnowsStart, KnowsBegin DEF Quiet
<1>5. LogKept
  BY <1>1, <1>3, SameLogKept
<1>6. PageAlone'
  BY <1>1, <1>3, <1>5, AloneWithHost
<1>7. OnItsWay'
  <2>1. Mounted' => Mounted
    BY <1>3 DEF Mounted
  <2>2. tailer' = "attached" <=> tailer = "attached"
    BY <1>3
  <2> QED
    BY <1>1, <1>3, <1>5, <2>1, <2>2, StaysOnItsWay
<1> QED
  BY <1>2, <1>4, <1>6, <1>7 DEF RoomInv

LEMMA InvHost ==
  ASSUME RoomInv, radar \in Pages,
         \/ UNCHANGED pageVars /\ (Attach \/ \E line \in Lines : Write(line))
         \/ /\ \E p \in Pages : TearDown(p)
            /\ cut' = (cut \/ Mounted)
            /\ UNCHANGED <<scan, scanned, inbox, queue, cur, shown, updates, ref>>
         \/ /\ Emit
            /\ inbox' = IF Mounted THEN Append(inbox, Event) ELSE inbox
            /\ UNCHANGED <<scan, scanned, queue, cur, shown, updates, ref, cut>>
  PROVE  RoomInv'
<1>1. RoomTypes /\ TellsLines /\ HostKnows /\ PageAlone /\ OnItsWay
  BY DEF RoomInv
<1>2. CASE UNCHANGED pageVars /\ Attach
  <2>1. RoomTypes' /\ TellsLines' /\ HostKnows' /\ OnItsWay'
    BY <1>1, <1>2, HostTypes, KnowsAttach, AttachOnItsWay
  <2>2. UNCHANGED <<log, starts, stops, scan, inbox, queue, cur>>
    BY <1>2 DEF Attach, pageVars
  <2>3. PageAlone'
    BY <1>1, <2>2, SameLogKept, AloneWithHost
  <2> QED
    BY <2>1, <2>3 DEF RoomInv
<1>3. CASE UNCHANGED pageVars /\ \E line \in Lines : Write(line)
  <2>1. PICK line \in Lines : Write(line)
    BY <1>3
  <2>2. /\ UNCHANGED <<tailer, pos, from, parsed, starts, stops>>
        /\ UNCHANGED <<scan, scanned, inbox, queue, cur, shown, updates, cut>>
    BY <1>3, <2>1 DEF Write, pageVars
  <2>3. LogKept /\ RoomTypes' /\ TellsLines' /\ HostKnows'
    BY <1>1, <1>3, <2>1, LongerLogKept, WriteTypes, KnowsWrite
  <2>4. PageAlone'
    BY <1>1, <2>2, <2>3, AloneWithHost
  <2>5. OnItsWay'
    <3>1. Mounted' => Mounted
      BY <2>2 DEF Mounted
    <3> QED
      BY <1>1, <2>2, <2>3, <3>1, StaysOnItsWay
  <2> QED
    BY <2>3, <2>4, <2>5 DEF RoomInv
<1>4. CASE /\ \E p \in Pages : TearDown(p)
           /\ cut' = (cut \/ Mounted)
           /\ UNCHANGED <<scan, scanned, inbox, queue, cur, shown, updates, ref>>
  <2>1. PICK p \in Pages : TearDown(p)
    BY <1>4
  <2>2. RoomTypes' /\ TellsLines'
    BY <1>1, <1>4, <2>1, TearDownTypes
  <2>3. HostKnows' /\ OnItsWay'
    BY <1>1, <1>4, <2>1, KnowsTearDown, TearDownOnItsWay
  <2>4. /\ UNCHANGED <<log, starts, scan, inbox, queue, cur>>
        /\ stops[radar] = "not" <=> stops'[radar] = "not"
    BY <1>1, <1>4, <2>1 DEF TearDown, RoomTypes
  <2>5. PageAlone'
    BY <1>1, <2>4, SameLogKept, AloneWithHost
  <2> QED
    BY <2>2, <2>3, <2>5 DEF RoomInv
<1>5. CASE /\ Emit
           /\ inbox' = IF Mounted THEN Append(inbox, Event) ELSE inbox
           /\ UNCHANGED <<scan, scanned, queue, cur, shown, updates, ref, cut>>
  <2>1. RoomTypes' /\ TellsLines'
    BY <1>1, <1>5, EmitTypes
  <2>2. HostKnows' /\ OnItsWay'
    BY <1>1, <1>5, KnowsEmit, EmitOnItsWay
  <2>3. /\ UNCHANGED <<log, starts, stops, scan, queue, cur>>
        /\ inbox' = inbox \/ Mounted
    BY <1>5 DEF Emit, Mounted
  <2>4. PageAlone'
    BY <1>1, <2>3, SameLogKept, AloneWithHost
  <2> QED
    BY <2>1, <2>2, <2>4 DEF RoomInv
<1> QED
  BY <1>2, <1>3, <1>4, <1>5

LEMMA InvPage ==
  ASSUME RoomInv, radar \in Pages,
         \/ Mount \/ Unmount \/ ScanReads \/ ScanAnswers
         \/ ScanFails \/ Hear \/ Render
  PROVE  RoomInv'
<1>1. RoomTypes /\ TellsLines /\ HostKnows /\ PageAlone /\ OnItsWay
  BY DEF RoomInv
<1>2. CASE Mount
  <2>1. RoomTypes' /\ TellsLines' /\ HostKnows' /\ OnItsWay'
    BY <1>1, <1>2, PageTypes, KnowsSent, MountOnItsWay DEF Mount
  <2>2. UNCHANGED <<log, cur>> /\ scan' = "sent" /\ starts'[radar] = "sent"
        /\ starts[radar] = "not"
    BY <1>1, <1>2 DEF Mount, SendStart, RoomTypes
  <2>3. PageAlone'
    BY <1>1, <2>2 DEF PageAlone, Kind
  <2> QED
    BY <2>1, <2>3 DEF RoomInv
<1>3. CASE Unmount
  <2>1. RoomTypes' /\ TellsLines' /\ OnItsWay'
    BY <1>1, <1>3, PageTypes, UnmountOnItsWay
  <2>2. /\ UNCHANGED <<log, world, tailer, parsed, pos, from, starts, scan, cur>>
        /\ starts[radar] # "not" /\ stops'[radar] = "sent"
    BY <1>1, <1>3 DEF Unmount, SendStop, RoomTypes
  <2>3. PageAlone'
    BY <1>1, <2>2 DEF PageAlone, Mounted, Kind
  <2>4. HostKnows'
    BY <1>1, <2>2, KnowsUnchanged
  <2> QED
    BY <2>1, <2>3, <2>4 DEF RoomInv
<1>4. CASE ScanReads \/ ScanFails
  <2>1. RoomTypes' /\ TellsLines' /\ OnItsWay'
    BY <1>1, <1>4, PageTypes, ScanReadsOnItsWay, ScanFailsOnItsWay
  <2>2. /\ UNCHANGED <<log, world, tailer, parsed, pos, from, starts, stops, cur>>
        /\ scan \in {"sent", "read"} /\ scan' \in {"read", "failed"}
    BY <1>4 DEF ScanReads, ScanFails, hostVars
  <2>3. PageAlone'
    BY <1>1, <2>2 DEF PageAlone, Mounted, Kind
  <2>4. HostKnows'
    BY <1>1, <2>2, KnowsUnchanged
  <2> QED
    BY <2>1, <2>3, <2>4 DEF RoomInv
<1>5. CASE ScanAnswers \/ Hear
  <2>1. /\ UNCHANGED <<log, world, tailer, parsed, pos, from, starts, stops>> /\ Mounted
    BY <1>5 DEF ScanAnswers, Hear, hostVars, Mounted
  <2>2. /\ RoomTypes' /\ TellsLines' /\ OnItsWay' /\ (cur' # 0 => Kind(cur') = "world")
    BY <1>1, <1>5, Answering, Queueing, Hearing DEF PageAlone
  <2>3. /\ scan' \in {"not", "sent", "read"} => scan' = scan /\ cur' = 0
        /\ scan' # "not"
    <3>1. CASE ScanAnswers
      BY <3>1 DEF ScanAnswers
    <3>2. CASE Hear /\ scan \in {"sent", "read"}
      BY <1>1, <3>2, Queueing DEF Hear, PageAlone
    <3>3. CASE Hear /\ scan \notin {"sent", "read"}
      BY <1>1, <2>1, <3>3 DEF Hear, PageAlone
    <3> QED
      BY <1>5, <3>1, <3>2, <3>3
  <2>4. PageAlone'
    BY <2>1, <2>2, <2>3 DEF PageAlone, Mounted, Kind
  <2>5. HostKnows'
    BY <1>1, <2>1, KnowsUnchanged
  <2> QED
    BY <2>2, <2>4, <2>5 DEF RoomInv
<1>6. CASE Render
  <2>1. RoomTypes' /\ TellsLines' /\ OnItsWay'
    BY <1>1, <1>6, RenderTypes, RenderOnItsWay
  <2>2. UNCHANGED <<log, world, tailer, parsed, pos, from, starts, stops, scan, inbox, queue, cur>>
    BY <1>6 DEF Render, hostVars
  <2>3. PageAlone'
    BY <1>1, <2>2, SameLogKept, AloneWithHost
  <2>4. HostKnows'
    BY <1>1, <2>2, KnowsUnchanged
  <2> QED
    BY <2>1, <2>3, <2>4 DEF RoomInv
<1> QED
  BY <1>2, <1>3, <1>4, <1>5, <1>6

LEMMA InvStutter ==
  ASSUME RoomInv, UNCHANGED vars
  PROVE  RoomInv'
<1>1. RoomTypes /\ TellsLines /\ HostKnows /\ PageAlone /\ OnItsWay
  BY DEF RoomInv
<1>2. UNCHANGED <<log, tailer, pos, from, parsed, world, starts, stops, scan, scanned,
                  inbox, queue, cur, shown, updates, ref, cut>> /\ End' = End
  BY DEF vars, hostVars, pageVars, End
<1>3. RoomTypes' /\ TellsLines'
  BY <1>1, <1>2 DEF RoomTypes, TellsLines
<1>4. HostKnows' /\ PageAlone'
  BY <1>1, <1>2, KnowsUnchanged, SameLogKept, AloneWithHost
<1>5. OnItsWay'
  <2>1. Mounted' => Mounted
    BY <1>2 DEF Mounted
  <2> QED
    BY <1>1, <1>2, <2>1, SameLogKept, StaysOnItsWay
<1> QED
  BY <1>3, <1>4, <1>5 DEF RoomInv

LEMMA InvInit ==
  ASSUME radar \in Pages, Init
  PROVE  RoomInv
<1>1. /\ tailer = "none" /\ world = 0 /\ parsed = 0 /\ scan = "not" /\ cur = 0
      /\ inbox = <<>> /\ queue = <<>> /\ updates = <<>> /\ shown = Empty
      /\ \A p \in Pages : starts[p] = "not" /\ stops[p] = "not"
  BY DEF Init, HostInit, None
<1>2. RoomTypes /\ TellsLines
  BY RoomTypesInit
<1>3. HostKnows
  BY <1>1 DEF HostKnows
<1>4. ~Mounted
  BY <1>1 DEF Mounted
<1>5. PageAlone
  BY <1>1, <1>4 DEF PageAlone
<1>6. OnItsWay
  <2>1. shown \in Rooms /\ ComesTo(shown, updates, shown)
    BY <1>1, <1>2, ComesNone DEF RoomTypes
  <2> QED
    BY <1>4, <2>1 DEF OnItsWay, BeforeAttach
<1> QED
  BY <1>2, <1>3, <1>5, <1>6 DEF RoomInv

LEMMA RadarThere ==
  ASSUME RoomInv
  PROVE  RadarIsTrue
<1>1. RoomTypes /\ OnItsWay
  BY DEF RoomInv
<1>2. SUFFICES ASSUME Settled, cur > from \/ (scan = "done" /\ NothingBetween)
               PROVE  /\ cur = WorldAt(log, End)
                      /\ Seen(shown) = Present(log, End)
  <2>1. LastWorld(Len(log)) = WorldAt(log, End)
        /\ InRoom(Len(log)) = Present(log, End)
    BY RadarReads DEF End
  <2> QED
    BY <2>1 DEF RadarIsTrue, Seen
<1>3. /\ Mounted /\ tailer = "attached" /\ pos = End
      /\ scan \in {"done", "failed"} /\ inbox = <<>> /\ updates = <<>>
  BY <1>2 DEF Settled, Mounted, End
<1>4. PICK end \in Rooms : /\ ComesTo(shown, updates, end)
                           /\ \E m \in from..pos : Ahead(end, m)
  BY <1>1, <1>3 DEF OnItsWay
<1>5. PICK m \in from..pos : Ahead(end, m)
  BY <1>4
<1>6. Len(<<>>) = 0
  BY EmptySeq
<1>7. end = shown
  BY <1>3, <1>4, <1>6 DEF ComesTo
<1>8. m = End /\ End \in Nat
  <2>1. Waiting = <<>>
    BY <1>3 DEF Waiting
  <2>2. 0 <= 0 - (pos - m)
    BY <1>5, <1>6, <2>1 DEF Ahead, Backlog
  <2>3. pos \in Nat /\ m \in Nat /\ m <= pos
    BY <1>1, LenProperties DEF RoomTypes, End
  <2> QED
    BY <1>3, <2>2, <2>3
<1>9. Heads(cur, shown, End)
  BY <1>2, <1>3, <1>5, <1>7, <1>8 DEF Ahead, Followed
<1>10. WorldAt(log, End) \in 0..End
  BY <1>8, WorldAtIs
<1>11. /\ cur = WorldAt(log, End)
       /\ \A p \in Players : \/ \E i \in (End+1)..End : Concerns(log, i, p)
                             \/ p \in Seen(shown) <=> p \in Present(log, End)
  BY <1>8, <1>9, <1>10 DEF Heads
<1>12. \A p \in Players : p \in Seen(shown) <=> p \in Present(log, End)
  BY <1>8, <1>11
<1>13. Seen(shown) \subseteq Players /\ Present(log, End) \subseteq Players
  BY DEF Seen, Present
<1> QED
  BY <1>11, <1>12, <1>13

\* Once the log is quiet the radar shows the room VRChat is in and who is in it,
\* whatever the scan and the stream of the log told it twice, late or in another
\* order: if nothing fell between the scan and the attach, and in any case from
\* the next instance on (processLiveEvent and the queue of RadarEngine.tsx).
THEOREM RadarStaysTrue == Spec => []RadarIsTrue
<1> USE RadarAssumption
<1>1. Init => RoomInv
  BY InvInit
<1>2. RoomInv /\ [Next]_vars => RoomInv'
  <2>1. ASSUME RoomInv, Next PROVE RoomInv'
    <3>1. CASE Host /\ UNCHANGED pageVars
      <4>1. Quiet \/ (UNCHANGED pageVars
                      /\ (Attach \/ \E line \in Lines : Write(line)))
        BY <3>1 DEF Host, Quiet
      <4> QED
        BY <2>1, <4>1, InvQuiet, InvHost
    <3>2. CASE \/ /\ \E p \in Pages : TearDown(p)
                  /\ cut' = (cut \/ Mounted)
                  /\ UNCHANGED <<scan, scanned, inbox, queue, cur, shown, updates, ref>>
               \/ /\ Emit
                  /\ inbox' = IF Mounted THEN Append(inbox, Event) ELSE inbox
                  /\ UNCHANGED <<scan, scanned, queue, cur, shown, updates, ref, cut>>
      BY <2>1, <3>2, InvHost
    <3>3. CASE \/ Mount \/ Unmount \/ ScanReads \/ ScanAnswers
               \/ ScanFails \/ Hear \/ Render
      BY <2>1, <3>3, InvPage
    <3> QED
      BY <2>1, <3>1, <3>2, <3>3 DEF Next
  <2> QED
    BY <2>1, InvStutter
<1>3. RoomInv => RadarIsTrue
  BY RadarThere
<1> QED
  BY <1>1, <1>2, <1>3, PTL DEF Spec
=============================================================================
