---------------------------- MODULE StoresProofs ----------------------------
(***************************************************************************)
(* What the page keeps, what the model is told of it, what the log of a    *)
(* session holds, and what is read of a streamed answer, for any number of *)
(* sessions, containers, providers, messages, lines and steps.             *)
(***************************************************************************)
EXTENDS WorkspaceStore, Settings, ModelContext, SessionStorage, ChatStream, Subsequences,
        FiniteSetTheorems, SequenceTheorems, WellFoundedInduction, TLAPS

-----------------------------------------------------------------------------
(***************************************************************************)
(* Numbers and sequences.  What holds at first and is kept by every step   *)
(* holds of all of them: said of a set of them, not of a predicate, so     *)
(* that it can be cited.                                                   *)
(***************************************************************************)

LEMMA LeastNumber ==
  ASSUME NEW T, T \subseteq Nat, T # {}
  PROVE  \E x \in T : \A y \in T : x <= y
<1>1. PICK x \in T : \A y \in T : ~ (<<y, x>> \in OpToRel(<, Nat))
  BY NatLessThanWellFounded, WFMin
<1>2. \A y \in T : ~ (y < x)
  BY <1>1 DEF OpToRel
<1> QED BY <1>2

\* Induction over the numbers, for a set of them.
LEMMA EveryNumber ==
  ASSUME NEW G, 0 \in G, \A n \in Nat : n \in G => n + 1 \in G
  PROVE  Nat \subseteq G
<1> SUFFICES ASSUME Nat \ G # {} PROVE FALSE
  OBVIOUS
<1>1. PICK b \in Nat \ G : \A y \in Nat \ G : b <= y
  BY LeastNumber
<1>2. b # 0 /\ b - 1 \in Nat
  BY <1>1
<1>3. b - 1 \in G
  BY <1>1, <1>2
<1> QED BY <1>1, <1>2, <1>3

\* Induction over the sequences, by what is appended.
LEMMA EverySequence ==
  ASSUME NEW S, NEW G, <<>> \in G,
         \A s \in Seq(S), x \in S : s \in G => Append(s, x) \in G
  PROVE  Seq(S) \subseteq G
<1> DEFINE L == {n \in Nat : \A s \in Seq(S) : Len(s) = n => s \in G}
<1>1. 0 \in L
  <2> SUFFICES ASSUME NEW s \in Seq(S), Len(s) = 0 PROVE s \in G
    OBVIOUS
  <2> QED BY EmptySeq
<1>2. ASSUME NEW n \in Nat, n \in L PROVE n + 1 \in L
  <2> SUFFICES ASSUME NEW s \in Seq(S), Len(s) = n + 1 PROVE s \in G
    BY <1>2
  <2> DEFINE t == SubSeq(s, 1, n)
  <2>1. t \in Seq(S) /\ Len(t) = n /\ s[n + 1] \in S
    BY SubSeqProperties, ElementOfSeq
  <2>2. s = Append(t, s[n + 1])
    BY <2>1
  <2>3. t \in G
    BY <1>2, <2>1
  <2> QED BY <2>1, <2>2, <2>3
<1>3. Nat \subseteq L
  <2> HIDE DEF L
  <2> QED BY <1>1, <1>2, EveryNumber
<1> SUFFICES ASSUME NEW s \in Seq(S) PROVE s \in G
  OBVIOUS
<1>4. Len(s) \in L
  BY <1>3, LenProperties
<1> QED BY <1>4

\* f goes from c through S, one step after another.
Steps(n, S, c, step, f) ==
  f \in [0..n -> S] /\ f[0] = c /\ \A i \in 1..n : f[i] = step[i][f[i - 1]]

\* A function of the numbers up to n may be defined step by step.
LEMMA StepByStep ==
  ASSUME NEW n \in Nat, NEW S, NEW c \in S, NEW step \in [1..n -> [S -> S]]
  PROVE  \E f : Steps(n, S, c, step, f)
<1> DEFINE G == {k \in Nat : k <= n => \E f \in [0..k -> S] :
                    f[0] = c /\ \A i \in 1..k : f[i] = step[i][f[i - 1]]}
<1>1. 0 \in G
  <2> DEFINE f == [i \in 0..0 |-> c]
  <2>1. f \in [0..0 -> S] /\ f[0] = c /\ \A i \in 1..0 : f[i] = step[i][f[i - 1]]
    OBVIOUS
  <2> QED BY <2>1
<1>2. ASSUME NEW k \in Nat, k \in G PROVE k + 1 \in G
  <2> SUFFICES ASSUME k + 1 <= n
        PROVE \E f \in [0..(k + 1) -> S] :
                f[0] = c /\ \A i \in 1..(k + 1) : f[i] = step[i][f[i - 1]]
    BY <1>2
  <2>1. PICK f \in [0..k -> S] : f[0] = c /\ \A i \in 1..k : f[i] = step[i][f[i - 1]]
    BY <1>2
  <2> DEFINE g == [i \in 0..(k + 1) |-> IF i = k + 1 THEN step[k + 1][f[k]] ELSE f[i]]
  <2>2. step[k + 1][f[k]] \in S
    BY <2>1
  <2>3. g \in [0..(k + 1) -> S]
    BY <2>1, <2>2
  <2>4. g[0] = c
    BY <2>1
  <2>5. ASSUME NEW i \in 1..(k + 1) PROVE g[i] = step[i][g[i - 1]]
    <3>1. CASE i = k + 1
      <4>1. i - 1 = k /\ k \in 0..k /\ k # k + 1
        BY <3>1
      <4>2. g[i] = step[k + 1][f[k]] /\ g[i - 1] = f[k]
        BY <3>1, <4>1
      <4> QED BY <3>1, <4>2
    <3>2. CASE i # k + 1
      <4>1. i \in 1..k /\ i - 1 \in 0..k /\ i - 1 # k + 1
        BY <3>2
      <4>2. g[i] = f[i] /\ g[i - 1] = f[i - 1]
        BY <4>1
      <4> QED BY <2>1, <4>1, <4>2
    <3> QED BY <3>1, <3>2
  <2> QED BY <2>3, <2>4, <2>5
<1>3. n \in G
  <2> HIDE DEF G
  <2> QED BY <1>1, <1>2, EveryNumber
<1> QED BY <1>3 DEF Steps

LEMMA KeptUpTo ==
  ASSUME NEW S, NEW s \in Seq(S), NEW T
  PROVE  /\ keptUpTo(s, T) \in [0..Len(s) -> Seq(S)]
         /\ keptUpTo(s, T)[0] = <<>>
         /\ \A i \in 1..Len(s) : keptUpTo(s, T)[i] = IF s[i] \in T THEN Append(keptUpTo(s, T)[i - 1], s[i])
                                                      ELSE keptUpTo(s, T)[i - 1]
<1> DEFINE step == [i \in 1..Len(s) |-> [p \in Seq(S) |-> IF s[i] \in T THEN Append(p, s[i]) ELSE p]]
<1>1. Len(s) \in Nat /\ \A i \in 1..Len(s) : s[i] \in S
  BY LenProperties, ElementOfSeq
<1>2. step \in [1..Len(s) -> [Seq(S) -> Seq(S)]]
  BY <1>1
<1>3. <<>> \in Seq(S)
  OBVIOUS
<1>4. PICK f : Steps(Len(s), Seq(S), <<>>, step, f)
  BY <1>1, <1>2, <1>3, StepByStep
<1>5. f = [i \in 0..Len(s) |-> IF i = 0 THEN <<>>
                          ELSE IF s[i] \in T THEN Append(f[i - 1], s[i]) ELSE f[i - 1]]
  <2>1. ASSUME NEW i \in 1..Len(s) PROVE step[i][f[i - 1]] = IF s[i] \in T THEN Append(f[i - 1], s[i]) ELSE f[i - 1]
    <3>0. i - 1 \in 0..Len(s)
      BY <1>1
    <3>1. f[i - 1] \in Seq(S)
      BY <3>0, <1>4 DEF Steps
    <3> QED BY <3>1
  <2> HIDE DEF step
  <2>2. \A i \in 1..Len(s) : f[i] = IF s[i] \in T THEN Append(f[i - 1], s[i]) ELSE f[i - 1]
    BY <1>4, <2>1 DEF Steps
  <2>3. f = [i \in 0..Len(s) |-> f[i]] /\ f[0] = <<>>
    BY <1>4 DEF Steps
  <2> QED BY <2>2, <2>3, <1>1
<1> HIDE DEF step
<1>6. keptUpTo(s, T) = [i \in 0..Len(s) |-> IF i = 0 THEN <<>>
                          ELSE IF s[i] \in T THEN Append(keptUpTo(s, T)[i - 1], s[i]) ELSE keptUpTo(s, T)[i - 1]]
  BY <1>5 DEF keptUpTo
<1>8. /\ keptUpTo(s, T)[0] = <<>> /\ DOMAIN keptUpTo(s, T) = 0..Len(s)
      /\ \A i \in 1..Len(s) : keptUpTo(s, T)[i] = IF s[i] \in T THEN Append(keptUpTo(s, T)[i - 1], s[i])
                                                      ELSE keptUpTo(s, T)[i - 1]
  <2> DEFINE g == keptUpTo(s, T)
  <2>1. g = [i \in 0..Len(s) |-> IF i = 0 THEN <<>>
                          ELSE IF s[i] \in T THEN Append(g[i - 1], s[i]) ELSE g[i - 1]]
    BY <1>6
  <2> HIDE DEF g
  <2>2. g[0] = <<>> /\ DOMAIN g = 0..Len(s)
      /\ \A i \in 1..Len(s) : g[i] = IF s[i] \in T THEN Append(g[i - 1], s[i]) ELSE g[i - 1]
    <3>1. 0 \in 0..Len(s) /\ DOMAIN g = 0..Len(s)
      BY <2>1, <1>1
    <3>2. g[0] = <<>>
      BY <2>1, <3>1
    <3>3. ASSUME NEW i \in 1..Len(s) PROVE g[i] = IF s[i] \in T THEN Append(g[i - 1], s[i]) ELSE g[i - 1]
      <4>1. i \in 0..Len(s) /\ i # 0
        BY <1>1
      <4> QED BY <2>1, <4>1
    <3> QED BY <3>1, <3>2, <3>3
  <2> QED BY <2>2 DEF g
<1>7. \A i \in 0..Len(s) : keptUpTo(s, T)[i] \in Seq(S)
  <2> DEFINE G == {k \in Nat : k <= Len(s) => keptUpTo(s, T)[k] \in Seq(S)}
  <2>1. 0 \in G
    BY <1>8, <1>3, <1>1
  <2>2. ASSUME NEW k \in Nat, k \in G PROVE k + 1 \in G
    <3> SUFFICES ASSUME k + 1 <= Len(s) PROVE keptUpTo(s, T)[k + 1] \in Seq(S)
      BY <2>2
    <3>1. k \in 0..Len(s) /\ k + 1 \in 1..Len(s) /\ keptUpTo(s, T)[k] \in Seq(S)
      BY <2>2, <1>1
    <3>2. keptUpTo(s, T)[k + 1] = IF s[k + 1] \in T THEN Append(keptUpTo(s, T)[k], s[k + 1]) ELSE keptUpTo(s, T)[k]
      BY <1>8, <3>1, <1>1
    <3> QED BY <3>1, <3>2, <1>1
  <2> HIDE DEF G
  <2>3. Nat \subseteq G
    BY <2>1, <2>2, EveryNumber
  <2> QED BY <2>3, <1>1 DEF G
<1> QED BY <1>6, <1>8, <1>7, <1>1

LEMMA RangeOfAppend ==
  ASSUME NEW S, NEW s \in Seq(S), NEW x \in S
  PROVE  Range(Append(s, x)) = Range(s) \cup {x}
<1>1. Len(s) \in Nat /\ Len(Append(s, x)) = Len(s) + 1 /\ DOMAIN Append(s, x) = 1..(Len(s) + 1) /\ DOMAIN s = 1..Len(s)
      /\ Append(s, x)[Len(s) + 1] = x /\ \A i \in 1..Len(s) : Append(s, x)[i] = s[i]
  BY AppendProperties, LenProperties
<1> DEFINE t == Append(s, x)
<1> HIDE DEF t
<1>2. ASSUME NEW y \in Range(t) PROVE y \in Range(s) \cup {x}
  <2>1. PICK i \in 1..(Len(s) + 1) : y = t[i]
    BY <1>1 DEF Range, t
  <2> QED BY <2>1, <1>1 DEF Range, t
<1>3. ASSUME NEW y \in Range(s) \cup {x} PROVE y \in Range(t)
  <2>1. CASE y = x
    <3>1. Len(s) + 1 \in DOMAIN t /\ t[Len(s) + 1] = y
      BY <2>1, <1>1 DEF t
    <3> QED BY <3>1 DEF Range
  <2>2. CASE y # x
    <3>1. PICK i \in 1..Len(s) : y = s[i]
      BY <2>2, <1>1, <1>3 DEF Range
    <3>2. i \in DOMAIN t /\ t[i] = y
      BY <3>1, <1>1 DEF t
    <3> QED BY <3>2 DEF Range
  <2> QED BY <2>1, <2>2
<1> QED BY <1>2, <1>3 DEF t

LEMMA OnlyEmpty ==
  ASSUME NEW T
  PROVE  only(<<>>, T) = <<>>
<1>1. <<>> \in Seq({}) /\ Len(<<>>) = 0
  OBVIOUS
<1>2. \A s \in Seq({}) : keptUpTo(s, T)[0] = <<>>
  BY KeptUpTo
<1> QED BY <1>1, <1>2 DEF only

LEMMA OnlyAppend ==
  ASSUME NEW S, NEW s \in Seq(S), NEW x \in S, NEW T
  PROVE  only(Append(s, x), T) = IF x \in T THEN Append(only(s, T), x) ELSE only(s, T)
<1> DEFINE t == Append(s, x)
<1>1. t \in Seq(S) /\ Len(t) = Len(s) + 1 /\ Len(s) \in Nat /\ t[Len(t)] = x
      /\ \A i \in 1..Len(s) : t[i] = s[i]
  BY AppendProperties, LenProperties
<1> HIDE DEF t
<1> DEFINE f == keptUpTo(s, T)
           g == keptUpTo(t, T)
           G == {i \in Nat : i <= Len(s) => g[i] = f[i]}
<1>2. f[0] = <<>> /\ \A i \in 1..Len(s) : f[i] = IF s[i] \in T THEN Append(f[i - 1], s[i]) ELSE f[i - 1]
  BY KeptUpTo
<1>3. g[0] = <<>> /\ \A i \in 1..Len(t) : g[i] = IF t[i] \in T THEN Append(g[i - 1], t[i]) ELSE g[i - 1]
  BY <1>1, KeptUpTo
<1> HIDE DEF f, g
<1>4. 0 \in G
  BY <1>2, <1>3
<1>5. ASSUME NEW i \in Nat, i \in G PROVE i + 1 \in G
  <2> SUFFICES ASSUME i + 1 <= Len(s) PROVE g[i + 1] = f[i + 1]
    OBVIOUS
  <2>1. i + 1 \in 1..Len(s) /\ i + 1 \in 1..Len(t) /\ (i + 1) - 1 = i /\ g[i] = f[i]
    BY <1>1, <1>5
  <2>2. t[i + 1] = s[i + 1]
    BY <2>1, <1>1
  <2>3. f[i + 1] = IF s[i + 1] \in T THEN Append(f[i], s[i + 1]) ELSE f[i]
    BY <1>2, <2>1
  <2>4. g[i + 1] = IF t[i + 1] \in T THEN Append(g[i], t[i + 1]) ELSE g[i]
    BY <1>3, <2>1
  <2> QED BY <2>1, <2>2, <2>3, <2>4
<1>6. g[Len(s)] = f[Len(s)]
  <2> HIDE DEF G
  <2>1. Len(s) \in G
    BY <1>1, <1>4, <1>5, EveryNumber
  <2> QED BY <2>1, <1>1 DEF G
<1>7. g[Len(t)] = IF x \in T THEN Append(g[Len(s)], x) ELSE g[Len(s)]
  <2>1. Len(t) \in 1..Len(t) /\ Len(t) - 1 = Len(s)
    BY <1>1
  <2> QED BY <2>1, <1>3, <1>1
<1> QED BY <1>6, <1>7 DEF only, f, g, t

\* Every sequence is empty or one with something appended: the two equations
\* say all there is to say of the filter.
LEMMA OnlyRange ==
  ASSUME NEW S, NEW s \in Seq(S), NEW T
  PROVE  only(s, T) \in Seq(S) /\ Range(only(s, T)) = Range(s) \cap T
<1> DEFINE G == {t \in Seq(S) : only(t, T) \in Seq(S) /\ Range(only(t, T)) = Range(t) \cap T}
<1>1. <<>> \in G
  <2>1. <<>> \in Seq(S) /\ Range(<<>>) = {}
    BY DEF Range
  <2> QED BY <2>1, OnlyEmpty
<1>2. ASSUME NEW t \in Seq(S), NEW x \in S, t \in G PROVE Append(t, x) \in G
  <2>1. Append(t, x) \in Seq(S) /\ Range(Append(t, x)) = Range(t) \cup {x}
    BY RangeOfAppend
  <2>2. Range(Append(only(t, T), x)) = Range(only(t, T)) \cup {x}
    BY <1>2, RangeOfAppend
  <2>3. only(Append(t, x), T) = IF x \in T THEN Append(only(t, T), x) ELSE only(t, T)
    BY OnlyAppend
  <2>4. CASE x \in T
    <3>1. only(Append(t, x), T) = Append(only(t, T), x)
      BY <2>3, <2>4
    <3>2. Append(only(t, T), x) \in Seq(S)
      BY <1>2
    <3>3. Range(Append(only(t, T), x)) = Range(Append(t, x)) \cap T
      BY <1>2, <2>1, <2>2, <2>4
    <3> QED BY <2>1, <3>1, <3>2, <3>3
  <2>5. CASE x \notin T
    BY <1>2, <2>1, <2>3, <2>5
  <2> QED BY <2>4, <2>5
<1> HIDE DEF G
<1>3. s \in G
  BY <1>1, <1>2, EverySequence
<1> QED BY <1>3 DEF G

\* Two filters agree on a sequence if they agree on its elements.
LEMMA OnlySame ==
  ASSUME NEW S, NEW s \in Seq(S), NEW T, NEW U, Range(s) \cap T = Range(s) \cap U
  PROVE  only(s, T) = only(s, U)
<1> DEFINE G == {t \in Seq(S) : Range(t) \cap T = Range(t) \cap U => only(t, T) = only(t, U)}
<1>1. <<>> \in G
  BY OnlyEmpty
<1>2. ASSUME NEW t \in Seq(S), NEW x \in S, t \in G PROVE Append(t, x) \in G
  <2> SUFFICES ASSUME Range(Append(t, x)) \cap T = Range(Append(t, x)) \cap U
        PROVE only(Append(t, x), T) = only(Append(t, x), U)
    OBVIOUS
  <2>1. Range(Append(t, x)) = Range(t) \cup {x}
    BY RangeOfAppend
  <2>2. Range(t) \cap T = Range(t) \cap U /\ (x \in T <=> x \in U)
    BY <2>1
  <2>3. only(t, T) = only(t, U)
    BY <1>2, <2>2
  <2>4. /\ only(Append(t, x), T) = IF x \in T THEN Append(only(t, T), x) ELSE only(t, T)
        /\ only(Append(t, x), U) = IF x \in U THEN Append(only(t, U), x) ELSE only(t, U)
    BY OnlyAppend
  <2> QED BY <2>2, <2>3, <2>4
<1> HIDE DEF G
<1>3. s \in G
  BY <1>1, <1>2, EverySequence
<1> QED BY <1>3 DEF G

\* A filter that everything passes leaves the sequence.
LEMMA OnlyAll ==
  ASSUME NEW S, NEW s \in Seq(S), NEW T, Range(s) \subseteq T
  PROVE  only(s, T) = s
<1> DEFINE G == {t \in Seq(S) : Range(t) \subseteq T => only(t, T) = t}
<1>1. <<>> \in G
  BY OnlyEmpty
<1>2. ASSUME NEW t \in Seq(S), NEW x \in S, t \in G PROVE Append(t, x) \in G
  <2> SUFFICES ASSUME Range(Append(t, x)) \subseteq T PROVE only(Append(t, x), T) = Append(t, x)
    OBVIOUS
  <2>1. Range(Append(t, x)) = Range(t) \cup {x}
    BY RangeOfAppend
  <2>2. only(Append(t, x), T) = IF x \in T THEN Append(only(t, T), x) ELSE only(t, T)
    BY OnlyAppend
  <2> QED BY <1>2, <2>1, <2>2
<1> HIDE DEF G
<1>3. s \in G
  BY <1>1, <1>2, EverySequence
<1> QED BY <1>3 DEF G

\* One filter behind another passes what both pass.
LEMMA OnlyTwice ==
  ASSUME NEW S, NEW s \in Seq(S), NEW T, NEW U
  PROVE  only(only(s, T), U) = only(s, T \cap U)
<1> DEFINE G == {t \in Seq(S) : only(only(t, T), U) = only(t, T \cap U)}
<1>1. <<>> \in G
  BY OnlyEmpty
<1>2. ASSUME NEW t \in Seq(S), NEW x \in S, t \in G PROVE Append(t, x) \in G
  <2>1. /\ only(Append(t, x), T) = IF x \in T THEN Append(only(t, T), x) ELSE only(t, T)
        /\ only(Append(t, x), T \cap U)
             = IF x \in T \cap U THEN Append(only(t, T \cap U), x) ELSE only(t, T \cap U)
    BY OnlyAppend
  <2>2. only(t, T) \in Seq(S)
    BY OnlyRange
  <2>3. only(Append(only(t, T), x), U)
          = IF x \in U THEN Append(only(only(t, T), U), x) ELSE only(only(t, T), U)
    BY <2>2, OnlyAppend
  <2>4. only(only(Append(t, x), T), U) = only(Append(t, x), T \cap U)
    <3>1. CASE x \notin T
      BY <1>2, <2>1, <3>1
    <3>2. CASE x \in T
      <4>1. only(only(Append(t, x), T), U) = only(Append(only(t, T), x), U)
        BY <2>1, <3>2
      <4>2. only(only(t, T), U) = only(t, T \cap U)
        BY <1>2
      <4> QED BY <2>1, <2>3, <3>2, <4>1, <4>2
    <3> QED BY <3>1, <3>2
  <2> QED BY <2>4
<1> HIDE DEF G
<1>3. s \in G
  BY <1>1, <1>2, EverySequence
<1> QED BY <1>3 DEF G

\* An element behind two sequences, or between them.
LEMMA ConcatAppend ==
  ASSUME NEW S, NEW s \in Seq(S), NEW t \in Seq(S), NEW x \in S
  PROVE  s \o Append(t, x) = Append(s \o t, x)
<1>1. \A o \in Seq(S) : (s \o t) \o o = s \o (t \o o)
  BY ConcatAssociative
<1>2. \A u \in Seq(S) : Append(u, x) = u \o <<x>>
  BY AppendIsConcat
<1>3. <<x>> \in Seq(S) /\ s \o t \in Seq(S)
  BY ConcatProperties
<1>4. (s \o t) \o <<x>> = s \o (t \o <<x>>)
  BY <1>1, <1>3
<1> QED BY <1>2, <1>3, <1>4

LEMMA ConcatBetween ==
  ASSUME NEW S, NEW s \in Seq(S), NEW t \in Seq(S), NEW x \in S
  PROVE  s \o (<<x>> \o t) = Append(s, x) \o t
<1>1. \A o \in Seq(S) : (s \o o) \o t = s \o (o \o t)
  BY ConcatAssociative
<1>2. Append(s, x) = s \o <<x>>
  BY AppendIsConcat
<1>3. <<x>> \in Seq(S)
  OBVIOUS
<1> QED BY <1>1, <1>2, <1>3

\* A filter goes through two sequences one after the other.
LEMMA OnlyConcat ==
  ASSUME NEW S, NEW s \in Seq(S), NEW t \in Seq(S), NEW T
  PROVE  only(s \o t, T) = only(s, T) \o only(t, T)
<1> DEFINE G == {u \in Seq(S) : only(s \o u, T) = only(s, T) \o only(u, T)}
<1>0. only(s, T) \in Seq(S)
  BY OnlyRange
<1>1. <<>> \in G
  <2>1. s \o <<>> = s /\ only(s, T) \o <<>> = only(s, T)
    BY <1>0, ConcatEmptySeq
  <2>2. only(s \o <<>>, T) = only(s, T) \o only(<<>>, T)
    BY <2>1, OnlyEmpty, Zenon
  <2> QED BY <2>2
<1>2. ASSUME NEW u \in Seq(S), NEW x \in S, u \in G PROVE Append(u, x) \in G
  <2>1. s \o Append(u, x) = Append(s \o u, x) /\ s \o u \in Seq(S) /\ only(u, T) \in Seq(S)
    BY OnlyRange, ConcatAppend, ConcatProperties
  <2>2. only(s, T) \o Append(only(u, T), x) = Append(only(s, T) \o only(u, T), x)
    BY <2>1, <1>0, ConcatAppend
  <2>3. only(Append(u, x), T) = IF x \in T THEN Append(only(u, T), x) ELSE only(u, T)
    BY OnlyAppend
  <2>4. only(Append(s \o u, x), T) = IF x \in T THEN Append(only(s \o u, T), x) ELSE only(s \o u, T)
    BY <2>1, OnlyAppend
  <2>5. only(s \o Append(u, x), T) = only(s, T) \o only(Append(u, x), T)
    <3>0. only(s \o u, T) = only(s, T) \o only(u, T)
      BY <1>2
    <3>1. CASE x \notin T
      BY <2>1, <2>3, <2>4, <3>0, <3>1
    <3>2. CASE x \in T
      <4>1. only(Append(u, x), T) = Append(only(u, T), x)
        BY <2>3, <3>2
      <4>2. only(s \o Append(u, x), T) = Append(only(s, T) \o only(u, T), x)
        BY <2>1, <2>4, <3>0, <3>2
      <4> QED BY <2>2, <4>1, <4>2
    <3> QED BY <3>1, <3>2
  <2> QED BY <2>5
<1> HIDE DEF G
<1>3. t \in G
  BY <1>1, <1>2, EverySequence
<1> QED BY <1>3 DEF G

LEMMA OnlyOne ==
  ASSUME NEW S, NEW s \in Seq(S), NEW x \in S, NEW T
  PROVE  only(<<x>> \o s, T) = IF x \in T THEN <<x>> \o only(s, T) ELSE only(s, T)
<1>1. <<x>> \in Seq(S) /\ <<x>> = Append(<<>>, x) /\ <<>> \in Seq(S)
  OBVIOUS
<1>2. \A o \in Seq(S) : only(o \o s, T) = only(o, T) \o only(s, T)
  BY OnlyConcat
<1>6. \A e \in Seq(S) : only(Append(e, x), T) = IF x \in T THEN Append(only(e, T), x) ELSE only(e, T)
  BY OnlyAppend
<1>3. only(<<x>>, T) = IF x \in T THEN Append(<<>>, x) ELSE <<>>
  BY <1>1, <1>6, OnlyEmpty
<1>4. only(s, T) \in Seq(S)
  BY OnlyRange
<1>5. <<>> \o only(s, T) = only(s, T)
  BY <1>4, ConcatEmptySeq
<1>7. only(<<x>> \o s, T) = only(<<x>>, T) \o only(s, T)
  BY <1>1, <1>2
<1> QED BY <1>1, <1>7, <1>3, <1>5

-----------------------------------------------------------------------------
(***************************************************************************)
(* Settings.                                                               *)
(***************************************************************************)
Maybe == ProviderIds \cup {Unset}
FreshKeys == [migrated |-> FALSE, seeded |-> FALSE, providers |-> <<>>, personas |-> <<>>,
              active |-> Unset, model |-> Unset, persona |-> Unset]
Keys == [migrated : BOOLEAN, seeded : BOOLEAN, providers : Seq(ProviderIds),
         personas : Seq(PersonaIds), active : Maybe, model : Maybe,
         persona : PersonaIds \cup {Unset}]

SettingsTypeOK ==
  /\ earlier \in [connection : BOOLEAN, model : BOOLEAN]
  /\ refuses \in BOOLEAN /\ mixed \in BOOLEAN /\ gone \in BOOLEAN
  /\ keys \in Keys
  /\ binding \in [PersonaIds -> Maybe]
  /\ enabled \in [PersonaIds -> BOOLEAN]
  /\ panel \in [open : BOOLEAN, input : Maybe, editing : Maybe]
  /\ asked \in Maybe

\* Nothing is listed before the key is there, and nothing is there in a browser
\* that refuses to write.
KeysFit(k) == k.migrated \/ k.providers = <<>>
NothingRefused == refuses => keys = FreshKeys

\* The chosen model is one of the active provider, and that one is listed.
ModelFits(k) == k.model = Unset \/ (k.active = k.model /\ k.model \in Range(k.providers))

\* What a persona is bound to is listed.
BoundListed == \A q \in PersonaIds : binding[q] = Unset \/ binding[q] \in Range(keys.providers)

SettingsInv ==
  /\ SettingsTypeOK
  /\ KeysFit(keys) /\ NothingRefused
  /\ ~mixed => ModelFits(keys) /\ BoundListed
  /\ gone => keys.migrated /\ ~refuses /\ Migrated \notin Range(keys.providers)

LEMMA InitSettingsInv == SettingsInit => SettingsInv
<1> SUFFICES ASSUME SettingsInit PROVE SettingsInv
  OBVIOUS
<1>1. keys \in Keys
  BY DEF SettingsInit, Keys, Maybe
<1> QED BY <1>1 DEF SettingsInit, SettingsInv, SettingsTypeOK, KeysFit, NothingRefused, ModelFits,
                    BoundListed, FreshKeys, Maybe, Closed

LEMMA ContainsIsRange ==
  ASSUME NEW S, NEW s \in Seq(S), NEW x
  PROVE  Contains(s, x) <=> x \in Range(s)
<1>1. DOMAIN s = 1..Len(s)
  BY LenProperties
<1> QED BY <1>1 DEF Contains, Range

LEMMA RangeOfOne ==
  ASSUME NEW S, NEW s \in Seq(S), NEW x \in S
  PROVE  <<x>> \o s \in Seq(S) /\ Range(<<x>> \o s) = Range(s) \cup {x}
<1>1. <<x>> \in Seq(S) /\ Range(<<x>>) = {x}
  BY DEF Range
<1>2. \A o \in Seq(S) : o \o s \in Seq(S) /\ Range(o \o s) = Range(o) \cup Range(s)
  BY RangeConcatenation
<1> QED BY <1>1, <1>2

\* What a read leaves behind: the migration adds a provider only to a browser
\* whose key was absent.
LEMMA MigratedFits ==
  ASSUME SettingsInv, ~refuses
  PROVE  /\ migrated \in Keys /\ KeysFit(migrated)
         /\ ~mixed => ModelFits(migrated)
         /\ Range(keys.providers) \subseteq Range(migrated.providers)
         /\ keys.migrated => /\ migrated.migrated /\ migrated.providers = keys.providers
                             /\ migrated.active = keys.active /\ migrated.model = keys.model
<1> USE SettingsAssumption
<1> DEFINE c == withConnection(keys)
<1>1. keys \in Keys /\ KeysFit(keys) /\ (~mixed => ModelFits(keys)) /\ earlier.connection \in BOOLEAN
  BY DEF SettingsInv, SettingsTypeOK
<1>2. /\ c \in Keys /\ KeysFit(c) /\ (~mixed => ModelFits(c))
      /\ Range(keys.providers) \subseteq Range(c.providers)
      /\ keys.migrated => c = keys
  <2>1. CASE keys.migrated \/ ~earlier.connection
    BY <1>1, <2>1 DEF withConnection, unmigrated
  <2>2. CASE ~keys.migrated /\ earlier.connection
    <3>1. c = [keys EXCEPT !.migrated = TRUE, !.providers = <<Migrated>>, !.active = Migrated,
                           !.model = IF earlier.model THEN Migrated ELSE keys.model]
      BY <2>2 DEF withConnection, unmigrated
    <3>2. keys.providers = <<>> /\ Range(keys.providers) = {} /\ (~mixed => keys.model = Unset)
      BY <1>1, <2>2 DEF KeysFit, ModelFits, Range
    <3>3. /\ c.migrated = TRUE /\ c.providers = <<Migrated>> /\ c.active = Migrated
          /\ c.model = IF earlier.model THEN Migrated ELSE keys.model
      BY <1>1, <3>1 DEF Keys
    <3>4. c \in Keys
      <4>1. <<Migrated>> \in Seq(ProviderIds) /\ Migrated \in Maybe
        BY DEF Maybe
      <4>2. (IF earlier.model THEN Migrated ELSE keys.model) \in Maybe
        BY <1>1, <4>1 DEF Keys
      <4> QED BY <1>1, <3>1, <4>1, <4>2 DEF Keys
    <3>5. Migrated \in Range(c.providers)
      BY <3>3 DEF Range
    <3> QED BY <3>2, <3>3, <3>4, <3>5, <2>2 DEF KeysFit, ModelFits
  <2> QED BY <2>1, <2>2, <1>1
<1>3. Head(BuiltIn) \in PersonaIds /\ BuiltIn \in Seq(PersonaIds)
  OBVIOUS
<1>4. /\ migrated \in Keys
      /\ \A f \in {"migrated", "providers", "active", "model"} : migrated[f] = c[f]
  <2> HIDE DEF c
  <2>1. migrated = withPersonas(c)
    BY DEF migrated, c
  <2> QED BY <1>2, <1>3, <2>1 DEF withPersonas, Keys
<1> HIDE DEF c
<1>5. /\ migrated.migrated = c.migrated /\ migrated.providers = c.providers
      /\ migrated.active = c.active /\ migrated.model = c.model
  BY <1>4
<1> QED BY <1>2, <1>4, <1>5 DEF KeysFit, ModelFits

\* A write is refused as a whole, and changes nothing.
LEMMA StoresEffect ==
  ASSUME SettingsInv, NEW k \in Keys, Stores(k)
  PROVE  keys' = IF refuses THEN keys ELSE k
<1>1. CASE refuses
  <2>1. keys = FreshKeys
    BY <1>1 DEF SettingsInv, NothingRefused
  <2>2. keys.active = Unset /\ keys.model = Unset /\ keys.persona = Unset
    BY <2>1 DEF FreshKeys
  <2>3. keys' = [keys EXCEPT !.active = Unset, !.model = Unset, !.persona = Unset]
    BY <1>1, <2>2 DEF Stores
  <2>4. keys \in Keys
    BY DEF SettingsInv, SettingsTypeOK
  <2>5. keys' = keys
    BY <2>2, <2>3, <2>4 DEF Keys
  <2> QED BY <1>1, <2>5
<1> QED BY <1>1 DEF Stores

\* The provider that requests go to is a listed one.
LEMMA GlobalIsListed ==
  ASSUME NEW k \in Keys, k.providers # <<>>
  PROVE  globalProvider(k) \in Range(k.providers) /\ globalProvider(k) \in ProviderIds
<1>1. k.providers \in Seq(ProviderIds) /\ k.providers[1] \in Range(k.providers)
  BY DEF Keys, Range
<1>2. Range(k.providers) \subseteq ProviderIds
  BY <1>1, RangeOfSeq
<1>3. findIn(k.providers, k.active) = Unset \/ findIn(k.providers, k.active) \in Range(k.providers)
  BY <1>1, ContainsIsRange DEF findIn
<1> QED BY <1>1, <1>2, <1>3 DEF globalProvider, readProviders, orElse

LEMMA MigratedTyped ==
  ASSUME SettingsInv
  PROVE  migrated \in Keys
<1>1. CASE refuses
  BY <1>1 DEF migrated, SettingsInv, SettingsTypeOK
<1> QED BY <1>1, MigratedFits

LEMMA ShownTyped ==
  ASSUME NEW k \in Keys
  PROVE  shownModel(k) \in Maybe
BY GlobalIsListed DEF shownModel, Keys, Maybe

LEMMA FollowsTyped ==
  ASSUME SettingsInv, keys' \in Keys, Follows
  PROVE  panel' \in [open : BOOLEAN, input : Maybe, editing : Maybe]
<1>1. panel \in [open : BOOLEAN, input : Maybe, editing : Maybe]
  BY DEF SettingsInv, SettingsTypeOK
<1>2. shownModel(keys') \in Maybe
  BY ShownTyped
<1> QED BY <1>1, <1>2 DEF Follows

\* What the stored keys must be for the invariant, whatever the rest does.
KeysSound == /\ keys \in Keys /\ KeysFit(keys) /\ NothingRefused
             /\ ~mixed => ModelFits(keys) /\ BoundListed
             /\ gone => keys.migrated /\ ~refuses /\ Migrated \notin Range(keys.providers)

LEMMA WriteKeeps ==
  ASSUME SettingsInv, NEW k \in Keys, Stores(k), UNCHANGED <<refuses, gone, binding>>, mixed => mixed',
         ~refuses => /\ KeysFit(k)
                     /\ ~mixed' => ModelFits(k)
                     /\ Range(keys.providers) \subseteq Range(k.providers)
                     /\ gone => k.migrated /\ Migrated \notin Range(k.providers)
  PROVE  KeysSound'
<1>1. CASE refuses
  <2>1. keys' = keys
    BY <1>1, StoresEffect
  <2> QED BY <1>1, <2>1 DEF KeysSound, SettingsInv, SettingsTypeOK, KeysFit, NothingRefused, ModelFits, BoundListed
<1>2. CASE ~refuses
  <2>1. keys' = k
    BY <1>2, StoresEffect
  <2>2. ~mixed' => BoundListed'
    BY <1>2, <2>1 DEF SettingsInv, BoundListed
  <2> QED BY <1>2, <2>1, <2>2 DEF KeysSound, SettingsInv, SettingsTypeOK, KeysFit, NothingRefused, ModelFits
<1> QED BY <1>1, <1>2

\* The operations of the model and of the chosen persona, with what may be
\* stored by them: no provider more or less than a read leaves.
LEMMA KeepsProviders ==
  ASSUME SettingsInv, NEW k \in Keys, Stores(k), UNCHANGED <<refuses, gone, binding>>, mixed => mixed',
         k.migrated = migrated.migrated, k.providers = migrated.providers,
         ~refuses /\ ~mixed' => ModelFits(k)
  PROVE  KeysSound'
<1>1. ASSUME ~refuses
      PROVE  /\ KeysFit(k)
             /\ Range(keys.providers) \subseteq Range(k.providers)
             /\ gone => k.migrated /\ Migrated \notin Range(k.providers)
  BY <1>1, MigratedFits DEF SettingsInv, KeysFit
<1> QED BY <1>1, WriteKeeps

LEMMA OpenPanelKeeps == SettingsInv /\ OpenPanel => SettingsInv'
<1> SUFFICES ASSUME SettingsInv, OpenPanel PROVE SettingsInv'
  OBVIOUS
<1>1. migrated \in Keys /\ Stores(migrated) /\ UNCHANGED <<earlier, refuses, gone, binding, enabled, asked, mixed>>
  BY MigratedTyped DEF OpenPanel, Rest
<1>2. KeysSound'
  BY <1>1, MigratedFits, KeepsProviders
<1>3. panel' \in [open : BOOLEAN, input : Maybe, editing : Maybe]
  BY <1>2, ShownTyped DEF OpenPanel, KeysSound, Maybe
<1> QED BY <1>1, <1>2, <1>3 DEF SettingsInv, SettingsTypeOK, KeysSound

LEMMA QuietSettingsKeep ==
  SettingsInv /\ (ClosePanel \/ (\E p \in ProviderIds : StartEdit(p)) \/ FetchModels \/ ModelsNotListed
                    \/ UNCHANGED settingsVars)
    => SettingsInv'
<1> SUFFICES ASSUME SettingsInv PROVE
       (ClosePanel \/ (\E p \in ProviderIds : StartEdit(p)) \/ FetchModels \/ ModelsNotListed
                    \/ UNCHANGED settingsVars) => SettingsInv'
  OBVIOUS
<1> USE DEF SettingsInv, SettingsTypeOK, KeysFit, NothingRefused, ModelFits, BoundListed, Rest, Maybe
<1>1. ClosePanel => SettingsInv'
  BY DEF ClosePanel, Closed
<1>2. ASSUME NEW p \in ProviderIds, StartEdit(p) PROVE SettingsInv'
  BY <1>2 DEF StartEdit
<1>3. FetchModels => SettingsInv'
  BY GlobalIsListed DEF FetchModels
<1>4. ModelsNotListed => SettingsInv'
  BY DEF ModelsNotListed
<1>5. UNCHANGED settingsVars => SettingsInv'
  BY DEF settingsVars
<1> QED BY <1>1, <1>2, <1>3, <1>4, <1>5

LEMMA AddProviderKeeps ==
  ASSUME SettingsInv, NEW p \in ProviderIds, AddProvider(p)
  PROVE  SettingsInv'
<1> DEFINE k == [savedProvider(migrated, p) EXCEPT !.active = p]
<1>1. /\ Stores(k) /\ Follows /\ p # Migrated /\ mixed' = (mixed \/ keys'.model \notin {p, Unset})
      /\ UNCHANGED <<earlier, refuses, gone, binding, enabled, asked>>
  BY DEF AddProvider, Rest
<1>2. migrated \in Keys /\ migrated.providers \in Seq(ProviderIds)
  BY MigratedTyped DEF Keys
<1>3. /\ <<p>> \o migrated.providers \in Seq(ProviderIds)
      /\ Range(<<p>> \o migrated.providers) = Range(migrated.providers) \cup {p}
  BY <1>2, RangeOfOne
<1>4. Contains(migrated.providers, p) <=> p \in Range(migrated.providers)
  BY <1>2, ContainsIsRange
<1>5. /\ k \in Keys /\ k.migrated = TRUE /\ k.active = p /\ k.model = migrated.model
      /\ Range(k.providers) = Range(migrated.providers) \cup {p}
  <2>1. savedProvider(migrated, p).active \in Maybe
    BY <1>2 DEF savedProvider, orElse, Keys, Maybe
  <2> QED BY <1>2, <1>3, <1>4, <2>1 DEF savedProvider, Keys, Maybe
<1> HIDE DEF k
<1>6. ASSUME ~refuses
      PROVE  /\ KeysFit(k)
             /\ ~mixed' => ModelFits(k)
             /\ Range(keys.providers) \subseteq Range(k.providers)
             /\ gone => k.migrated /\ Migrated \notin Range(k.providers)
  <2>1. keys' = k
    BY <1>1, <1>5, <1>6, StoresEffect
  <2>2. ~mixed' => ModelFits(k)
    BY <1>1, <1>5, <2>1 DEF ModelFits
  <2>3. gone => Migrated \notin Range(migrated.providers)
    BY <1>6, MigratedFits DEF SettingsInv
  <2> QED BY <1>1, <1>5, <1>6, <2>2, <2>3, MigratedFits DEF KeysFit
<1>7. mixed => mixed'
  BY <1>1
<1>8. KeysSound'
  BY <1>1, <1>5, <1>6, <1>7, WriteKeeps
<1>9. panel' \in [open : BOOLEAN, input : Maybe, editing : Maybe]
  BY <1>1, <1>8, FollowsTyped DEF KeysSound
<1>10. mixed' \in BOOLEAN
  BY <1>1
<1> QED BY <1>1, <1>8, <1>9, <1>10 DEF SettingsInv, SettingsTypeOK, KeysSound

\* What is listed was written, in a browser that does not refuse to.
LEMMA ListedIsWritten ==
  ASSUME SettingsInv, keys.providers # <<>>
  PROVE  /\ ~refuses /\ keys.migrated
         /\ migrated.migrated = keys.migrated /\ migrated.providers = keys.providers
         /\ migrated.active = keys.active /\ migrated.model = keys.model
         /\ migrated \in Keys /\ keys \in Keys /\ keys.providers \in Seq(ProviderIds)
<1>1. ~refuses /\ keys.migrated
  BY DEF SettingsInv, NothingRefused, FreshKeys, KeysFit
<1>2. keys \in Keys /\ keys.providers \in Seq(ProviderIds) /\ keys.migrated \in BOOLEAN
  BY DEF SettingsInv, SettingsTypeOK, Keys
<1>3. migrated \in Keys /\ migrated.migrated \in BOOLEAN
  BY MigratedTyped DEF Keys
<1> QED BY <1>1, <1>2, <1>3, MigratedFits

LEMMA ContainsIsListed ==
  ASSUME SettingsInv, NEW p, Contains(keys.providers, p)
  PROVE  keys.providers # <<>> /\ p \in Range(keys.providers) /\ p \in ProviderIds
<1>1. keys.providers \in Seq(ProviderIds)
  BY DEF SettingsInv, SettingsTypeOK, Keys
<1>2. p \in Range(keys.providers) /\ Range(keys.providers) \subseteq ProviderIds
  BY <1>1, ContainsIsRange, RangeOfSeq
<1>3. keys.providers # <<>>
  BY <1>2 DEF Range
<1> QED BY <1>2, <1>3

LEMMA SubmitEditKeeps == SettingsInv /\ SubmitEdit => SettingsInv'
<1> SUFFICES ASSUME SettingsInv, SubmitEdit PROVE SettingsInv'
  OBVIOUS
<1> DEFINE p == panel.editing
           k == savedProvider(migrated, p)
<1>1. /\ UNCHANGED <<earlier, refuses, gone, binding, enabled, asked, mixed>>
      /\ panel \in [open : BOOLEAN, input : Maybe, editing : Maybe]
  BY DEF SubmitEdit, Rest, SettingsInv, SettingsTypeOK
<1>2. KeysSound'
  <2>1. CASE ~toUpdate(p)
    <3>1. keys' = keys
      BY <2>1 DEF SubmitEdit
    <3> QED BY <1>1, <3>1 DEF KeysSound, SettingsInv, SettingsTypeOK, KeysFit, NothingRefused,
                              ModelFits, BoundListed
  <2>2. CASE toUpdate(p)
    <3>1. Contains(keys.providers, p) /\ Stores(k)
      BY <2>2 DEF SubmitEdit, toUpdate
    <3>2. keys.providers # <<>> /\ p \in Range(keys.providers) /\ p \in ProviderIds
      BY <3>1, ContainsIsListed
    <3>3. /\ ~refuses /\ keys.migrated
          /\ migrated.migrated = keys.migrated /\ migrated.providers = keys.providers
          /\ migrated.active = keys.active /\ migrated.model = keys.model
          /\ migrated \in Keys
      BY <3>2, ListedIsWritten
    <3>4. /\ k \in Keys /\ k.migrated = TRUE /\ k.providers = migrated.providers
          /\ k.model = migrated.model /\ (migrated.active # Unset => k.active = migrated.active)
      BY <3>1, <3>2, <3>3 DEF savedProvider, orElse, Keys, Maybe
    <3> HIDE DEF k
    <3>5. k.migrated = migrated.migrated
      BY <3>3, <3>4, <1>1 DEF Keys
    <3>6. ~mixed => ModelFits(k)
      BY <3>3, <3>4, MigratedFits DEF ModelFits
    <3> QED BY <1>1, <3>1, <3>4, <3>5, <3>6, KeepsProviders
  <2> QED BY <2>1, <2>2
<1>3. shownModel(keys') \in Maybe
  BY <1>2, ShownTyped DEF KeysSound
<1>4. panel' \in [open : BOOLEAN, input : Maybe, editing : Maybe]
  BY <1>1, <1>3 DEF SubmitEdit, Maybe
<1> QED BY <1>1, <1>2, <1>4 DEF SettingsInv, SettingsTypeOK, KeysSound

LEMMA RemoveProviderKeeps ==
  ASSUME SettingsInv, NEW p \in ProviderIds, RemoveProvider(p)
  PROVE  SettingsInv'
<1> DEFINE k == deleted(migrated, p)
           rest == only(keys.providers, ProviderIds \ {p})
<1>1. /\ Stores(k) /\ Follows /\ Contains(keys.providers, p)
      /\ mixed' = (mixed \/ \E q \in PersonaIds : binding[q] = p)
      /\ gone' = (gone \/ (p = Migrated /\ ~refuses))
      /\ UNCHANGED <<earlier, refuses, binding, enabled, asked>>
  BY DEF RemoveProvider, Rest
<1>2. /\ ~refuses /\ keys.migrated
      /\ migrated.migrated = keys.migrated /\ migrated.providers = keys.providers
      /\ migrated.active = keys.active /\ migrated.model = keys.model
      /\ migrated \in Keys /\ keys \in Keys /\ keys.providers \in Seq(ProviderIds)
  BY <1>1, ContainsIsListed, ListedIsWritten
<1>3. rest \in Seq(ProviderIds) /\ Range(rest) = Range(keys.providers) \cap (ProviderIds \ {p})
  BY <1>2, OnlyRange
<1>4. Range(keys.providers) \subseteq ProviderIds
  BY <1>2, RangeOfSeq
<1> HIDE DEF rest
<1>5. /\ k \in Keys /\ k.migrated = TRUE /\ k.providers = rest
      /\ k.active = IF keys.active = p THEN Unset ELSE keys.active
      /\ k.model = IF keys.active = p THEN Unset ELSE keys.model
  BY <1>2, <1>3 DEF deleted, Keys, Maybe, rest
<1> HIDE DEF k
<1>6. keys' = k
  BY <1>1, <1>2, <1>5, StoresEffect
<1>7. ~mixed' => ModelFits(keys') /\ BoundListed'
  <2> SUFFICES ASSUME ~mixed' PROVE ModelFits(keys') /\ BoundListed'
    OBVIOUS
  <2>1. ~mixed /\ ModelFits(keys) /\ BoundListed /\ \A q \in PersonaIds : binding[q] # p
    BY <1>1 DEF SettingsInv
  <2>2. Range(keys'.providers) = Range(keys.providers) \ {p}
    BY <1>3, <1>4, <1>5, <1>6
  <2>3. ModelFits(keys')
    BY <1>5, <1>6, <2>1, <2>2 DEF ModelFits
  <2>4. BoundListed'
    BY <1>1, <2>1, <2>2 DEF BoundListed
  <2> QED BY <2>3, <2>4
<1>8. gone' => keys'.migrated /\ ~refuses' /\ Migrated \notin Range(keys'.providers)
  BY <1>1, <1>2, <1>3, <1>5, <1>6 DEF SettingsInv
<1>9. KeysFit(keys') /\ NothingRefused' /\ keys' \in Keys
  BY <1>1, <1>2, <1>5, <1>6 DEF KeysFit, NothingRefused
<1>10. panel' \in [open : BOOLEAN, input : Maybe, editing : Maybe]
  BY <1>1, <1>9, FollowsTyped
<1>11. mixed' \in BOOLEAN /\ gone' \in BOOLEAN
  BY <1>1 DEF SettingsInv, SettingsTypeOK
<1> QED BY <1>1, <1>7, <1>8, <1>9, <1>10, <1>11 DEF SettingsInv, SettingsTypeOK

\* selectGlobalModel with a listed provider and a model of it, or with mixed set.
LEMMA SelectedKeeps ==
  ASSUME SettingsInv, NEW p \in ProviderIds, NEW m \in Maybe, Stores(selected(migrated, p, m)),
         UNCHANGED <<refuses, gone, binding>>, mixed => mixed',
         ~mixed' => m = Unset \/ (m = p /\ p \in Range(keys.providers))
  PROVE  KeysSound'
<1> DEFINE k == selected(migrated, p, m)
<1>1. migrated \in Keys
  BY MigratedTyped
<1>2. /\ k \in Keys /\ k.migrated = migrated.migrated /\ k.providers = migrated.providers
      /\ k.active = p /\ k.model = m
  BY <1>1 DEF selected, Keys, Maybe
<1> HIDE DEF k
<1>3. ASSUME ~refuses, ~mixed' PROVE ModelFits(k)
  BY <1>2, <1>3, MigratedFits DEF ModelFits
<1>4. Stores(k)
  BY DEF k
<1> QED BY <1>2, <1>3, <1>4, KeepsProviders

LEMMA ChooseModelKeeps ==
  ASSUME SettingsInv, NEW m \in Maybe, ChooseModel(m)
  PROVE  SettingsInv'
<1>1. keys \in Keys /\ keys.providers # <<>>
  BY DEF ChooseModel, SettingsInv, SettingsTypeOK
<1>2. globalProvider(keys) \in Range(keys.providers) /\ globalProvider(keys) \in ProviderIds
  BY <1>1, GlobalIsListed
<1>3. /\ UNCHANGED <<earlier, refuses, gone, binding, enabled, asked, mixed>>
      /\ m \in {globalProvider(keys), Unset}
      /\ Stores(selected(migrated, globalProvider(keys), m))
  BY DEF ChooseModel, Rest
<1>4. KeysSound'
  BY <1>2, <1>3, SelectedKeeps
<1>5. panel' \in [open : BOOLEAN, input : Maybe, editing : Maybe]
  BY DEF ChooseModel, SettingsInv, SettingsTypeOK
<1> QED BY <1>3, <1>4, <1>5 DEF SettingsInv, SettingsTypeOK, KeysSound

LEMMA ChooseProviderKeeps ==
  ASSUME SettingsInv, NEW p \in ProviderIds, ChooseProvider(p)
  PROVE  SettingsInv'
<1> DEFINE m == orElse(panel.input, p)
<1>1. /\ Stores(selected(migrated, p, m)) /\ mixed' = (mixed \/ m # p) /\ Follows
      /\ UNCHANGED <<earlier, refuses, gone, binding, enabled, asked>>
      /\ p \in Range(keys.providers)
  BY ContainsIsListed DEF ChooseProvider, Rest
<1>2. m \in Maybe
  BY DEF orElse, SettingsInv, SettingsTypeOK, Maybe
<1>3. (mixed => mixed') /\ (~mixed' => m = p) /\ mixed' \in BOOLEAN
  BY <1>1
<1> HIDE DEF m
<1>4. KeysSound'
  BY <1>1, <1>2, <1>3, SelectedKeeps
<1>5. panel' \in [open : BOOLEAN, input : Maybe, editing : Maybe]
  BY <1>1, <1>4, FollowsTyped DEF KeysSound
<1> QED BY <1>1, <1>3, <1>4, <1>5 DEF SettingsInv, SettingsTypeOK, KeysSound

LEMMA ModelsListedKeeps == SettingsInv /\ ModelsListed => SettingsInv'
<1> SUFFICES ASSUME SettingsInv, ModelsListed PROVE SettingsInv'
  OBVIOUS
<1>1. /\ Stores(selected(migrated, asked, asked)) /\ asked \in ProviderIds
      /\ mixed' = (mixed \/ ~Contains(keys.providers, asked))
      /\ UNCHANGED <<earlier, refuses, gone, binding, enabled>> /\ asked' = Unset
  BY DEF ModelsListed, Rest, SettingsInv, SettingsTypeOK, Maybe
<1>2. (mixed => mixed') /\ (~mixed' => asked \in Range(keys.providers)) /\ mixed' \in BOOLEAN
  BY <1>1, ContainsIsListed
<1>3. asked \in Maybe
  BY <1>1 DEF Maybe
<1>4. KeysSound'
  BY <1>1, <1>2, <1>3, SelectedKeeps
<1>5. panel' \in [open : BOOLEAN, input : Maybe, editing : Maybe]
  BY <1>3 DEF ModelsListed, SettingsInv, SettingsTypeOK
<1> QED BY <1>1, <1>2, <1>4, <1>5 DEF SettingsInv, SettingsTypeOK, KeysSound, Maybe

LEMMA SavePersonaKeeps ==
  ASSUME SettingsInv, NEW q \in PersonaIds, NEW b \in Maybe, NEW on \in BOOLEAN, SavePersona(q, b, on)
  PROVE  SettingsInv'
<1> DEFINE k == savedPersona(migrated, q)
<1>1. /\ Stores(k) /\ UNCHANGED <<earlier, refuses, gone, panel, asked, mixed>>
      /\ b = Unset \/ Contains(keys.providers, b)
  BY DEF SavePersona, Rest
<1>2. migrated \in Keys
  BY MigratedTyped
<1>3. k \in Keys /\ k.migrated = migrated.migrated /\ k.providers = migrated.providers
      /\ k.active = migrated.active /\ k.model = migrated.model
  <2>1. Append(migrated.personas, q) \in Seq(PersonaIds)
    BY <1>2 DEF Keys
  <2> QED BY <1>2, <2>1 DEF savedPersona, orElse, Keys
<1> HIDE DEF k
<1>4. keys' = IF refuses THEN keys ELSE k
  BY <1>1, <1>3, StoresEffect
<1>5. CASE refuses
  <2>1. UNCHANGED <<keys, binding, enabled>>
    BY <1>4, <1>5 DEF SavePersona
  <2> QED BY <1>1, <2>1 DEF SettingsInv, SettingsTypeOK, KeysFit, NothingRefused, ModelFits, BoundListed
<1>6. CASE ~refuses
  <2>1. /\ binding' = [binding EXCEPT ![q] = b] /\ enabled' = [enabled EXCEPT ![q] = on]
        /\ keys' = k
    BY <1>4, <1>6 DEF SavePersona
  <2>2. b = Unset \/ b \in Range(keys.providers)
    BY <1>1, ContainsIsListed
  <2>3. Range(keys.providers) \subseteq Range(keys'.providers) /\ KeysFit(keys') /\ (~mixed => ModelFits(keys'))
    BY <1>3, <1>6, <2>1, MigratedFits DEF KeysFit, ModelFits
  <2>4. gone => keys'.migrated /\ Migrated \notin Range(keys'.providers)
    BY <1>3, <1>6, <2>1, MigratedFits DEF SettingsInv
  <2>5. BoundListed => BoundListed'
    BY <2>1, <2>2, <2>3 DEF BoundListed, SettingsInv, SettingsTypeOK
  <2> QED BY <1>1, <1>3, <1>6, <2>1, <2>3, <2>4, <2>5 DEF SettingsInv, SettingsTypeOK, NothingRefused
<1> QED BY <1>5, <1>6

LEMMA PersonasKeep ==
  ASSUME SettingsInv, NEW q \in PersonaIds, RemovePersona(q) \/ SelectPersona(q)
  PROVE  SettingsInv'
<1>1. migrated \in Keys /\ UNCHANGED <<earlier, refuses, gone, binding, enabled, panel, asked, mixed>>
  BY MigratedTyped DEF RemovePersona, SelectPersona, Rest
<1>2. PICK k \in Keys : /\ Stores(k) /\ k.migrated = migrated.migrated /\ k.providers = migrated.providers
                        /\ k.active = migrated.active /\ k.model = migrated.model
  <2>1. CASE RemovePersona(q)
    <3>1. only(migrated.personas, PersonaIds \ {q}) \in Seq(PersonaIds)
      BY <1>1, OnlyRange DEF Keys
    <3> DEFINE k == [migrated EXCEPT !.personas = only(migrated.personas, PersonaIds \ {q}),
                                     !.persona = IF migrated.persona = q THEN Unset ELSE migrated.persona]
    <3>2. Stores(k)
      BY <2>1 DEF RemovePersona
    <3>3. k \in Keys /\ k.migrated = migrated.migrated /\ k.providers = migrated.providers
          /\ k.active = migrated.active /\ k.model = migrated.model
      BY <1>1, <3>1 DEF Keys
    <3> HIDE DEF k
    <3> QED BY <3>2, <3>3
  <2>2. CASE SelectPersona(q)
    <3> DEFINE k == [migrated EXCEPT !.persona = q]
    <3>2. Stores(k)
      BY <2>2 DEF SelectPersona
    <3>3. k \in Keys /\ k.migrated = migrated.migrated /\ k.providers = migrated.providers
          /\ k.active = migrated.active /\ k.model = migrated.model
      BY <1>1 DEF Keys
    <3> HIDE DEF k
    <3> QED BY <3>2, <3>3
  <2> QED BY <2>1, <2>2
<1>3. ~refuses /\ ~mixed' => ModelFits(k)
  BY <1>1, <1>2, MigratedFits DEF ModelFits
<1>4. KeysSound'
  BY <1>1, <1>2, <1>3, KeepsProviders
<1> QED BY <1>1, <1>4 DEF SettingsInv, SettingsTypeOK, KeysSound

LEMMA StepKeepsSettingsInv == SettingsInv /\ [SettingsNext]_settingsVars => SettingsInv'
<1> SUFFICES ASSUME SettingsInv, [SettingsNext]_settingsVars PROVE SettingsInv'
  OBVIOUS
<1>1. ASSUME NEW p \in ProviderIds, AddProvider(p) \/ StartEdit(p) \/ RemoveProvider(p) \/ ChooseProvider(p)
      PROVE  SettingsInv'
  BY <1>1, AddProviderKeeps, RemoveProviderKeeps, ChooseProviderKeeps, QuietSettingsKeep
<1>2. ASSUME NEW m \in ProviderIds \cup {Unset}, ChooseModel(m) PROVE SettingsInv'
  BY <1>2, ChooseModelKeeps DEF Maybe
<1>3. ASSUME NEW q \in PersonaIds, NEW b \in ProviderIds \cup {Unset}, NEW on \in BOOLEAN, SavePersona(q, b, on)
      PROVE  SettingsInv'
  BY <1>3, SavePersonaKeeps DEF Maybe
<1> QED BY <1>1, <1>2, <1>3, OpenPanelKeeps, QuietSettingsKeep, SubmitEditKeeps, ModelsListedKeeps, PersonasKeep
        DEF SettingsNext

\* The persona in use is one of the listed ones.
LEMMA PersonaIsListed ==
  ASSUME NEW k \in Keys, readPersonas(k) # <<>>
  PROVE  personaInUse(k) \in PersonaIds
<1> USE SettingsAssumption
<1> DEFINE s == readPersonas(k)
           on == only(s, {p \in PersonaIds : enabled[p]})
<1>1. s \in Seq(PersonaIds)
  BY DEF readPersonas, Keys
<1>2. Range(s) \subseteq PersonaIds /\ on \in Seq(PersonaIds)
  BY <1>1, RangeOfSeq, OnlyRange
<1>3. s[1] \in PersonaIds
  BY <1>1
<1>4. findIn(s, k.persona) = Unset \/ findIn(s, k.persona) \in PersonaIds
  BY <1>1, <1>2, ContainsIsRange DEF findIn
<1>5. on # <<>> => on[1] \in PersonaIds
  BY <1>2
<1> QED BY <1>3, <1>4, <1>5 DEF personaInUse, orElse

LEMMA SettingsInvIsSound == SettingsInv => SettingsSound
<1> SUFFICES ASSUME SettingsInv PROVE SettingsSound
  OBVIOUS
<1>1. RequestFits
  <2> SUFFICES ASSUME ~mixed, resolved(keys) # Unset PROVE resolved(keys).model = resolved(keys).provider
    BY DEF RequestFits
  <2>1. keys \in Keys /\ readProviders(keys) # <<>> /\ readPersonas(keys) # <<>>
    BY DEF SettingsInv, SettingsTypeOK, resolved
  <2>2. keys.providers \in Seq(ProviderIds) /\ keys.providers # <<>> /\ keys.active \in Maybe
    BY <2>1 DEF readProviders, Keys
  <2> DEFINE x == binding[personaInUse(keys)]
             g == globalProvider(keys)
  <2>3. x = Unset \/ x \in Range(keys.providers)
    BY <2>1, PersonaIsListed DEF SettingsInv, BoundListed
  <2>4. g \in Range(keys.providers) /\ g \in ProviderIds
    BY <2>1, <2>2, GlobalIsListed
  <2>5. keys.model # Unset => g = keys.model
    <3> SUFFICES ASSUME keys.model # Unset PROVE g = keys.model
      OBVIOUS
    <3>1. keys.active = keys.model /\ keys.model \in Range(keys.providers)
      BY DEF SettingsInv, ModelFits
    <3>2. Contains(keys.providers, keys.active)
      BY <2>2, <3>1, ContainsIsRange
    <3> QED BY <3>1, <3>2 DEF globalProvider, readProviders, findIn, orElse
  <2>6. CASE x # Unset
    <3>1. Contains(keys.providers, x)
      BY <2>2, <2>3, <2>6, ContainsIsRange
    <3>2. resolved(keys) = [provider |-> orElse(findIn(keys.providers, x), g), model |-> x]
      BY <2>1, <2>6 DEF resolved, readProviders
    <3> QED BY <3>1, <3>2, <2>6 DEF findIn, orElse
  <2>7. CASE x = Unset
    <3>1. resolved(keys) = [provider |-> g, model |-> globalModel(keys)]
      BY <2>1, <2>7 DEF resolved
    <3> QED BY <3>1, <2>5 DEF globalModel, orElse
  <2> QED BY <2>6, <2>7
<1>2. LegacyStaysGone
  <2> SUFFICES ASSUME gone PROVE ~Contains(readProviders(migrated), Migrated)
    BY DEF LegacyStaysGone
  <2>1. ~refuses /\ keys.migrated /\ Migrated \notin Range(keys.providers)
    BY DEF SettingsInv
  <2>2. migrated.providers = keys.providers /\ migrated.providers \in Seq(ProviderIds)
    BY <2>1, MigratedFits DEF Keys
  <2> QED BY <2>1, <2>2, ContainsIsRange DEF readProviders
<1> QED BY <1>1, <1>2 DEF SettingsSound

\* A request goes to the provider whose model it names, and a deleted provider
\* of an earlier version stays away. (settings.ts, settingsStore.ts)
THEOREM SettingsAreSound == SettingsSpec => []SettingsSound
<1>1. SettingsInit => SettingsInv
  BY InitSettingsInv
<1>2. SettingsInv /\ [SettingsNext]_settingsVars => SettingsInv'
  BY StepKeepsSettingsInv
<1>3. SettingsInv => SettingsSound
  BY SettingsInvIsSound
<1> QED BY <1>1, <1>2, <1>3, PTL DEF SettingsSpec

-----------------------------------------------------------------------------
(***************************************************************************)
(* The workspace store.                                                    *)
(***************************************************************************)
Items == SessionIds \cup ContainerIds
Marks == {"titled", "begun", "unread", "pinned"}

\* A workspace lists items of each kind, and the active one is among them.
Workspaces ==
  {w \in [list : [Kinds -> Seq(Items)], active : [Kinds -> Items \cup {NoItem}],
          titled : SUBSET Items, begun : SUBSET Items, unread : SUBSET Items,
          pinned : SUBSET Items] :
     \A k \in Kinds : w.list[k] \in Seq(IdsOf(k)) /\ w.active[k] \in Range(w.list[k]) \cup {NoItem}}

Entries ==
  {e \in [op : {"save", "delete", "clean"}, kind : Kinds, id : Items \cup {NoItem},
          next : Workspaces] :
     e.op # "save" => e.id \in IdsOf(e.kind)}

\* What the head of the chain is doing.
HeadFits ==
  IF chain = <<>> THEN writing.phase = "idle"
  ELSE IF chain[1].op = "save" THEN writing.phase = "writing"
  ELSE writing.phase \in {"preparing", "writing"}

StoreTypeOK ==
  /\ space \in Workspaces
  /\ hydrated \in BOOLEAN /\ persistenceError \in BOOLEAN
  /\ record \in [state : {"none", "damaged", "valid"}, space : Workspaces]
  /\ chain \in Seq(Entries)
  /\ writing \in [phase : {"idle", "preparing", "writing"}, space : Workspaces]
  /\ reading \in {"none", "waiting", "loading"}
  /\ ahead \in Nat /\ misses \in Nat
  /\ dead \subseteq Items
  /\ HeadFits

\* A reload goes on while the store is not safe, behind the writes that were
\* queued before it.
ReadsAlone ==
  /\ reading = "waiting" => persistenceError
  /\ reading = "loading" => ~hydrated
  /\ "frozen" \notin crossed => /\ reading = "waiting" => Len(chain) = ahead
                                /\ reading = "loading" => chain = <<>>

\* A reload from v shows all of w.
Agree(w, v) ==
  \A k \in Kinds : /\ only(v.list[k], listedIn(w, k)) = w.list[k]
                   /\ \A a \in Marks : v[a] \cap listedIn(w, k) = w[a] \cap listedIn(w, k)

\* The last write of the chain stores the memory, or what the memory becomes
\* with it.
LastStores ==
  LET e == chain[Len(chain)] IN
  IF chain = <<>> THEN record.state = "valid" /\ Agree(space, record.space)
  ELSE IF Len(chain) = 1 /\ writing.phase = "writing"
  THEN Agree(IF e.op = "delete" THEN without(space, e.kind, e.id) ELSE space, writing.space)
  ELSE e.op = "clean" => Agree(space, e.next)

\* Nothing on its way to the record holds what was deleted.
Lists(w, x) == \E k \in Kinds : x \in listedIn(w, k)
NoneOf(w, D) == \A x \in D : ~Lists(w, x)
NoReturn ==
  /\ safe \/ (space = Nothing /\ chain = <<>>)
  /\ NoneOf(record.space, dead) /\ NoneOf(space, dead)
  /\ writing.phase = "writing" =>
       NoneOf(writing.space, dead) /\ (chain[1].op # "save" => ~Lists(writing.space, chain[1].id))
  /\ \A i \in DOMAIN chain : chain[i].op = "clean" =>
       /\ NoneOf(chain[i].next, dead) /\ ~Lists(space, chain[i].id)
       /\ \A j \in 1..i : chain[j].op # "delete"
                          /\ (chain[j].op = "clean" => ~Lists(chain[i].next, chain[j].id))

StoreInv ==
  /\ StoreTypeOK /\ ReadsAlone
  /\ safe /\ "frozen" \notin crossed => LastStores
  /\ "behind" \notin crossed /\ misses = 0 => NoReturn

LEMMA NothingIsWorkspace == Nothing \in Workspaces /\ \A x : ~Lists(Nothing, x)
<1>1. \A k \in Kinds : Nothing.list[k] = <<>> /\ Nothing.active[k] = NoItem
  BY DEF Nothing
<1>2. Range(<<>>) = {}
  BY DEF Range
<1>3. Nothing \in Workspaces
  <2>1. Nothing \in [list : [Kinds -> Seq(Items)], active : [Kinds -> Items \cup {NoItem}],
          titled : SUBSET Items, begun : SUBSET Items, unread : SUBSET Items, pinned : SUBSET Items]
    BY DEF Nothing
  <2> QED BY <1>1, <2>1 DEF Workspaces
<1>4. \A k \in Kinds : Range(Nothing.list[k]) = {}
  BY <1>1, <1>2
<1> QED BY <1>3, <1>4 DEF Lists, listedIn

LEMMA InitStoreInv == StoreInit => StoreInv
<1> SUFFICES ASSUME StoreInit PROVE StoreInv
  OBVIOUS
<1>1. StoreTypeOK
  <2>1. chain \in Seq(Entries)
    BY EmptySeq DEF StoreInit
  <2>2. record \in [state : {"none", "damaged", "valid"}, space : Workspaces]
    <3>1. PICK a \in {"none", "damaged"} : record = [state |-> a, space |-> Nothing]
      BY DEF StoreInit
    <3> QED BY <3>1, NothingIsWorkspace
  <2>3. writing \in [phase : {"idle", "preparing", "writing"}, space : Workspaces]
    BY NothingIsWorkspace DEF StoreInit, Idle
  <2> QED BY <2>1, <2>2, <2>3, NothingIsWorkspace DEF StoreInit, StoreTypeOK, HeadFits, Idle
<1> QED BY <1>1, NothingIsWorkspace DEF StoreInit, StoreInv, ReadsAlone, safe, NoReturn, NoneOf, Idle

-----------------------------------------------------------------------------
(* Workspaces. *)

LEMMA ListsAreTyped ==
  ASSUME NEW w \in Workspaces, NEW k \in Kinds
  PROVE  /\ w.list[k] \in Seq(IdsOf(k)) /\ Range(w.list[k]) \subseteq IdsOf(k) /\ IdsOf(k) \subseteq Items
         /\ w.active[k] \in Range(w.list[k]) \cup {NoItem}
         /\ \A a \in Marks : w[a] \subseteq Items
<1>1. w.list[k] \in Seq(IdsOf(k)) /\ w.active[k] \in Range(w.list[k]) \cup {NoItem}
  BY DEF Workspaces
<1>2. IdsOf(k) \subseteq Items
  BY DEF IdsOf, Items, Kinds
<1>3. \A a \in Marks : w[a] \subseteq Items
  BY DEF Workspaces, Marks
<1> QED BY <1>1, <1>2, <1>3, RangeOfSeq

LEMMA AgreeSelf ==
  ASSUME NEW w \in Workspaces
  PROVE  Agree(w, w)
<1> SUFFICES ASSUME NEW k \in Kinds PROVE only(w.list[k], Range(w.list[k])) = w.list[k]
  BY DEF Agree, listedIn
<1> QED BY ListsAreTyped, OnlyAll

\* Whatever lists and marks the same agrees with the same.
LEMMA AgreeSame ==
  ASSUME NEW w, NEW u, NEW v, Agree(w, v), \A k \in Kinds : u.list[k] = w.list[k],
         \A a \in Marks : u[a] = w[a]
  PROVE  Agree(u, v)
BY DEF Agree, listedIn

\* What stays when x leaves its list.
Staying(k, x) == IdsOf(k) \ {x}

LEMMA WithoutEffect ==
  ASSUME NEW w \in Workspaces, NEW k \in Kinds, NEW x \in IdsOf(k)
  PROVE  /\ without(w, k, x) \in Workspaces
         /\ \A l \in Kinds : without(w, k, x).list[l]
                               = IF l = k THEN only(w.list[k], Staying(k, x)) ELSE w.list[l]
         /\ \A l \in Kinds : listedIn(without(w, k, x), l) = listedIn(w, l) \ {x}
         /\ \A a \in Marks : without(w, k, x)[a] = w[a]
<1> DEFINE rest == only(w.list[k], IdsOf(k) \ {x})
           act == IF w.active[k] # x THEN w.active[k] ELSE IF rest = <<>> THEN NoItem ELSE Head(rest)
           u == without(w, k, x)
<1>1. rest \in Seq(IdsOf(k)) /\ Range(rest) = Range(w.list[k]) \ {x}
  <2>1. w.list[k] \in Seq(IdsOf(k)) /\ Range(w.list[k]) \subseteq IdsOf(k)
    BY ListsAreTyped
  <2> QED BY <2>1, OnlyRange
<1> HIDE DEF rest
<1>2. act \in Range(rest) \cup {NoItem}
  <2>1. rest # <<>> => Head(rest) \in Range(rest)
    <3> SUFFICES ASSUME rest # <<>> PROVE Head(rest) \in Range(rest)
      OBVIOUS
    <3>1. 1 \in DOMAIN rest /\ Head(rest) = rest[1]
      BY <1>1
    <3> QED BY <3>1 DEF Range
  <2>2. w.active[k] # x => w.active[k] \in Range(rest) \cup {NoItem}
    BY <1>1, ListsAreTyped
  <2> QED BY <2>1, <2>2
<1> HIDE DEF act
<1>3. u = [w EXCEPT !.list[k] = rest, !.active[k] = act]
  BY DEF without, rest, act
<1>4. w \in [list : [Kinds -> Seq(Items)], active : [Kinds -> Items \cup {NoItem}],
          titled : SUBSET Items, begun : SUBSET Items, unread : SUBSET Items, pinned : SUBSET Items]
  BY DEF Workspaces
<1>5. /\ u.list = [w.list EXCEPT ![k] = rest] /\ u.active = [w.active EXCEPT ![k] = act]
      /\ u.titled = w.titled /\ u.begun = w.begun /\ u.unread = w.unread /\ u.pinned = w.pinned
  BY <1>3, <1>4
<1>6. /\ \A l \in Kinds : u.list[l] = IF l = k THEN rest ELSE w.list[l]
      /\ \A l \in Kinds : u.active[l] = IF l = k THEN act ELSE w.active[l]
  BY <1>4, <1>5
<1>7. u \in Workspaces
  <2>1. rest \in Seq(Items) /\ act \in Items \cup {NoItem}
    <3>1. IdsOf(k) \subseteq Items /\ Range(rest) \subseteq IdsOf(k)
      BY <1>1, ListsAreTyped
    <3> QED BY <1>1, <1>2, <3>1
  <2>2. u \in [list : [Kinds -> Seq(Items)], active : [Kinds -> Items \cup {NoItem}],
          titled : SUBSET Items, begun : SUBSET Items, unread : SUBSET Items, pinned : SUBSET Items]
    <3>1. /\ u.list \in [Kinds -> Seq(Items)] /\ u.active \in [Kinds -> Items \cup {NoItem}]
          /\ u.titled \in SUBSET Items /\ u.begun \in SUBSET Items
          /\ u.unread \in SUBSET Items /\ u.pinned \in SUBSET Items
      BY <1>4, <1>5, <2>1
    <3>2. u = [list |-> u.list, active |-> u.active, titled |-> u.titled, begun |-> u.begun,
               unread |-> u.unread, pinned |-> u.pinned]
      BY <1>3, <1>4
    <3> HIDE DEF u
    <3> QED BY <3>1, <3>2
  <2>3. \A l \in Kinds : u.list[l] \in Seq(IdsOf(l)) /\ u.active[l] \in Range(u.list[l]) \cup {NoItem}
    BY <1>1, <1>2, <1>6, ListsAreTyped
  <2> QED BY <2>2, <2>3 DEF Workspaces
<1>8. ASSUME NEW l \in Kinds PROVE listedIn(u, l) = listedIn(w, l) \ {x}
  <2>1. CASE l = k
    BY <1>1, <1>6, <2>1 DEF listedIn
  <2>2. CASE l # k
    <3>1. x \notin IdsOf(l)
      BY <2>2, StoreAssumption DEF IdsOf, Kinds
    <3>2. Range(w.list[l]) \subseteq IdsOf(l)
      BY ListsAreTyped
    <3> QED BY <1>6, <2>2, <3>1, <3>2 DEF listedIn
  <2> QED BY <2>1, <2>2
<1>9. \A a \in Marks : u[a] = w[a]
  BY <1>5 DEF Marks
<1>10. rest = only(w.list[k], Staying(k, x))
  BY DEF rest, Staying
<1> QED BY <1>6, <1>7, <1>8, <1>9, <1>10

LEMMA AgreeWithout ==
  ASSUME NEW w \in Workspaces, NEW v \in Workspaces, NEW k \in Kinds, NEW x \in IdsOf(k), Agree(w, v)
  PROVE  Agree(without(w, k, x), v)
<1> DEFINE u == without(w, k, x)
<1> SUFFICES ASSUME NEW l \in Kinds
             PROVE  /\ only(v.list[l], listedIn(u, l)) = u.list[l]
                    /\ \A a \in Marks : v[a] \cap listedIn(u, l) = u[a] \cap listedIn(u, l)
  BY DEF Agree
<1>1. /\ u.list[l] = IF l = k THEN only(w.list[k], Staying(k, x)) ELSE w.list[l]
      /\ listedIn(u, l) = listedIn(w, l) \ {x}
      /\ \A a \in Marks : u[a] = w[a]
  BY WithoutEffect
<1> HIDE DEF u
<1>2. /\ only(v.list[l], listedIn(w, l)) = w.list[l] /\ v.list[l] \in Seq(IdsOf(l))
      /\ \A a \in Marks : v[a] \cap listedIn(w, l) = w[a] \cap listedIn(w, l)
      /\ listedIn(w, l) \subseteq IdsOf(l)
  BY ListsAreTyped DEF Agree, listedIn
<1>3. only(v.list[l], listedIn(u, l)) = u.list[l]
  <2>1. CASE l = k
    <3>1. only(only(v.list[l], listedIn(w, l)), Staying(l, x))
            = only(v.list[l], listedIn(w, l) \cap Staying(l, x))
      BY <1>2, OnlyTwice
    <3>2. listedIn(w, l) \cap Staying(l, x) = listedIn(u, l)
      BY <1>1, <1>2 DEF Staying
    <3> QED BY <1>1, <1>2, <2>1, <3>1, <3>2
  <2>2. CASE l # k
    <3>1. x \notin IdsOf(l)
      BY <2>2, StoreAssumption DEF IdsOf, Kinds
    <3>2. listedIn(u, l) = listedIn(w, l)
      BY <1>1, <1>2, <3>1
    <3> QED BY <1>1, <1>2, <2>2, <3>2
  <2> QED BY <2>1, <2>2
<1> QED BY <1>1, <1>2, <1>3

\* A workspace with an item put first, and active.
LEMMA AddedEffect ==
  ASSUME NEW w \in Workspaces, NEW k \in Kinds, NEW x \in IdsOf(k)
  PROVE  /\ added(w, k, x) \in Workspaces
         /\ \A y : Lists(added(w, k, x), y) => y = x \/ Lists(w, y)
<1> DEFINE u == added(w, k, x)
           more == <<x>> \o w.list[k]
<1>0. /\ w.list[k] \in Seq(IdsOf(k)) /\ IdsOf(k) \subseteq Items
      /\ w \in [list : [Kinds -> Seq(Items)], active : [Kinds -> Items \cup {NoItem}],
          titled : SUBSET Items, begun : SUBSET Items, unread : SUBSET Items, pinned : SUBSET Items]
  BY ListsAreTyped DEF Workspaces
<1>1. more \in Seq(IdsOf(k)) /\ Range(more) = {x} \cup Range(w.list[k])
  <2>1. <<x>> \in Seq(IdsOf(k)) /\ Range(<<x>>) = {x}
    BY DEF Range
  <2>2. \A o \in Seq(IdsOf(k)) : o \o w.list[k] \in Seq(IdsOf(k)) /\ Range(o \o w.list[k]) = Range(o) \cup Range(w.list[k])
    BY <1>0, RangeConcatenation
  <2> QED BY <2>1, <2>2
<1>2. more \in Seq(Items)
  BY <1>0, <1>1
<1> HIDE DEF more
<1>3. u = [w EXCEPT !.list[k] = more, !.active[k] = x]
  BY <1>0 DEF added, more
<1>4. /\ u.list = [w.list EXCEPT ![k] = more] /\ u.active = [w.active EXCEPT ![k] = x]
      /\ u.titled = w.titled /\ u.begun = w.begun /\ u.unread = w.unread /\ u.pinned = w.pinned
      /\ u = [list |-> u.list, active |-> u.active, titled |-> u.titled, begun |-> u.begun,
               unread |-> u.unread, pinned |-> u.pinned]
  BY <1>0, <1>3
<1> HIDE DEF u
<1>5. /\ \A l \in Kinds : u.list[l] = IF l = k THEN more ELSE w.list[l]
      /\ \A l \in Kinds : u.active[l] = IF l = k THEN x ELSE w.active[l]
  BY <1>0, <1>4
<1>6. u \in Workspaces
  <2>1. u \in [list : [Kinds -> Seq(Items)], active : [Kinds -> Items \cup {NoItem}],
          titled : SUBSET Items, begun : SUBSET Items, unread : SUBSET Items, pinned : SUBSET Items]
    <3>1. /\ u.list \in [Kinds -> Seq(Items)] /\ u.active \in [Kinds -> Items \cup {NoItem}]
          /\ u.titled \in SUBSET Items /\ u.begun \in SUBSET Items
          /\ u.unread \in SUBSET Items /\ u.pinned \in SUBSET Items
      BY <1>0, <1>2, <1>4
    <3> QED BY <3>1, <1>4
  <2>2. \A l \in Kinds : u.list[l] \in Seq(IdsOf(l)) /\ u.active[l] \in Range(u.list[l]) \cup {NoItem}
    BY <1>1, <1>5, ListsAreTyped
  <2> QED BY <2>1, <2>2 DEF Workspaces
<1>7. \A y : Lists(u, y) => y = x \/ Lists(w, y)
  BY <1>1, <1>5 DEF Lists, listedIn
<1> QED BY <1>6, <1>7 DEF u

\* A workspace whose titles, status, pins or active item change.
LEMMA MarkedEffect ==
  ASSUME NEW w \in Workspaces,
         NEW u \in [list : [Kinds -> Seq(Items)], active : [Kinds -> Items \cup {NoItem}],
          titled : SUBSET Items, begun : SUBSET Items, unread : SUBSET Items, pinned : SUBSET Items],
         u.list = w.list, \A k \in Kinds : u.active[k] \in Range(w.list[k]) \cup {NoItem}
  PROVE  u \in Workspaces /\ \A y : Lists(u, y) <=> Lists(w, y)
BY ListsAreTyped DEF Workspaces, Lists, listedIn

-----------------------------------------------------------------------------
(* The chain of writes. *)

LEMMA BeginsFits ==
  ASSUME NEW queue \in Seq(Entries), NEW w \in Workspaces
  PROVE  /\ begins(queue, w) \in [phase : {"idle", "preparing", "writing"}, space : Workspaces]
         /\ queue = <<>> => begins(queue, w).phase = "idle"
         /\ queue # <<>> => IF queue[1].op = "save"
                            THEN begins(queue, w).phase = "writing" /\ begins(queue, w).space = w
                            ELSE begins(queue, w).phase = "preparing"
<1>1. CASE queue = <<>>
  <2>1. begins(queue, w) = Idle
    BY <1>1 DEF begins
  <2>2. Idle \in [phase : {"idle", "preparing", "writing"}, space : Workspaces] /\ Idle.phase = "idle"
    BY NothingIsWorkspace DEF Idle
  <2> QED BY <1>1, <2>1, <2>2
<1>2. CASE queue # <<>>
  <2>1. Head(queue) = queue[1]
    BY <1>2
  <2>2. CASE queue[1].op = "save"
    <3>1. begins(queue, w) = [phase |-> "writing", space |-> w]
      BY <1>2, <2>1, <2>2 DEF begins
    <3> QED BY <1>2, <2>2, <3>1
  <2>3. CASE queue[1].op # "save"
    <3>1. begins(queue, w) = [phase |-> "preparing", space |-> Nothing]
      BY <1>2, <2>1, <2>3 DEF begins
    <3> QED BY <1>2, <2>3, <3>1, NothingIsWorkspace
  <2> QED BY <2>2, <2>3
<1> QED BY <1>1, <1>2

LEMMA QueuesEffect ==
  ASSUME StoreTypeOK, NEW batch \in Seq(Entries), NEW w \in Workspaces, Queues(batch, w)
  PROVE  /\ chain' \in Seq(Entries) /\ HeadFits'
         /\ writing' \in [phase : {"idle", "preparing", "writing"}, space : Workspaces]
         /\ Len(chain') = Len(chain) + Len(batch)
         /\ \A i \in DOMAIN chain : i \in DOMAIN chain' /\ chain'[i] = chain[i]
         /\ \A i \in DOMAIN chain' :
              i \notin DOMAIN chain => i - Len(chain) \in DOMAIN batch /\ chain'[i] = batch[i - Len(chain)]
         /\ chain # <<>> => writing' = writing
         /\ chain = <<>> /\ batch = <<>> => writing'.phase = "idle"
         /\ chain = <<>> /\ batch # <<>> =>
              IF batch[1].op = "save" THEN writing'.phase = "writing" /\ writing'.space = w
              ELSE writing'.phase = "preparing"
<1>1. chain \in Seq(Entries) /\ chain' = chain \o batch
  BY DEF StoreTypeOK, Queues
<1>2. /\ chain' \in Seq(Entries) /\ Len(chain') = Len(chain) + Len(batch)
      /\ \A i \in 1..Len(chain') : chain'[i] = IF i <= Len(chain) THEN chain[i] ELSE batch[i - Len(chain)]
  BY <1>1, ConcatProperties
<1>3. DOMAIN chain = 1..Len(chain) /\ DOMAIN chain' = 1..Len(chain') /\ DOMAIN batch = 1..Len(batch)
      /\ Len(chain) \in Nat /\ Len(batch) \in Nat
  BY <1>1, <1>2, LenProperties
<1>4. \A i \in DOMAIN chain : i \in DOMAIN chain' /\ chain'[i] = chain[i]
  BY <1>2, <1>3
<1>5. \A i \in DOMAIN chain' :
        i \notin DOMAIN chain => i - Len(chain) \in DOMAIN batch /\ chain'[i] = batch[i - Len(chain)]
  BY <1>2, <1>3
<1>6. CASE chain = <<>>
  <2>1. chain' = batch
    BY <1>1, <1>6, ConcatEmptySeq
  <2>2. writing' = begins(batch, w)
    BY <1>6 DEF Queues
  <2> QED BY <1>2, <1>4, <1>5, <1>6, <2>1, <2>2, BeginsFits DEF HeadFits
<1>7. CASE chain # <<>>
  <2>1. writing' = writing
    BY <1>7 DEF Queues
  <2>2. 1 \in DOMAIN chain /\ chain'[1] = chain[1] /\ chain' # <<>>
    BY <1>1, <1>2, <1>3, <1>4, <1>7, EmptySeq
  <2>3. HeadFits'
    BY <1>7, <2>1, <2>2 DEF HeadFits, StoreTypeOK
  <2> QED BY <1>2, <1>4, <1>5, <1>7, <2>1, <2>3 DEF StoreTypeOK
<1> QED BY <1>6, <1>7

LEMMA AdvancesEffect ==
  ASSUME StoreTypeOK, chain # <<>>, NEW w \in Workspaces, Advances(w)
  PROVE  /\ chain' \in Seq(Entries) /\ HeadFits' /\ ahead' \in Nat
         /\ writing' \in [phase : {"idle", "preparing", "writing"}, space : Workspaces]
         /\ Len(chain') = Len(chain) - 1
         /\ 1 \in DOMAIN chain /\ Head(chain) = chain[1] /\ chain[1] \in Entries
         /\ \A i \in DOMAIN chain' : i + 1 \in DOMAIN chain /\ chain'[i] = chain[i + 1]
         /\ writing'.phase = "writing" => chain'[1].op = "save" /\ writing'.space = w /\ chain' # <<>>
         /\ Len(chain) = ahead => Len(chain') = ahead'
<1>1. chain \in Seq(Entries) /\ chain' = Tail(chain) /\ ahead \in Nat
  BY DEF StoreTypeOK, Advances
<1>2. /\ chain' \in Seq(Entries) /\ Len(chain') = Len(chain) - 1 /\ Len(chain) \in Nat /\ Len(chain) # 0
      /\ \A i \in 1..Len(chain') : chain'[i] = chain[i + 1]
      /\ Head(chain) = chain[1]
  BY <1>1, HeadTailProperties, EmptySeq
<1>3. DOMAIN chain = 1..Len(chain) /\ DOMAIN chain' = 1..Len(chain')
  BY <1>1, <1>2, LenProperties
<1>4. ahead' = IF ahead > 0 THEN ahead - 1 ELSE 0
  BY DEF Advances
<1>5. writing' = begins(chain', w)
  BY DEF Advances
<1>6. /\ writing' \in [phase : {"idle", "preparing", "writing"}, space : Workspaces] /\ HeadFits'
      /\ writing'.phase = "writing" => chain'[1].op = "save" /\ writing'.space = w /\ chain' # <<>>
  BY <1>2, <1>5, BeginsFits DEF HeadFits
<1>7. 1 \in DOMAIN chain /\ chain[1] \in Entries
  BY <1>1, <1>2, <1>3, ElementOfSeq
<1>8. \A i \in DOMAIN chain' : i + 1 \in DOMAIN chain /\ chain'[i] = chain[i + 1]
  BY <1>2, <1>3
<1>9. Len(chain) = ahead => Len(chain') = ahead'
  BY <1>1, <1>2, <1>4
<1>10. ahead' \in Nat
  BY <1>1, <1>4
<1> QED BY <1>2, <1>6, <1>7, <1>8, <1>9, <1>10

LEMMA SaveIsEntry == Save \in Entries /\ <<Save>> \in Seq(Entries) /\ Len(<<Save>>) = 1 /\ <<Save>>[1] = Save
                     /\ Save.op = "save" /\ DOMAIN <<Save>> = {1} /\ <<Save>> # <<>>
<1>1. Save \in Entries
  BY NothingIsWorkspace DEF Save, Entries, Kinds
<1>2. Save.op = "save"
  BY DEF Save
<1> QED BY <1>1, <1>2

\* An edit queues a save of what it leaves, which holds nothing that was used.
LEMMA EditsKeeps ==
  ASSUME StoreInv, NEW w \in Workspaces, Edits(w),
         \A y : Lists(w, y) => Lists(space, y) \/ y \notin used
  PROVE  StoreInv'
<1>1. /\ safe /\ space' = w /\ Queues(<<Save>>, w) /\ StoreTypeOK /\ ReadsAlone
      /\ UNCHANGED <<hydrated, persistenceError, record, reading, ahead, misses, dead, crossed>>
  BY DEF Edits, Sets, StoreInv
<1>2. /\ chain' \in Seq(Entries) /\ HeadFits'
      /\ writing' \in [phase : {"idle", "preparing", "writing"}, space : Workspaces]
      /\ Len(chain') = Len(chain) + 1
      /\ \A i \in DOMAIN chain : i \in DOMAIN chain' /\ chain'[i] = chain[i]
      /\ \A i \in DOMAIN chain' : i \notin DOMAIN chain => chain'[i] = Save
      /\ chain # <<>> => writing' = writing
      /\ chain = <<>> => writing'.phase = "writing" /\ writing'.space = w
  <2>1. \A o \in Seq(Entries) : Queues(o, w) =>
           /\ chain' \in Seq(Entries) /\ HeadFits'
           /\ writing' \in [phase : {"idle", "preparing", "writing"}, space : Workspaces]
           /\ Len(chain') = Len(chain) + Len(o)
           /\ \A i \in DOMAIN chain : i \in DOMAIN chain' /\ chain'[i] = chain[i]
           /\ \A i \in DOMAIN chain' :
                i \notin DOMAIN chain => i - Len(chain) \in DOMAIN o /\ chain'[i] = o[i - Len(chain)]
           /\ chain # <<>> => writing' = writing
           /\ chain = <<>> /\ o # <<>> =>
                IF o[1].op = "save" THEN writing'.phase = "writing" /\ writing'.space = w
                ELSE writing'.phase = "preparing"
    BY <1>1, QueuesEffect
  <2> HIDE DEF Save
  <2> QED BY <1>1, <2>1, SaveIsEntry
<1>3. chain \in Seq(Entries) /\ Len(chain) \in Nat /\ DOMAIN chain = 1..Len(chain) /\ DOMAIN chain' = 1..Len(chain')
  BY <1>1, <1>2, LenProperties DEF StoreTypeOK
<1>4. StoreTypeOK'
  BY <1>1, <1>2 DEF StoreTypeOK
<1>5. reading \notin {"waiting", "loading"}
  BY <1>1 DEF ReadsAlone, safe
<1>6. ReadsAlone'
  BY <1>1, <1>5 DEF ReadsAlone
<1>7. LastStores'
  <2>1. chain' # <<>> /\ chain'[Len(chain')] = Save /\ Save.op = "save"
    BY <1>2, <1>3, SaveIsEntry
  <2>2. Len(chain') = 1 => chain = <<>>
    BY <1>2, <1>3, EmptySeq
  <2>3. Agree(w, w)
    BY AgreeSelf
  <2> QED BY <1>1, <1>2, <2>1, <2>2, <2>3 DEF LastStores
<1>8. ASSUME NoReturn PROVE NoReturn'
  <2>1. safe'
    BY <1>1 DEF safe
  <2>2. NoneOf(record.space, dead)' /\ NoneOf(space, dead)'
    <3>1. NoneOf(w, dead)
      BY <1>8 DEF NoReturn, NoneOf, used
    <3> QED BY <1>1, <1>8, <3>1 DEF NoReturn, NoneOf
  <2>3. ASSUME writing'.phase = "writing"
        PROVE  NoneOf(writing.space, dead)' /\ (chain'[1].op # "save" => ~Lists(writing'.space, chain'[1].id))
    <3>1. CASE chain = <<>>
      <4>1. writing'.space = w /\ chain'[1].op = "save"
        BY <1>2, <1>3, <2>3, <3>1, SaveIsEntry
      <4> QED BY <1>1, <2>2, <4>1 DEF NoneOf
    <3>2. CASE chain # <<>>
      <4>1. 1 \in DOMAIN chain /\ chain'[1] = chain[1]
        BY <1>2, <1>3, <3>2, EmptySeq
      <4> QED BY <1>1, <1>2, <1>8, <2>3, <3>2, <4>1 DEF NoReturn, NoneOf
    <3> QED BY <3>1, <3>2
  <2>4. ASSUME NEW i \in DOMAIN chain', chain'[i].op = "clean"
        PROVE  /\ NoneOf(chain[i].next, dead)' /\ ~Lists(space', chain'[i].id)
               /\ \A j \in 1..i : chain'[j].op # "delete"
                                  /\ (chain'[j].op = "clean" => ~Lists(chain'[i].next, chain'[j].id))
    <3>1. i \in DOMAIN chain /\ chain'[i] = chain[i]
      BY <1>2, <2>4, SaveIsEntry
    <3>2. chain[i].id \in used /\ ~Lists(w, chain[i].id)
      <4>1. chain[i].id \in used
        BY <3>1 DEF used, Range
      <4> QED BY <1>8, <2>4, <3>1, <4>1 DEF NoReturn
    <3>3. \A j \in 1..i : j \in DOMAIN chain /\ chain'[j] = chain[j]
      BY <1>2, <1>3, <3>1
    <3> QED BY <1>1, <1>8, <2>4, <3>1, <3>2, <3>3 DEF NoReturn, NoneOf
  <2> QED BY <2>1, <2>2, <2>3, <2>4 DEF NoReturn
<1> QED BY <1>1, <1>4, <1>6, <1>7, <1>8 DEF StoreInv

LEMMA CreateKeeps ==
  ASSUME StoreInv, NEW k \in Kinds, Create(k)
  PROVE  StoreInv'
<1>1. PICK x \in fresh(k) : Edits(added(space, k, x))
  BY DEF Create
<1>2. space \in Workspaces /\ x \in IdsOf(k) /\ x \notin used
  BY <1>1 DEF StoreInv, StoreTypeOK, fresh
<1>3. added(space, k, x) \in Workspaces /\ \A y : Lists(added(space, k, x), y) => Lists(space, y) \/ y \notin used
  BY <1>2, AddedEffect
<1> QED BY <1>1, <1>3, EditsKeeps

LEMMA RenameKeeps ==
  ASSUME StoreInv, NEW k \in Kinds, NEW x \in IdsOf(k), NEW default \in BOOLEAN, Rename(k, x, default)
  PROVE  StoreInv'
<1> DEFINE u == [space EXCEPT !.titled = IF default THEN @ \ {x} ELSE @ \cup {x}]
<1>1. space \in Workspaces /\ x \in Items /\ Edits(u)
  BY ListsAreTyped DEF StoreInv, StoreTypeOK, Rename
<1>2. u \in Workspaces /\ \A y : Lists(u, y) <=> Lists(space, y)
  <2>0. /\ space \in [list : [Kinds -> Seq(Items)], active : [Kinds -> Items \cup {NoItem}],
                 titled : SUBSET Items, begun : SUBSET Items, unread : SUBSET Items, pinned : SUBSET Items]
        /\ \A l \in Kinds : space.active[l] \in Range(space.list[l]) \cup {NoItem}
    BY <1>1 DEF Workspaces
  <2>1. /\ u \in [list : [Kinds -> Seq(Items)], active : [Kinds -> Items \cup {NoItem}],
                 titled : SUBSET Items, begun : SUBSET Items, unread : SUBSET Items, pinned : SUBSET Items]
        /\ u.list = space.list /\ u.active = space.active
    BY <1>1, <2>0
  <2>2. \A l \in Kinds : u.active[l] \in Range(space.list[l]) \cup {NoItem}
    BY <1>1, <2>0, <2>1
  <2> HIDE DEF u
  <2> QED BY <1>1, <2>1, <2>2, MarkedEffect
<1> HIDE DEF u
<1> QED BY <1>1, <1>2, EditsKeeps

LEMMA PinKeeps ==
  ASSUME StoreInv, NEW k \in Kinds, NEW x \in IdsOf(k), Pin(k, x)
  PROVE  StoreInv'
<1> DEFINE u == [space EXCEPT !.pinned = IF x \in @ THEN @ \ {x} ELSE @ \cup {x}]
<1>1. space \in Workspaces /\ x \in Items /\ Edits(u)
  BY ListsAreTyped DEF StoreInv, StoreTypeOK, Pin
<1>2. u \in Workspaces /\ \A y : Lists(u, y) <=> Lists(space, y)
  <2>0. /\ space \in [list : [Kinds -> Seq(Items)], active : [Kinds -> Items \cup {NoItem}],
                 titled : SUBSET Items, begun : SUBSET Items, unread : SUBSET Items, pinned : SUBSET Items]
        /\ \A l \in Kinds : space.active[l] \in Range(space.list[l]) \cup {NoItem}
    BY <1>1 DEF Workspaces
  <2>1. /\ u \in [list : [Kinds -> Seq(Items)], active : [Kinds -> Items \cup {NoItem}],
                 titled : SUBSET Items, begun : SUBSET Items, unread : SUBSET Items, pinned : SUBSET Items]
        /\ u.list = space.list /\ u.active = space.active
    BY <1>1, <2>0
  <2>2. \A l \in Kinds : u.active[l] \in Range(space.list[l]) \cup {NoItem}
    BY <1>1, <2>0, <2>1
  <2> HIDE DEF u
  <2> QED BY <1>1, <2>1, <2>2, MarkedEffect
<1> HIDE DEF u
<1> QED BY <1>1, <1>2, EditsKeeps

LEMMA UpdateStatusKeeps ==
  ASSUME StoreInv, NEW s \in SessionIds, NEW isUnread \in BOOLEAN, UpdateStatus(s, isUnread)
  PROVE  StoreInv'
<1> DEFINE u == [space EXCEPT !.begun = @ \cup {s},
                              !.unread = IF isUnread THEN @ \cup {s} ELSE @ \ {s}]
<1>1. space \in Workspaces /\ s \in Items /\ Edits(u)
  BY DEF StoreInv, StoreTypeOK, UpdateStatus, Items
<1>2. u \in Workspaces /\ \A y : Lists(u, y) <=> Lists(space, y)
  <2>0. /\ space \in [list : [Kinds -> Seq(Items)], active : [Kinds -> Items \cup {NoItem}],
                 titled : SUBSET Items, begun : SUBSET Items, unread : SUBSET Items, pinned : SUBSET Items]
        /\ \A l \in Kinds : space.active[l] \in Range(space.list[l]) \cup {NoItem}
    BY <1>1 DEF Workspaces
  <2>1. /\ u \in [list : [Kinds -> Seq(Items)], active : [Kinds -> Items \cup {NoItem}],
                 titled : SUBSET Items, begun : SUBSET Items, unread : SUBSET Items, pinned : SUBSET Items]
        /\ u.list = space.list /\ u.active = space.active
    BY <1>1, <2>0
  <2>2. \A l \in Kinds : u.active[l] \in Range(space.list[l]) \cup {NoItem}
    BY <1>1, <2>0, <2>1
  <2> HIDE DEF u
  <2> QED BY <1>1, <2>1, <2>2, MarkedEffect
<1> HIDE DEF u
<1> QED BY <1>1, <1>2, EditsKeeps

LEMMA SelectKeeps ==
  ASSUME StoreInv, NEW k \in Kinds, NEW x \in IdsOf(k), Select(k, x)
  PROVE  StoreInv'
<1> DEFINE u == [space EXCEPT !.active[k] = x, !.unread = @ \ {x}]
<1>1. space \in Workspaces /\ x \in Items /\ x \in Range(space.list[k]) /\ Edits(u)
  BY ListsAreTyped DEF StoreInv, StoreTypeOK, Select, listedIn
<1>2. u \in Workspaces /\ \A y : Lists(u, y) <=> Lists(space, y)
  <2>0. /\ space \in [list : [Kinds -> Seq(Items)], active : [Kinds -> Items \cup {NoItem}],
                 titled : SUBSET Items, begun : SUBSET Items, unread : SUBSET Items, pinned : SUBSET Items]
        /\ \A l \in Kinds : space.active[l] \in Range(space.list[l]) \cup {NoItem}
    BY <1>1 DEF Workspaces
  <2>1. /\ u \in [list : [Kinds -> Seq(Items)], active : [Kinds -> Items \cup {NoItem}],
                 titled : SUBSET Items, begun : SUBSET Items, unread : SUBSET Items, pinned : SUBSET Items]
        /\ u.list = space.list /\ u.active = [space.active EXCEPT ![k] = x]
    BY <1>1, <2>0
  <2>2. \A l \in Kinds : u.active[l] \in Range(space.list[l]) \cup {NoItem}
    BY <1>1, <2>0, <2>1
  <2> HIDE DEF u
  <2> QED BY <1>1, <2>1, <2>2, MarkedEffect
<1> HIDE DEF u
<1> QED BY <1>1, <1>2, EditsKeeps

LEMMA DeleteKeeps ==
  ASSUME StoreInv, NEW k \in Kinds, NEW x \in IdsOf(k), Delete(k, x)
  PROVE  StoreInv'
<1> DEFINE e == [op |-> "delete", kind |-> k, id |-> x, next |-> Nothing]
<1>1. /\ Queues(<<e>>, space) /\ StoreTypeOK /\ ReadsAlone /\ space \in Workspaces /\ x \in listedIn(space, k)
      /\ crossed' = crossed \cup {y \in {"frozen"} : ~safe}
      /\ UNCHANGED <<space, hydrated, persistenceError, record, reading, ahead, misses, dead>>
  BY DEF Delete, StoreInv, StoreTypeOK
<1>2. e \in Entries /\ <<e>> \in Seq(Entries) /\ Len(<<e>>) = 1 /\ <<e>>[1] = e
                     /\ e.op = "delete" /\ DOMAIN <<e>> = {1} /\ <<e>> # <<>>
  <2>1. e \in Entries
    BY NothingIsWorkspace DEF Entries, IdsOf, Items
  <2>2. e.op = "delete"
    OBVIOUS
  <2> HIDE DEF e
  <2> QED BY <2>1, <2>2
<1> HIDE DEF e
<1>3. /\ chain' \in Seq(Entries) /\ HeadFits'
      /\ writing' \in [phase : {"idle", "preparing", "writing"}, space : Workspaces]
      /\ Len(chain') = Len(chain) + 1
      /\ \A i \in DOMAIN chain : i \in DOMAIN chain' /\ chain'[i] = chain[i]
      /\ \A i \in DOMAIN chain' : i \notin DOMAIN chain => chain'[i] = e
      /\ chain # <<>> => writing' = writing
      /\ chain = <<>> => writing'.phase = "preparing"
  <2>1. \A o \in Seq(Entries) : Queues(o, space) =>
           /\ chain' \in Seq(Entries) /\ HeadFits'
           /\ writing' \in [phase : {"idle", "preparing", "writing"}, space : Workspaces]
           /\ Len(chain') = Len(chain) + Len(o)
           /\ \A i \in DOMAIN chain : i \in DOMAIN chain' /\ chain'[i] = chain[i]
           /\ \A i \in DOMAIN chain' :
                i \notin DOMAIN chain => i - Len(chain) \in DOMAIN o /\ chain'[i] = o[i - Len(chain)]
           /\ chain # <<>> => writing' = writing
           /\ chain = <<>> /\ o # <<>> =>
                IF o[1].op = "save" THEN writing'.phase = "writing" /\ writing'.space = space
                ELSE writing'.phase = "preparing"
    BY <1>1, QueuesEffect
  <2> QED BY <1>1, <1>2, <2>1
<1>4. chain \in Seq(Entries) /\ Len(chain) \in Nat /\ DOMAIN chain = 1..Len(chain) /\ DOMAIN chain' = 1..Len(chain')
  BY <1>1, <1>3, LenProperties DEF StoreTypeOK
<1>5. StoreTypeOK'
  BY <1>1, <1>3 DEF StoreTypeOK
<1>6. "frozen" \notin crossed' => safe /\ "frozen" \notin crossed
  BY <1>1
<1>7. ReadsAlone'
  <2>1. safe => reading \notin {"waiting", "loading"}
    BY <1>1 DEF ReadsAlone, safe
  <2> QED BY <1>1, <1>6, <2>1 DEF ReadsAlone
<1>8. LastStores'
  <2>1. chain' # <<>> /\ chain'[Len(chain')] = e
    BY <1>3, <1>4
  <2>2. Len(chain') = 1 => chain = <<>>
    BY <1>3, <1>4, EmptySeq
  <2> QED BY <1>2, <1>3, <2>1, <2>2 DEF LastStores
<1>9. ASSUME NoReturn PROVE NoReturn'
  <2>1. safe'
    <3>1. CASE safe
      BY <1>1, <3>1 DEF safe
    <3>2. CASE ~safe
      <4>1. Lists(Nothing, x)
        BY <1>1, <1>9, <3>2 DEF NoReturn, Lists
      <4> QED BY <4>1, NothingIsWorkspace
    <3> QED BY <3>1, <3>2
  <2>2. writing'.phase = "writing" => chain # <<>> /\ writing' = writing /\ chain'[1] = chain[1]
    BY <1>3, <1>4, EmptySeq
  <2>3. ASSUME NEW i \in DOMAIN chain', chain'[i].op = "clean"
        PROVE  /\ NoneOf(chain[i].next, dead)' /\ ~Lists(space', chain'[i].id)
               /\ \A j \in 1..i : chain'[j].op # "delete"
                                  /\ (chain'[j].op = "clean" => ~Lists(chain'[i].next, chain'[j].id))
    <3>1. i \in DOMAIN chain /\ chain'[i] = chain[i]
      BY <1>2, <1>3, <2>3
    <3>2. \A j \in 1..i : j \in DOMAIN chain /\ chain'[j] = chain[j]
      BY <1>3, <1>4, <3>1
    <3> QED BY <1>1, <1>9, <2>3, <3>1, <3>2 DEF NoReturn, NoneOf
  <2> QED BY <1>1, <1>9, <2>1, <2>2, <2>3 DEF NoReturn, NoneOf
<1>10. "behind" \notin crossed' => "behind" \notin crossed
  BY <1>1
<1> QED BY <1>1, <1>5, <1>6, <1>7, <1>8, <1>9, <1>10 DEF StoreInv

LEMMA PreparedKeeps ==
  ASSUME StoreInv, Prepared
  PROVE  StoreInv'
<1>1. /\ writing.phase = "preparing" /\ writing' = [phase |-> "writing", space |-> prepared]
      /\ StoreTypeOK /\ ReadsAlone /\ space \in Workspaces
      /\ UNCHANGED <<space, hydrated, persistenceError, record, chain, reading, ahead, misses, dead, crossed>>
  BY DEF Prepared, StoreInv, StoreTypeOK
<1>2. /\ chain # <<>> /\ chain \in Seq(Entries) /\ 1 \in DOMAIN chain /\ Head(chain) = chain[1] /\ chain[1] \in Entries
      /\ chain[1].op # "save" /\ Len(chain) \in Nat /\ DOMAIN chain = 1..Len(chain)
  <2>1. chain # <<>> /\ chain \in Seq(Entries) /\ chain[1].op # "save"
    BY <1>1 DEF StoreTypeOK, HeadFits
  <2>2. Len(chain) \in Nat /\ Len(chain) # 0 /\ DOMAIN chain = 1..Len(chain)
    BY <2>1, EmptySeq, LenProperties
  <2>3. 1 \in DOMAIN chain /\ chain[1] \in Entries
    BY <2>1, <2>2, ElementOfSeq
  <2> QED BY <2>1, <2>2, <2>3
<1>3. /\ chain[1].kind \in Kinds /\ chain[1].id \in IdsOf(chain[1].kind) /\ chain[1].next \in Workspaces
      /\ chain[1].op \in {"delete", "clean"}
  BY <1>2 DEF Entries
<1>4. /\ chain[1].op = "clean" => prepared = chain[1].next
      /\ chain[1].op = "delete" => prepared = without(space, chain[1].kind, chain[1].id)
  BY <1>2 DEF prepared
<1>5. /\ prepared \in Workspaces
      /\ chain[1].op = "delete" =>
           \A m \in Kinds : listedIn(prepared, m) = listedIn(space, m) \ {chain[1].id}
  <2>1. \A l \in Kinds : \A x \in IdsOf(l) :
          /\ without(space, l, x) \in Workspaces
          /\ \A m \in Kinds : listedIn(without(space, l, x), m) = listedIn(space, m) \ {x}
    BY <1>1, WithoutEffect
  <2> QED BY <1>3, <1>4, <2>1
<1>6. writing'.phase = "writing" /\ writing'.space = prepared
      /\ writing' \in [phase : {"idle", "preparing", "writing"}, space : Workspaces]
  BY <1>1, <1>5
<1>7. StoreTypeOK'
  BY <1>1, <1>2, <1>6 DEF StoreTypeOK, HeadFits
<1>8. ReadsAlone'
  BY <1>1 DEF ReadsAlone
<1>9. ASSUME LastStores PROVE LastStores'
  <2> SUFFICES ASSUME Len(chain) = 1
        PROVE Agree(IF chain[1].op = "delete" THEN without(space, chain[1].kind, chain[1].id) ELSE space, prepared)
    BY <1>1, <1>2, <1>6, <1>9 DEF LastStores
  <2>1. CASE chain[1].op = "delete"
    BY <1>4, <1>5, <2>1, AgreeSelf
  <2>2. CASE chain[1].op = "clean"
    <3>1. Agree(space, chain[1].next)
      BY <1>1, <1>2, <1>9, <2>2 DEF LastStores
    <3> QED BY <1>4, <2>2, <3>1
  <2> QED BY <1>3, <2>1, <2>2
<1>10. ASSUME NoReturn PROVE NoReturn'
  <2>1. NoneOf(prepared, dead) /\ ~Lists(prepared, chain[1].id)
    <3>1. CASE chain[1].op = "delete"
      <4>1. \A l \in Kinds : listedIn(prepared, l) = listedIn(space, l) \ {chain[1].id}
        BY <1>5, <3>1
      <4> QED BY <1>10, <4>1 DEF NoReturn, NoneOf, Lists
    <3>2. CASE chain[1].op = "clean"
      <4>1. /\ NoneOf(chain[1].next, dead)
            /\ \A j \in 1..1 : chain[j].op = "clean" => ~Lists(chain[1].next, chain[j].id)
        BY <1>2, <1>10, <3>2 DEF NoReturn
      <4> QED BY <1>4, <3>2, <4>1
    <3> QED BY <1>3, <3>1, <3>2
  <2> QED BY <1>1, <1>6, <1>10, <2>1 DEF NoReturn, NoneOf, safe
<1> QED BY <1>1, <1>7, <1>8, <1>9, <1>10 DEF StoreInv, safe

LEMMA NotWrittenKeeps ==
  ASSUME StoreInv, NotWritten
  PROVE  StoreInv'
<1>1. /\ writing.phase # "idle" /\ misses' = misses + 1 /\ persistenceError' = TRUE /\ Advances(space)
      /\ StoreTypeOK /\ ReadsAlone /\ space \in Workspaces /\ chain # <<>>
      /\ UNCHANGED <<space, hydrated, record, reading, dead, crossed>>
  BY DEF NotWritten, StoreInv, StoreTypeOK, HeadFits
<1>2. /\ chain' \in Seq(Entries) /\ HeadFits' /\ ahead' \in Nat
      /\ writing' \in [phase : {"idle", "preparing", "writing"}, space : Workspaces]
      /\ Len(chain) = ahead => Len(chain') = ahead'
  BY <1>1, AdvancesEffect
<1>3. StoreTypeOK' /\ misses' # 0
  BY <1>1, <1>2 DEF StoreTypeOK
<1>4. ReadsAlone'
  BY <1>1, <1>2 DEF ReadsAlone
<1>5. ~safe'
  BY <1>1 DEF safe
<1> QED BY <1>3, <1>4, <1>5 DEF StoreInv

LEMMA WrittenKeeps ==
  ASSUME StoreInv, Written
  PROVE  StoreInv'
<1> DEFINE e == Head(chain)
           w == IF e.op = "delete" /\ safe THEN without(space, e.kind, e.id) ELSE space
<1>1. /\ writing.phase = "writing" /\ record' = [state |-> "valid", space |-> writing.space]
      /\ space' = w /\ dead' = IF e.op = "save" THEN dead ELSE dead \cup {e.id}
      /\ Advances(w) /\ chain # <<>>
      /\ StoreTypeOK /\ ReadsAlone /\ space \in Workspaces
      /\ UNCHANGED <<hydrated, persistenceError, reading, misses, crossed>>
  BY DEF Written, StoreInv, StoreTypeOK, HeadFits
<1>2. /\ 1 \in DOMAIN chain /\ e = chain[1] /\ e \in Entries /\ chain \in Seq(Entries)
      /\ Len(chain) \in Nat /\ DOMAIN chain = 1..Len(chain)
  <2>1. chain \in Seq(Entries) /\ Len(chain) # 0
    BY <1>1, EmptySeq DEF StoreTypeOK
  <2>2. Len(chain) \in Nat /\ DOMAIN chain = 1..Len(chain) /\ e = chain[1]
    BY <2>1, LenProperties, HeadTailProperties, EmptySeq
  <2>3. 1 \in DOMAIN chain /\ chain[1] \in Entries
    BY <2>1, <2>2, ElementOfSeq
  <2> QED BY <2>1, <2>2, <2>3
<1> HIDE DEF e
<1>3. e.kind \in Kinds /\ (e.op # "save" => e.id \in IdsOf(e.kind)) /\ e.op \in {"save", "delete", "clean"}
      /\ e.id \in Items \cup {NoItem} /\ e.next \in Workspaces
  BY <1>2 DEF Entries
<1>4. /\ w \in Workspaces
      /\ \A y : Lists(w, y) => Lists(space, y)
      /\ e.op = "delete" /\ safe => ~Lists(w, e.id)
  <2>1. \A l \in Kinds : \A x \in IdsOf(l) :
          /\ without(space, l, x) \in Workspaces
          /\ \A m \in Kinds : listedIn(without(space, l, x), m) = listedIn(space, m) \ {x}
    BY <1>1, WithoutEffect
  <2>2. CASE e.op = "delete" /\ safe
    <3>1. w = without(space, e.kind, e.id)
      BY <2>2
    <3>2. w \in Workspaces /\ \A m \in Kinds : listedIn(w, m) = listedIn(space, m) \ {e.id}
      BY <1>3, <2>1, <2>2, <3>1
    <3> HIDE DEF w
    <3> QED BY <3>2 DEF Lists
  <2>3. CASE ~(e.op = "delete" /\ safe)
    BY <1>1, <2>3
  <2> QED BY <2>2, <2>3
<1>5. /\ chain' \in Seq(Entries) /\ HeadFits' /\ ahead' \in Nat
      /\ writing' \in [phase : {"idle", "preparing", "writing"}, space : Workspaces]
      /\ Len(chain') = Len(chain) - 1
      /\ \A i \in DOMAIN chain' : i + 1 \in DOMAIN chain /\ chain'[i] = chain[i + 1]
      /\ writing'.phase = "writing" => chain'[1].op = "save" /\ writing'.space = w /\ chain' # <<>>
      /\ Len(chain) = ahead => Len(chain') = ahead'
  <2> HIDE DEF w
  <2> QED BY <1>1, <1>4, AdvancesEffect
<1>6. DOMAIN chain' = 1..Len(chain')
  BY <1>5, LenProperties
<1>7. writing.space \in Workspaces /\ record' \in [state : {"none", "damaged", "valid"}, space : Workspaces]
      /\ record'.state = "valid" /\ record'.space = writing.space
  BY <1>1 DEF StoreTypeOK
<1>8. dead' \subseteq Items
  <2>1. e.op # "save" => e.id \in Items
    BY <1>3 DEF IdsOf, Items
  <2> QED BY <1>1, <2>1 DEF StoreTypeOK
<1>9. StoreTypeOK'
  <2> HIDE DEF w
  <2> QED BY <1>1, <1>4, <1>5, <1>7, <1>8 DEF StoreTypeOK
<1>10. ReadsAlone'
  BY <1>1, <1>5 DEF ReadsAlone
<1>11. ASSUME safe, LastStores PROVE LastStores'
  <2>1. CASE chain' = <<>>
    <3>1. Len(chain) = 1 /\ chain[Len(chain)] = e
      <4>1. Len(chain') = 0
        BY <2>1
      <4>2. Len(chain') = Len(chain) - 1 /\ Len(chain) \in Nat
        BY <1>2, <1>5
      <4>3. Len(chain) = 1
        BY <4>1, <4>2
      <4> QED BY <1>2, <4>3
    <3>2. Agree(IF e.op = "delete" THEN without(space, e.kind, e.id) ELSE space, writing.space)
      BY <1>1, <1>11, <3>1 DEF LastStores
    <3>3. Agree(w, writing.space)
      BY <1>11, <3>2
    <3> HIDE DEF w
    <3> QED BY <1>1, <1>7, <2>1, <3>3 DEF LastStores
  <2>2. CASE chain' # <<>>
    <3> DEFINE last == chain[Len(chain)]
    <3>1. Len(chain') \in DOMAIN chain' /\ chain'[Len(chain')] = last /\ Len(chain) # 1
      <4>1. Len(chain') # 0 /\ Len(chain') \in Nat
        BY <1>5, <2>2, EmptySeq
      <4>2. Len(chain') \in DOMAIN chain' /\ Len(chain') + 1 = Len(chain)
        BY <1>2, <1>5, <1>6, <4>1
      <4> QED BY <1>5, <4>1, <4>2
    <3>2. last.op = "clean" => Agree(space, last.next)
      BY <1>1, <1>11, <3>1 DEF LastStores
    <3>3. last \in Entries
      BY <1>2, <1>5, <3>1, ElementOfSeq
    <3>4. last.op = "clean" => Agree(w, last.next)
      <4>1. last.next \in Workspaces
        BY <3>3 DEF Entries
      <4>2. CASE e.op = "delete"
        BY <1>1, <1>3, <3>2, <4>1, <4>2, AgreeWithout
      <4>3. CASE e.op # "delete"
        BY <3>2, <4>3
      <4> QED BY <4>2, <4>3
    <3>5. Agree(w, w)
      BY <1>4, AgreeSelf
    <3>6. Len(chain') = 1 /\ writing'.phase = "writing" => last.op = "save" /\ writing'.space = w
      BY <1>5, <3>1
    <3> HIDE DEF w, last
    <3> QED BY <1>1, <2>2, <3>1, <3>4, <3>5, <3>6 DEF LastStores
  <2> QED BY <2>1, <2>2
<1>12. ASSUME NoReturn PROVE NoReturn'
  <2>1. safe /\ safe'
    BY <1>1, <1>12 DEF NoReturn, safe
  <2>2. \A y \in dead' : y \in dead \/ (y = e.id /\ e.op # "save")
    BY <1>1
  <2>3. NoneOf(writing.space, dead')
    BY <1>1, <1>2, <1>12, <2>2 DEF NoReturn, NoneOf
  <2>4. NoneOf(w, dead')
    <3>1. e.op = "clean" => ~Lists(space, e.id)
      BY <1>2, <1>12 DEF NoReturn
    <3>2. NoneOf(space, dead)
      BY <1>12 DEF NoReturn
    <3> HIDE DEF w
    <3> QED BY <1>3, <1>4, <2>1, <2>2, <3>1, <3>2 DEF NoneOf
  <2>5. ASSUME NEW i \in DOMAIN chain', chain'[i].op = "clean"
        PROVE  /\ NoneOf(chain'[i].next, dead') /\ ~Lists(w, chain'[i].id)
               /\ \A j \in 1..i : chain'[j].op # "delete"
                                  /\ (chain'[j].op = "clean" => ~Lists(chain'[i].next, chain'[j].id))
    <3> DEFINE c == chain[i + 1]
    <3>1. i + 1 \in DOMAIN chain /\ chain'[i] = c /\ i \in Nat
      BY <1>5, <1>6, <2>5
    <3>2. /\ NoneOf(c.next, dead) /\ ~Lists(space, c.id)
          /\ \A j \in 1..(i + 1) : chain[j].op # "delete"
                             /\ (chain[j].op = "clean" => ~Lists(c.next, chain[j].id))
      BY <1>12, <2>5, <3>1 DEF NoReturn
    <3>3. e.op # "delete" /\ (e.op = "clean" => ~Lists(c.next, e.id))
      BY <1>2, <3>1, <3>2
    <3>4. NoneOf(c.next, dead')
      BY <1>3, <2>2, <3>2, <3>3 DEF NoneOf
    <3>5. ASSUME NEW j \in 1..i
          PROVE  chain'[j].op # "delete" /\ (chain'[j].op = "clean" => ~Lists(c.next, chain'[j].id))
      <4>1. j \in DOMAIN chain' /\ j + 1 \in 1..(i + 1)
        BY <1>5, <1>6, <2>5, <3>1
      <4> QED BY <1>5, <3>2, <4>1
    <3> HIDE DEF c, w
    <3> QED BY <1>4, <3>1, <3>2, <3>4, <3>5
  <2>6. writing'.phase = "writing" => chain'[1].op = "save" /\ writing'.space = w
    BY <1>5
  <2> HIDE DEF w
  <2> QED BY <1>1, <1>7, <2>1, <2>3, <2>4, <2>5, <2>6 DEF NoReturn, NoneOf
<1>13. safe' <=> safe
  BY <1>1 DEF safe
<1> QED BY <1>1, <1>9, <1>10, <1>11, <1>12, <1>13 DEF StoreInv

\* A session that is used again drops the other empty ones from the memory.
LEMMA ReuseKeeps ==
  ASSUME StoreInv, Reuse
  PROVE  StoreInv'
<1> DEFINE blanks == empty(space)
           kept   == IF space.active["session"] \in Range(blanks)
                     THEN space.active["session"] ELSE Head(blanks)
           others == only(blanks, SessionIds \ {kept})
           next   == [space EXCEPT
                        !.list["session"] = only(@, SessionIds \ Range(others)),
                        !.active["session"] = kept]
           cleans == [i \in DOMAIN others |->
                        [op |-> "clean", kind |-> "session", id |-> others[i], next |-> next]]
           rest   == only(space.list["session"], SessionIds \ Range(others))
<1>1. /\ blanks # <<>> /\ Sets(next, cleans)
      /\ crossed' = crossed \cup {x \in {"behind"} : others # <<>> /\ \E e \in Range(chain) : e.op = "delete"}
  BY DEF Reuse
<1>2. StoreTypeOK /\ ReadsAlone /\ space \in Workspaces /\ "session" \in Kinds /\ IdsOf("session") = SessionIds
  BY DEF StoreInv, StoreTypeOK, Kinds, IdsOf
<1>3. /\ space.list["session"] \in Seq(SessionIds)
      /\ blanks \in Seq(SessionIds) /\ Range(blanks) \subseteq Range(space.list["session"])
  <2>1. space.list["session"] \in Seq(SessionIds)
    BY <1>2, ListsAreTyped
  <2> QED BY <2>1, OnlyRange DEF empty
<1> HIDE DEF blanks
<1>4. kept \in Range(blanks)
  <2>1. Head(blanks) = blanks[1] /\ 1 \in DOMAIN blanks
    BY <1>1, <1>3
  <2> QED BY <2>1 DEF Range
<1> HIDE DEF kept
<1>5. others \in Seq(SessionIds) /\ Range(others) = Range(blanks) \cap (SessionIds \ {kept})
  BY <1>3, OnlyRange
<1> HIDE DEF others
<1>6. rest \in Seq(SessionIds) /\ Range(rest) = Range(space.list["session"]) \cap (SessionIds \ Range(others))
  BY <1>3, OnlyRange
<1>7. kept \in Range(rest) /\ kept \in SessionIds
  BY <1>3, <1>4, <1>5, <1>6, RangeOfSeq
<1>8. others = <<>> => rest = space.list["session"]
  <2> SUFFICES ASSUME others = <<>> PROVE rest = space.list["session"]
    OBVIOUS
  <2>1. Range(others) = {}
    BY DEF Range
  <2>2. Range(space.list["session"]) \subseteq SessionIds \ Range(others)
    BY <1>3, <2>1, RangeOfSeq
  <2> QED BY <1>3, <2>2, OnlyAll
<1> DEFINE base == [list : [Kinds -> Seq(Items)], active : [Kinds -> Items \cup {NoItem}],
          titled : SUBSET Items, begun : SUBSET Items, unread : SUBSET Items, pinned : SUBSET Items]
<1>9. next = [space EXCEPT !.list["session"] = rest, !.active["session"] = kept] /\ space \in base
  BY <1>2 DEF Workspaces
<1> HIDE DEF rest, next
<1>10. next \in base /\ next.list = [space.list EXCEPT !["session"] = rest]
       /\ next.active = [space.active EXCEPT !["session"] = kept] /\ \A a \in Marks : next[a] = space[a]
  <2>1. rest \in Seq(Items) /\ kept \in Items
    BY <1>6, <1>7 DEF Items
  <2> QED BY <1>2, <1>9, <2>1 DEF Marks
<1>11. /\ \A k \in Kinds : next.list[k] = IF k = "session" THEN rest ELSE space.list[k]
       /\ \A k \in Kinds : next.active[k] = IF k = "session" THEN kept ELSE space.active[k]
  BY <1>2, <1>9, <1>10
<1>12. next \in Workspaces
  <2>1. \A k \in Kinds : next.list[k] \in Seq(IdsOf(k)) /\ next.active[k] \in Range(next.list[k]) \cup {NoItem}
    BY <1>2, <1>6, <1>7, <1>11, ListsAreTyped
  <2> QED BY <1>10, <2>1 DEF Workspaces
<1>13. /\ \A y : Lists(next, y) => Lists(space, y)
       /\ \A y \in Range(others) : ~Lists(next, y)
  <2>1. \A y : Lists(next, y) => Lists(space, y)
    BY <1>2, <1>6, <1>11 DEF Lists, listedIn
  <2>2. \A y \in Range(others), k \in Kinds : y \notin listedIn(next, k)
    <3> SUFFICES ASSUME NEW y \in Range(others), NEW k \in Kinds PROVE y \notin listedIn(next, k)
      OBVIOUS
    <3>1. CASE k = "session"
      BY <1>6, <1>11, <3>1 DEF listedIn
    <3>2. CASE k # "session"
      <4>1. y \in SessionIds /\ Range(next.list[k]) \subseteq IdsOf(k)
        BY <1>5, <1>12, ListsAreTyped
      <4> QED BY <3>2, <4>1, StoreAssumption DEF IdsOf, listedIn
    <3> QED BY <3>1, <3>2
  <2> QED BY <2>1, <2>2 DEF Lists
<1>14. /\ cleans \in Seq(Entries) /\ Len(cleans) = Len(others) /\ DOMAIN cleans = DOMAIN others
       /\ \A i \in DOMAIN cleans : cleans[i].op = "clean" /\ cleans[i].next = next /\ cleans[i].id \in Range(others)
  <2>1. DOMAIN others = 1..Len(others) /\ Len(others) \in Nat /\ \A i \in DOMAIN others : others[i] \in SessionIds
    BY <1>5, LenProperties, ElementOfSeq
  <2>2. \A i \in DOMAIN others : cleans[i] \in Entries
    BY <1>2, <1>12, <2>1 DEF Entries, Items
  <2>3. cleans \in Seq(Entries) /\ Len(cleans) = Len(others)
    <3> DEFINE n == Len(others)
    <3>1. cleans \in [1..n -> Entries] /\ n \in Nat
      BY <2>1, <2>2
    <3> HIDE DEF cleans, n
    <3>2. cleans \in Seq(Entries) /\ Len(cleans) = n
      BY <3>1
    <3> QED BY <3>2 DEF n
  <2>4. \A i \in DOMAIN others : others[i] \in Range(others)
    BY DEF Range
  <2> QED BY <2>3, <2>4
<1> HIDE DEF cleans
<1>15. /\ safe /\ space' = next /\ Queues(cleans, next)
       /\ UNCHANGED <<hydrated, persistenceError, record, reading, ahead, misses, dead>>
  BY <1>1 DEF Sets
<1>16. /\ chain' \in Seq(Entries) /\ HeadFits'
       /\ writing' \in [phase : {"idle", "preparing", "writing"}, space : Workspaces]
       /\ Len(chain') = Len(chain) + Len(cleans)
       /\ \A i \in DOMAIN chain : i \in DOMAIN chain' /\ chain'[i] = chain[i]
       /\ \A i \in DOMAIN chain' :
              i \notin DOMAIN chain => i - Len(chain) \in DOMAIN cleans /\ chain'[i] = cleans[i - Len(chain)]
       /\ chain # <<>> => writing' = writing
       /\ chain = <<>> => writing'.phase # "writing"
  <2>1. cleans # <<>> => cleans[1].op = "clean"
    BY <1>14
  <2> QED BY <1>2, <1>12, <1>14, <1>15, <2>1, QueuesEffect
<1>17. /\ chain \in Seq(Entries) /\ Len(chain) \in Nat /\ DOMAIN chain = 1..Len(chain) /\ DOMAIN chain' = 1..Len(chain')
       /\ Len(cleans) \in Nat
  BY <1>2, <1>14, <1>16, LenProperties DEF StoreTypeOK
<1>18. StoreTypeOK'
  BY <1>2, <1>12, <1>15, <1>16 DEF StoreTypeOK
<1>19. reading \notin {"waiting", "loading"} /\ safe'
  BY <1>2, <1>15 DEF ReadsAlone, safe
<1>20. ReadsAlone'
  BY <1>15, <1>19 DEF ReadsAlone
<1>21. ("frozen" \notin crossed' => "frozen" \notin crossed) /\ ("behind" \notin crossed' => "behind" \notin crossed)
  BY <1>1
<1>22. ASSUME LastStores PROVE LastStores'
  <2>1. CASE others = <<>>
    <3>1. Len(cleans) = 0 /\ \A k \in Kinds : next.list[k] = space.list[k]
      BY <1>8, <1>11, <1>14, <2>1
    <3>2. chain' = chain
      <4>1. Len(chain') = Len(chain)
        BY <1>16, <1>17, <3>1
      <4>2. \A i \in 1..Len(chain) : chain'[i] = chain[i]
        BY <1>16, <1>17
      <4> QED BY <1>16, <1>17, <4>1, <4>2, SeqEqual
    <3>3. \A v : Agree(space, v) => Agree(next, v)
      BY <1>10, <3>1, AgreeSame
    <3>4. ASSUME NEW e \in Entries, e.op = "delete", NEW v, Agree(without(space, e.kind, e.id), v)
          PROVE  Agree(without(next, e.kind, e.id), v)
      <4>1. e.kind \in Kinds /\ e.id \in IdsOf(e.kind)
        BY <3>4 DEF Entries
      <4>2. ASSUME NEW u \in Workspaces
            PROVE  /\ \A l \in Kinds : without(u, e.kind, e.id).list[l]
                         = IF l = e.kind THEN only(u.list[e.kind], Staying(e.kind, e.id)) ELSE u.list[l]
                   /\ \A a \in Marks : without(u, e.kind, e.id)[a] = u[a]
        <5>1. PICK k \in Kinds : k = e.kind
          BY <4>1
        <5>2. PICK x \in IdsOf(k) : x = e.id
          BY <4>1, <5>1
        <5>3. \A a \in Marks : without(u, k, x)[a] = u[a]
          BY WithoutEffect
        <5>4. ASSUME NEW l \in Kinds
              PROVE  without(u, k, x).list[l] = IF l = k THEN only(u.list[k], Staying(k, x)) ELSE u.list[l]
          BY WithoutEffect
        <5> QED BY <5>1, <5>2, <5>3, <5>4
      <4>3. /\ \A l \in Kinds : without(next, e.kind, e.id).list[l] = without(space, e.kind, e.id).list[l]
            /\ \A a \in Marks : without(next, e.kind, e.id)[a] = without(space, e.kind, e.id)[a]
        <5>1. /\ \A l \in Kinds : without(space, e.kind, e.id).list[l]
                     = IF l = e.kind THEN only(space.list[e.kind], Staying(e.kind, e.id)) ELSE space.list[l]
              /\ \A a \in Marks : without(space, e.kind, e.id)[a] = space[a]
          BY <1>2, <4>2
        <5>2. /\ \A l \in Kinds : without(next, e.kind, e.id).list[l]
                     = IF l = e.kind THEN only(next.list[e.kind], Staying(e.kind, e.id)) ELSE next.list[l]
              /\ \A a \in Marks : without(next, e.kind, e.id)[a] = next[a]
          BY <1>12, <4>2
        <5>3. next.list[e.kind] = space.list[e.kind]
          BY <3>1, <4>1
        <5>4. only(next.list[e.kind], Staying(e.kind, e.id)) = only(space.list[e.kind], Staying(e.kind, e.id))
          BY <5>3
        <5>5. ASSUME NEW l \in Kinds
              PROVE  without(next, e.kind, e.id).list[l] = without(space, e.kind, e.id).list[l]
          <6>1. CASE l = e.kind
            BY <5>1, <5>2, <5>4, <6>1
          <6>2. CASE l # e.kind
            BY <3>1, <5>1, <5>2, <6>2
          <6> QED BY <6>1, <6>2
        <5> QED BY <1>10, <5>1, <5>2, <5>5
      <4> QED BY <3>4, <4>3, AgreeSame
    <3>5. chain # <<>> => chain[Len(chain)] \in Entries
      <4>1. chain # <<>> => Len(chain) \in 1..Len(chain)
        BY <1>17, EmptySeq
      <4> QED BY <1>17, <4>1, ElementOfSeq
    <3>6. CASE chain = <<>>
      BY <1>15, <1>22, <3>2, <3>3, <3>6 DEF LastStores
    <3>7. CASE chain # <<>> /\ Len(chain) = 1 /\ writing.phase = "writing"
      <4>1. writing' = writing /\ chain' # <<>>
        BY <1>16, <3>2, <3>7
      <4>2. Agree(IF chain[Len(chain)].op = "delete"
                  THEN without(space, chain[Len(chain)].kind, chain[Len(chain)].id) ELSE space, writing.space)
        BY <1>22, <3>7 DEF LastStores
      <4>3. Agree(IF chain[Len(chain)].op = "delete"
                  THEN without(next, chain[Len(chain)].kind, chain[Len(chain)].id) ELSE next, writing.space)
        BY <3>3, <3>4, <3>5, <3>7, <4>2
      <4> QED BY <1>15, <3>2, <3>7, <4>1, <4>3 DEF LastStores
    <3>8. CASE chain # <<>> /\ ~(Len(chain) = 1 /\ writing.phase = "writing")
      <4>1. writing' = writing
        BY <1>16, <3>8
      <4> QED BY <1>15, <1>22, <3>2, <3>3, <3>8, <4>1 DEF LastStores
    <3> QED BY <3>6, <3>7, <3>8
  <2>2. CASE others # <<>>
    <3>1. Len(cleans) # 0
      BY <1>5, <1>14, <2>2, EmptySeq
    <3>2. Len(chain') \in DOMAIN chain' /\ Len(chain') \notin DOMAIN chain /\ Len(chain') # 0
      BY <1>16, <1>17, <3>1
    <3>3. chain'[Len(chain')].op = "clean" /\ chain'[Len(chain')].next = next
      BY <1>14, <1>16, <3>2
    <3>4. Len(chain') = 1 => chain = <<>>
      <4>1. Len(chain') = 1 => Len(chain) = 0
        BY <1>16, <1>17, <3>1
      <4> QED BY <1>17, <4>1, EmptySeq
    <3>5. Agree(next, next)
      BY <1>12, AgreeSelf
    <3>6. chain' # <<>>
      BY <3>2
    <3> QED BY <1>15, <1>16, <3>3, <3>4, <3>5, <3>6 DEF LastStores
  <2> QED BY <2>1, <2>2
<1>23. ASSUME NoReturn, "behind" \notin crossed' PROVE NoReturn'
  <2>1. NoneOf(record.space, dead)' /\ NoneOf(space, dead)'
    BY <1>13, <1>15, <1>23 DEF NoReturn, NoneOf
  <2>2. writing'.phase = "writing" => chain # <<>> /\ writing' = writing /\ chain'[1] = chain[1]
    <3>1. chain # <<>> => 1 \in DOMAIN chain
      BY <1>17, EmptySeq
    <3> QED BY <1>16, <3>1
  <2>3. \A i \in DOMAIN chain' : i \notin DOMAIN chain =>
           /\ chain'[i].op = "clean" /\ chain'[i].next = next /\ chain'[i].id \in Range(others)
    BY <1>14, <1>16
  <2>4. ASSUME NEW i \in DOMAIN chain', chain'[i].op = "clean"
        PROVE  /\ NoneOf(chain'[i].next, dead') /\ ~Lists(space', chain'[i].id)
               /\ \A j \in 1..i : chain'[j].op # "delete"
                                  /\ (chain'[j].op = "clean" => ~Lists(chain'[i].next, chain'[j].id))
    <3>1. CASE i \in DOMAIN chain
      <4>1. chain'[i] = chain[i] /\ \A j \in 1..i : j \in DOMAIN chain /\ chain'[j] = chain[j]
        <5>1. \A j \in 1..i : j \in DOMAIN chain
          BY <1>17, <3>1
        <5>2. \A j \in DOMAIN chain : chain'[j] = chain[j]
          BY <1>16
        <5> QED BY <3>1, <5>1, <5>2
      <4>2. /\ NoneOf(chain[i].next, dead) /\ ~Lists(space, chain[i].id)
            /\ \A j \in 1..i : chain[j].op # "delete"
                               /\ (chain[j].op = "clean" => ~Lists(chain[i].next, chain[j].id))
        BY <1>23, <2>4, <3>1, <4>1 DEF NoReturn
      <4> QED BY <1>13, <1>15, <4>1, <4>2
    <3>2. CASE i \notin DOMAIN chain
      <4>1. chain'[i].next = next /\ chain'[i].id \in Range(others) /\ ~Lists(next, chain'[i].id)
        BY <1>13, <2>3, <3>2
      <4>2. others # <<>>
        BY <4>1 DEF Range
      <4>3. \A o \in Range(chain) : o.op # "delete"
        BY <1>1, <1>23, <4>2
      <4>4. ASSUME NEW j \in 1..i
            PROVE  chain'[j].op # "delete" /\ (chain'[j].op = "clean" => ~Lists(next, chain'[j].id))
        <5>1. j \in DOMAIN chain'
          BY <1>17
        <5>2. CASE j \in DOMAIN chain
          <6>1. chain'[j] = chain[j] /\ chain[j] \in Range(chain)
            BY <1>16, <5>2 DEF Range
          <6>2. chain[j].op = "clean" => ~Lists(space, chain[j].id)
            BY <1>23, <5>2 DEF NoReturn
          <6> QED BY <1>13, <4>3, <6>1, <6>2
        <5>3. CASE j \notin DOMAIN chain
          BY <1>13, <2>3, <5>1, <5>3
        <5> QED BY <5>2, <5>3
      <4>5. NoneOf(next, dead')
        BY <1>15, <2>1
      <4> QED BY <1>15, <4>1, <4>4, <4>5
    <3> QED BY <3>1, <3>2
  <2> QED BY <1>15, <1>19, <1>23, <2>1, <2>2, <2>4 DEF NoReturn, NoneOf
<1> QED BY <1>15, <1>18, <1>20, <1>21, <1>22, <1>23 DEF StoreInv

LEMMA InitialIsWorkspace ==
  ASSUME fresh("session") # {}, fresh("container") # {}
  PROVE  Initial \in Workspaces /\ \A y : Lists(Initial, y) => y \notin dead
<1>1. PICK s \in fresh("session"), c \in fresh("container") :
        Initial = added(added(Nothing, "session", s), "container", c)
  <2> DEFINE s == CHOOSE x \in fresh("session") : TRUE
             c == CHOOSE x \in fresh("container") : TRUE
  <2>1. s \in fresh("session") /\ c \in fresh("container")
    OBVIOUS
  <2> QED BY <2>1 DEF Initial
<1>2. /\ s \in IdsOf("session") /\ c \in IdsOf("container") /\ s \notin dead /\ c \notin dead
      /\ "session" \in Kinds /\ "container" \in Kinds
  BY <1>1 DEF fresh, used, Kinds
<1> DEFINE w == added(Nothing, "session", s)
<1>3. w \in Workspaces /\ \A y : Lists(w, y) => y = s
  BY <1>2, NothingIsWorkspace, AddedEffect
<1> HIDE DEF w
<1>4. added(w, "container", c) \in Workspaces /\ \A y : Lists(added(w, "container", c), y) => y = c \/ Lists(w, y)
  BY <1>2, <1>3, AddedEffect
<1> QED BY <1>1, <1>2, <1>3, <1>4 DEF w

LEMMA ReloadKeeps == StoreInv /\ Reload => StoreInv'
<1> SUFFICES ASSUME StoreInv, Reload PROVE StoreInv'
  OBVIOUS
<1>1. StoreTypeOK' /\ ReadsAlone'
  <2>1. chain \in Seq(Entries) /\ Len(chain) \in Nat
    BY LenProperties DEF StoreInv, StoreTypeOK
  <2> QED BY <2>1 DEF StoreInv, StoreTypeOK, ReadsAlone, Reload, HeadFits
<1>2. LastStores => LastStores'
  BY DEF LastStores, Reload
<1>3. NoReturn => NoReturn'
  BY DEF NoReturn, Reload, safe
<1> QED BY <1>1, <1>2, <1>3 DEF StoreInv, Reload, safe

LEMMA ReloadReadsKeeps == StoreInv /\ ReloadReads => StoreInv'
<1> SUFFICES ASSUME StoreInv, ReloadReads PROVE StoreInv'
  OBVIOUS
<1>1. StoreTypeOK'
  BY DEF StoreInv, StoreTypeOK, ReloadReads, HeadFits
<1>2. ReadsAlone'
  <2>1. Len(chain) = ahead => chain = <<>>
    BY EmptySeq DEF StoreInv, StoreTypeOK, ReloadReads
  <2> QED BY <2>1 DEF StoreInv, ReadsAlone, ReloadReads
<1>3. ~safe /\ ~safe'
  BY DEF StoreInv, ReadsAlone, ReloadReads, safe
<1>4. NoReturn => NoReturn'
  BY <1>3 DEF NoReturn, ReloadReads
<1> QED BY <1>1, <1>2, <1>3, <1>4 DEF StoreInv, ReloadReads

LEMMA LoadFailsKeeps == StoreInv /\ LoadFails => StoreInv'
<1> SUFFICES ASSUME StoreInv, LoadFails PROVE StoreInv'
  OBVIOUS
<1>1. StoreTypeOK' /\ misses' # 0
  <2>1. misses \in Nat /\ misses' = misses + 1
    BY DEF StoreInv, StoreTypeOK, LoadFails
  <2>2. misses' \in Nat /\ misses' # 0
    BY <2>1
  <2>3. StoreTypeOK'
    BY <2>2 DEF StoreInv, StoreTypeOK, LoadFails, HeadFits
  <2> QED BY <2>2, <2>3
<1>2. ReadsAlone'
  BY DEF StoreInv, ReadsAlone, LoadFails
<1>3. ~safe'
  BY DEF LoadFails, safe
<1> QED BY <1>1, <1>2, <1>3 DEF StoreInv

LEMMA LoadedKeeps == StoreInv /\ Loaded => StoreInv'
<1> SUFFICES ASSUME StoreInv, Loaded PROVE StoreInv'
  OBVIOUS
<1>1. /\ StoreTypeOK /\ ReadsAlone /\ ~safe /\ reading' = "none"
      /\ "frozen" \notin crossed => chain = <<>>
      /\ UNCHANGED <<record, ahead, misses, dead, crossed>>
  BY DEF StoreInv, ReadsAlone, Loaded, safe
<1>2. ReadsAlone'
  BY <1>1 DEF ReadsAlone
<1>3. ASSUME "behind" \notin crossed, misses = 0
      PROVE  space = Nothing /\ chain = <<>> /\ NoneOf(record.space, dead) /\ NoneOf(space, dead)
             /\ writing.phase = "idle"
  BY <1>1, <1>3 DEF StoreInv, NoReturn, StoreTypeOK, HeadFits
<1>4. CASE record.state = "damaged"
  <2>1. hydrated' = FALSE /\ persistenceError' = TRUE /\ UNCHANGED <<space, chain, writing>>
    BY <1>4 DEF Loaded
  <2>2. StoreTypeOK' /\ ~safe'
    BY <1>1, <2>1 DEF StoreTypeOK, HeadFits, safe
  <2>3. ASSUME "behind" \notin crossed, misses = 0 PROVE NoReturn'
    BY <1>1, <1>3, <2>1, <2>3, EmptySeq DEF NoReturn, NoneOf
  <2> QED BY <1>1, <1>2, <2>2, <2>3 DEF StoreInv
<1>5. CASE record.state = "valid"
  <2>1. hydrated' = TRUE /\ persistenceError' = FALSE /\ space' = record.space /\ UNCHANGED <<chain, writing>>
    BY <1>5 DEF Loaded
  <2>2. StoreTypeOK' /\ safe'
    BY <1>1, <2>1 DEF StoreTypeOK, HeadFits, safe
  <2>3. Agree(record.space, record.space)
    <3>1. record.space \in Workspaces
      BY <1>1 DEF StoreTypeOK
    <3> QED BY <3>1, AgreeSelf
  <2>4. ASSUME "frozen" \notin crossed PROVE LastStores'
    BY <1>1, <1>5, <2>1, <2>3, <2>4 DEF LastStores
  <2>5. ASSUME "behind" \notin crossed, misses = 0 PROVE NoReturn'
    BY <1>1, <1>3, <2>1, <2>2, <2>5, EmptySeq DEF NoReturn, NoneOf
  <2> QED BY <1>1, <1>2, <2>2, <2>4, <2>5 DEF StoreInv
<1>6. CASE record.state = "none"
  <2>1. /\ hydrated' = TRUE /\ persistenceError' = FALSE /\ fresh("session") # {} /\ fresh("container") # {}
        /\ space' = Initial /\ Queues(<<Save>>, Initial)
    BY <1>6 DEF Loaded
  <2>2. Initial \in Workspaces /\ \A y : Lists(Initial, y) => y \notin dead
    BY <2>1, InitialIsWorkspace
  <2>3. /\ chain' \in Seq(Entries) /\ HeadFits'
        /\ writing' \in [phase : {"idle", "preparing", "writing"}, space : Workspaces]
        /\ Len(chain') = Len(chain) + 1
        /\ \A i \in DOMAIN chain' : i \notin DOMAIN chain => chain'[i] = Save
        /\ chain = <<>> => writing'.phase = "writing" /\ writing'.space = Initial
    <3>1. \A o \in Seq(Entries) : Queues(o, Initial) =>
             /\ chain' \in Seq(Entries) /\ HeadFits'
             /\ writing' \in [phase : {"idle", "preparing", "writing"}, space : Workspaces]
             /\ Len(chain') = Len(chain) + Len(o)
             /\ \A i \in DOMAIN chain' :
                  i \notin DOMAIN chain => i - Len(chain) \in DOMAIN o /\ chain'[i] = o[i - Len(chain)]
             /\ chain = <<>> /\ o # <<>> =>
                  IF o[1].op = "save" THEN writing'.phase = "writing" /\ writing'.space = Initial
                  ELSE writing'.phase = "preparing"
      BY <1>1, <2>2, QueuesEffect
    <3> HIDE DEF Save
    <3> QED BY <2>1, <3>1, SaveIsEntry
  <2>4. StoreTypeOK' /\ safe'
    BY <1>1, <2>1, <2>2, <2>3 DEF StoreTypeOK, safe
  <2>5. chain = <<>> => chain' # <<>> /\ Len(chain') = 1 /\ DOMAIN chain' = {1} /\ chain'[1].op = "save"
    <3> SUFFICES ASSUME chain = <<>> PROVE chain' # <<>> /\ Len(chain') = 1 /\ DOMAIN chain' = {1} /\ chain'[1].op = "save"
      OBVIOUS
    <3>1. Len(chain) = 0 /\ DOMAIN chain = {} /\ Len(chain') = 1 /\ DOMAIN chain' = 1..Len(chain')
      BY <2>3, LenProperties
    <3> QED BY <2>3, <3>1, SaveIsEntry
  <2>6. ASSUME "frozen" \notin crossed PROVE LastStores'
    <3>1. Agree(Initial, Initial)
      BY <2>2, AgreeSelf
    <3> QED BY <1>1, <2>1, <2>3, <2>5, <2>6, <3>1 DEF LastStores
  <2>7. ASSUME "behind" \notin crossed, misses = 0 PROVE NoReturn'
    <3>1. chain = <<>> /\ NoneOf(Initial, dead)
      BY <1>3, <2>2, <2>7 DEF NoneOf
    <3>2. /\ writing'.space = Initial /\ chain'[1].op = "save"
          /\ \A i \in DOMAIN chain' : chain'[i].op = "save"
      BY <2>3, <2>5, <3>1
    <3> QED BY <1>1, <1>3, <2>1, <2>4, <2>7, <3>1, <3>2 DEF NoReturn, NoneOf
  <2> QED BY <1>1, <1>2, <2>4, <2>6, <2>7 DEF StoreInv
<1> QED BY <1>1, <1>4, <1>5, <1>6 DEF StoreTypeOK

LEMMA StoreStutters == StoreInv /\ UNCHANGED storeVars => StoreInv'
<1> SUFFICES ASSUME StoreInv, UNCHANGED storeVars PROVE StoreInv'
  OBVIOUS
<1>1. StoreTypeOK' /\ ReadsAlone'
  BY DEF StoreInv, storeVars, StoreTypeOK, ReadsAlone, HeadFits
<1>2. (LastStores => LastStores') /\ (NoReturn => NoReturn')
  BY DEF storeVars, LastStores, NoReturn, safe
<1> QED BY <1>1, <1>2 DEF StoreInv, storeVars, safe

LEMMA StepKeepsStoreInv == StoreInv /\ [StoreNext]_storeVars => StoreInv'
<1> SUFFICES ASSUME StoreInv, [StoreNext]_storeVars PROVE StoreInv'
  OBVIOUS
<1>1. ASSUME SessionEdits PROVE StoreInv'
  BY <1>1, UpdateStatusKeeps, RenameKeeps, ReuseKeeps DEF SessionEdits
<1>2. ASSUME ItemEdits PROVE StoreInv'
  BY <1>2, CreateKeeps, PinKeeps, SelectKeeps, DeleteKeeps DEF ItemEdits
<1>3. ASSUME Writes PROVE StoreInv'
  BY <1>3, PreparedKeeps, WrittenKeeps, NotWrittenKeeps DEF Writes
<1>4. ASSUME Reads PROVE StoreInv'
  BY <1>4, ReloadKeeps, ReloadReadsKeeps, LoadedKeeps, LoadFailsKeeps DEF Reads
<1> QED BY <1>1, <1>2, <1>3, <1>4, StoreStutters DEF StoreNext

LEMMA StoreInvIsSound == StoreInv => StoreSound
<1> SUFFICES ASSUME StoreInv PROVE StoreSound
  OBVIOUS
<1>1. NothingLost
  BY DEF StoreInv, NothingLost, AtRest, LastStores, Agree, Marks
<1>2. ActiveIsListed
  <2>1. space \in Workspaces /\ record.space \in Workspaces
    BY DEF StoreInv, StoreTypeOK
  <2> QED BY <2>1, ListsAreTyped DEF ActiveIsListed, listedIn
<1>3. DeletedStaysDeleted
  BY DEF StoreInv, NoReturn, NoneOf, Lists, DeletedStaysDeleted
<1> QED BY <1>1, <1>2, <1>3 DEF StoreSound

\* The stored workspace is the one the user left, whatever was queued behind
\* what, failed to be written or was reloaded: at rest it is what the memory
\* holds, the active item is listed, and nothing deleted is in it, but for the
\* ways back named in WorkspaceStore. (store.ts, sessionStore.ts)
THEOREM StoreIsSound == StoreSpec => []StoreSound
<1>1. StoreInit => StoreInv
  BY InitStoreInv
<1>2. StoreInv /\ [StoreNext]_storeVars => StoreInv'
  BY StepKeepsStoreInv
<1>3. StoreInv => StoreSound
  BY StoreInvIsSound
<1> QED BY <1>1, <1>2, <1>3, PTL DEF StoreSpec

-----------------------------------------------------------------------------
(***************************************************************************)
(* The context of the model.                                               *)
(***************************************************************************)
Message == [kind : {"prompt", "call", "answer", "result", "guide", "summary"},
            of : SUBSET Nat, image : BOOLEAN, to : Nat]
Entry == [message : Message, tail : Seq(Message)]

\* What the entries hold: their messages, and the tails retained with summaries.
Stored(es) == {m \in Message : \E i \in DOMAIN es : m = es[i].message \/ m \in Range(es[i].tail)}

\* A message for the session that is not among the numbers of N.
Fits(m, N) == m.kind \notin {"result", "guide"} /\ m.of \cap N = {}
Kept(N) == {m \in Message : Fits(m, N)}

ContextTypeOK ==
  /\ agentMessages \in Seq(Message) /\ landing \in Seq(Message) /\ guidance \in Seq(Message)
  /\ entries \in Seq(Entry) /\ read \in Seq(Entry)
  /\ stage \in {"idle", "before", "summing", "storing", "asking", "tools", "turning",
                "summingTurn", "ending"}
  /\ made \in Nat /\ upsets \in Nat
  /\ unlanded \in SUBSET (0..made)

\* Every number is given once: what is written, what is on its way and what
\* was lost have no message in common.
Apart ==
  /\ \A m \in Stored(entries) :
       Fits(m, unlanded) /\ Fits(m, Covered(landing)) /\ m.of \subseteq 0..made
  /\ \A i \in DOMAIN landing :
       /\ Fits(landing[i], unlanded) /\ landing[i].kind # "summary"
       /\ landing[i].of # {} /\ landing[i].of \subseteq 0..made
       /\ \A j \in DOMAIN landing : j # i => landing[i].of \cap landing[j].of = {}
  /\ \A i \in DOMAIN guidance : guidance[i].kind = "guide"

\* The agent of a run that asks follows the session; before the first request
\* it holds what the session does, and a compaction works on what is stored.
AgentFollows ==
  /\ InRun => only(agentMessages, Kept(unlanded)) = contextOf(entries) \o landing
  /\ stage \in {"idle", "before", "summing", "storing", "summingTurn"} => landing = <<>>
  /\ stage \in {"before", "summing", "storing"} => agentMessages = contextOf(entries)
  /\ stage \in {"summing", "summingTurn"} => read = entries
  /\ stage = "tools" => agentMessages # <<>> /\ Last(agentMessages).of # {}

\* A summary stands for what it replaced.
Remembered(es) == \A i \in DOMAIN es : es[i].message.of \subseteq Covered(contextOf(es))
Remembers == Remembered(entries)

ContextInv == ContextTypeOK /\ Apart /\ AgentFollows /\ Remembers

-----------------------------------------------------------------------------
(* The context of a session. *)

LEMMA GreatestNumber ==
  ASSUME NEW n \in Nat, NEW T, T \subseteq 0..n, T # {}
  PROVE  Max(T) \in T /\ \A j \in T : Max(T) >= j
<1> DEFINE U == {k \in Nat : \A j \in T : j <= k}
<1>1. PICK k \in U : \A y \in U : k <= y
  <2>1. n \in U
    <3>1. \A j \in T : j \in 0..n
      OBVIOUS
    <3> QED BY <3>1
  <2> HIDE DEF U
  <2>2. U \subseteq Nat
    BY DEF U
  <2> QED BY <2>1, <2>2, LeastNumber
<1>2. k \in T
  <2> SUFFICES ASSUME k \notin T PROVE FALSE
    OBVIOUS
  <2>1. PICK j \in T : TRUE
    OBVIOUS
  <2>4. j \in 0..n
    OBVIOUS
  <2>2. k # 0 /\ k - 1 \in Nat
    <3>1. j <= k /\ j # k /\ k \in Nat
      BY <1>1
    <3> QED BY <2>4, <3>1
  <2>3. k - 1 \in U
    BY <1>1, <2>2
  <2> QED BY <1>1, <2>2, <2>3
<1>3. \E c \in T : \A j \in T : c >= j
  BY <1>1, <1>2
<1> QED BY <1>3 DEF Max

\* What follows a place of a sequence.
LEMMA Behind ==
  ASSUME NEW S, NEW s \in Seq(S), NEW c \in 0..Len(s)
  PROVE  /\ SubSeq(s, c + 1, Len(s)) \in Seq(S) /\ Len(SubSeq(s, c + 1, Len(s))) = Len(s) - c
         /\ \A i \in 1..(Len(s) - c) : c + i \in 1..Len(s) /\ SubSeq(s, c + 1, Len(s))[i] = s[c + i]
<1> DEFINE n == Len(s)
           t == SubSeq(s, c + 1, n)
<1>1. n \in Nat /\ c \in Nat /\ c <= n /\ \A i \in 1..n : s[i] \in S
  BY LenProperties, ElementOfSeq
<1>2. \A i \in (c + 1)..n : s[i] \in S
  BY <1>1
<1>3. /\ t \in Seq(S) /\ Len(t) = IF c + 1 <= n THEN n - (c + 1) + 1 ELSE 0
      /\ \A i \in 1..(n - (c + 1) + 1) : t[i] = s[(c + 1) + i - 1]
  BY <1>1, <1>2, SubSeqProperties
<1> HIDE DEF n, t
<1>4. Len(t) = n - c
  BY <1>1, <1>3
<1>5. ASSUME NEW i \in 1..(n - c) PROVE c + i \in 1..n /\ t[i] = s[c + i]
  <2>1. i \in 1..(n - (c + 1) + 1) /\ (c + 1) + i - 1 = c + i /\ c + i \in 1..n
    BY <1>1
  <2> QED BY <1>3, <2>1
<1> QED BY <1>3, <1>4, <1>5 DEF n, t

LEMMA CoveredIs ==
  ASSUME NEW ms, NEW n
  PROVE  n \in Covered(ms) <=> \E i \in DOMAIN ms : n \in ms[i].of
BY DEF Covered

LEMMA MessagesAreTyped ==
  ASSUME NEW es \in Seq(Entry)
  PROVE  /\ messagesOf(es) \in Seq(Message) /\ Len(messagesOf(es)) = Len(es)
         /\ \A i \in DOMAIN es : messagesOf(es)[i] = es[i].message
<1>0. DOMAIN es = 1..Len(es) /\ Len(es) \in Nat /\ \A i \in DOMAIN es : es[i] \in Entry
  BY LenProperties, ElementOfSeq
<1>1. \A i \in DOMAIN es : es[i].message \in Message
  BY <1>0 DEF Entry
<1> DEFINE n == Len(es)
           ms == messagesOf(es)
<1>2. ms \in [1..n -> Message] /\ n \in Nat /\ \A i \in DOMAIN es : ms[i] = es[i].message
  BY <1>0, <1>1 DEF messagesOf
<1> HIDE DEF n, ms
<1>3. ms \in Seq(Message) /\ Len(ms) = n
  BY <1>2
<1> QED BY <1>2, <1>3 DEF n, ms

LEMMA MessagesOfAppend ==
  ASSUME NEW es \in Seq(Entry), NEW e \in Entry
  PROVE  messagesOf(Append(es, e)) = Append(messagesOf(es), e.message)
<1> DEFINE fs == Append(es, e)
           ms == messagesOf(es)
           ns == messagesOf(fs)
<1>1. /\ fs \in Seq(Entry) /\ Len(fs) = Len(es) + 1 /\ DOMAIN fs = 1..Len(fs) /\ DOMAIN es = 1..Len(es)
      /\ Len(es) \in Nat /\ fs[Len(es) + 1] = e /\ \A i \in 1..Len(es) : fs[i] = es[i]
      /\ e.message \in Message
  BY AppendProperties, LenProperties DEF Entry
<1> HIDE DEF fs
<1>2. /\ ms \in Seq(Message) /\ Len(ms) = Len(es) /\ \A i \in DOMAIN es : ms[i] = es[i].message
      /\ ns \in Seq(Message) /\ Len(ns) = Len(fs) /\ \A i \in DOMAIN fs : ns[i] = fs[i].message
  BY <1>1, MessagesAreTyped
<1> HIDE DEF ms, ns
<1>3. /\ Append(ms, e.message) \in Seq(Message) /\ Len(Append(ms, e.message)) = Len(ms) + 1
      /\ Append(ms, e.message)[Len(ms) + 1] = e.message /\ \A i \in 1..Len(ms) : Append(ms, e.message)[i] = ms[i]
  BY <1>1, <1>2, AppendProperties
<1>4. \A i \in 1..Len(ns) : ns[i] = Append(ms, e.message)[i]
  BY <1>1, <1>2, <1>3
<1>5. ns = Append(ms, e.message)
  BY <1>1, <1>2, <1>3, <1>4, SeqEqual
<1> QED BY <1>5 DEF fs, ms, ns

\* The numbers of the summaries.
Summaries(es) == {i \in DOMAIN es : es[i].message.kind = "summary"}

LEMMA ContextBySummary ==
  ASSUME NEW es \in Seq(Entry)
  PROVE  /\ Summaries(es) = {} => contextOf(es) = messagesOf(es)
         /\ Summaries(es) # {} =>
              LET c == Max(Summaries(es)) IN
              /\ c \in 1..Len(es) /\ c \in Summaries(es) /\ \A j \in Summaries(es) : c >= j
              /\ contextOf(es) = <<es[c].message>> \o es[c].tail \o messagesOf(SubSeq(es, c + 1, Len(es)))
<1>1. Summaries(es) \subseteq 1..Len(es) /\ Len(es) \in Nat
  BY LenProperties DEF Summaries
<1>2. Summaries(es) # {} => Max(Summaries(es)) \in Summaries(es) /\ \A j \in Summaries(es) : Max(Summaries(es)) >= j
  BY <1>1, GreatestNumber
<1> QED BY <1>1, <1>2 DEF contextOf, Summaries

LEMMA ContextIsTyped ==
  ASSUME NEW es \in Seq(Entry)
  PROVE  contextOf(es) \in Seq(Message) /\ Range(contextOf(es)) \subseteq Stored(es)
<1>0. DOMAIN es = 1..Len(es) /\ Len(es) \in Nat /\ \A i \in DOMAIN es : es[i] \in Entry
  BY LenProperties, ElementOfSeq
<1>1. ASSUME NEW fs \in Seq(Entry), \A i \in DOMAIN fs : \E j \in DOMAIN es : fs[i] = es[j]
      PROVE  messagesOf(fs) \in Seq(Message) /\ Range(messagesOf(fs)) \subseteq Stored(es)
  <2>1. /\ messagesOf(fs) \in Seq(Message) /\ Len(messagesOf(fs)) = Len(fs)
        /\ \A i \in DOMAIN fs : messagesOf(fs)[i] = fs[i].message
    BY MessagesAreTyped
  <2>2. DOMAIN messagesOf(fs) = DOMAIN fs
    BY <2>1, LenProperties
  <2>3. ASSUME NEW m \in Range(messagesOf(fs)) PROVE m \in Stored(es)
    <3>1. PICK i \in DOMAIN fs : m = fs[i].message
      BY <2>1, <2>2, <2>3 DEF Range
    <3>2. PICK j \in DOMAIN es : m = es[j].message
      BY <1>1, <3>1
    <3>3. m \in Message
      BY <1>0, <3>2 DEF Entry
    <3> QED BY <3>2, <3>3 DEF Stored
  <2> QED BY <2>1, <2>3
<1>2. CASE Summaries(es) = {}
  BY <1>1, <1>2, ContextBySummary
<1>3. CASE Summaries(es) # {}
  <2> DEFINE c == Max(Summaries(es))
             newer == SubSeq(es, c + 1, Len(es))
             first == <<es[c].message>>
  <2>1. c \in 1..Len(es) /\ contextOf(es) = first \o es[c].tail \o messagesOf(newer)
    BY <1>3, ContextBySummary
  <2> HIDE DEF c
  <2>2. es[c] \in Entry /\ es[c].message \in Message /\ es[c].tail \in Seq(Message) /\ c \in DOMAIN es
    BY <1>0, <2>1 DEF Entry
  <2>3. first \in Seq(Message) /\ Range(first) = {es[c].message}
    BY <2>2 DEF Range
  <2>4. newer \in Seq(Entry) /\ \A i \in DOMAIN newer : \E j \in DOMAIN es : newer[i] = es[j]
    <3>1. /\ newer \in Seq(Entry) /\ Len(newer) = Len(es) - c
          /\ \A i \in 1..(Len(es) - c) : c + i \in 1..Len(es) /\ newer[i] = es[c + i]
      <4>1. c \in 0..Len(es)
        BY <1>0, <2>1
      <4> QED BY <4>1, Behind
    <3>2. DOMAIN newer = 1..Len(newer)
      BY <3>1, LenProperties
    <3> HIDE DEF newer
    <3> QED BY <1>0, <3>1, <3>2
  <2> HIDE DEF newer, first
  <2>5. messagesOf(newer) \in Seq(Message) /\ Range(messagesOf(newer)) \subseteq Stored(es)
    BY <1>1, <2>4
  <2>6. Range(es[c].tail) \subseteq Stored(es) /\ es[c].message \in Stored(es)
    BY <2>2, RangeOfSeq DEF Stored
  <2>7. first \o es[c].tail \in Seq(Message) /\ Range(first \o es[c].tail) = Range(first) \cup Range(es[c].tail)
    BY <2>2, <2>3, RangeConcatenation
  <2>8. contextOf(es) \in Seq(Message)
        /\ Range(contextOf(es)) = Range(first \o es[c].tail) \cup Range(messagesOf(newer))
    <3> DEFINE lead == first \o es[c].tail
    <3>1. lead \in Seq(Message)
      BY <2>7
    <3> HIDE DEF lead
    <3>2. lead \o messagesOf(newer) \in Seq(Message)
          /\ Range(lead \o messagesOf(newer)) = Range(lead) \cup Range(messagesOf(newer))
      BY <2>5, <3>1, RangeConcatenation
    <3> QED BY <2>1, <3>2 DEF lead
  <2> QED BY <2>3, <2>5, <2>6, <2>7, <2>8
<1> QED BY <1>2, <1>3

LEMMA ContextOfNothing == contextOf(<<>>) = <<>>
<1>1. <<>> \in Seq(Entry) /\ Summaries(<<>>) = {} /\ messagesOf(<<>>) = <<>>
  BY DEF Summaries, messagesOf
<1> QED BY <1>1, ContextBySummary

\* A message comes behind the context.
LEMMA ContextOfMessage ==
  ASSUME NEW es \in Seq(Entry), NEW e \in Entry, e.message.kind # "summary"
  PROVE  contextOf(Append(es, e)) = Append(contextOf(es), e.message)
<1> DEFINE fs == Append(es, e)
<1>1. /\ fs \in Seq(Entry) /\ Len(fs) = Len(es) + 1 /\ DOMAIN fs = 1..Len(fs) /\ DOMAIN es = 1..Len(es)
      /\ Len(es) \in Nat /\ fs[Len(es) + 1] = e /\ \A i \in 1..Len(es) : fs[i] = es[i]
      /\ \A i \in 1..Len(es) : es[i] \in Entry
  BY AppendProperties, LenProperties, ElementOfSeq
<1>0. e.message \in Message /\ messagesOf(fs) = Append(messagesOf(es), e.message)
  BY MessagesOfAppend DEF Entry
<1> HIDE DEF fs
<1>2. Summaries(fs) = Summaries(es)
  BY <1>1 DEF Summaries
<1>3. CASE Summaries(es) = {}
  BY <1>0, <1>1, <1>2, <1>3, ContextBySummary DEF fs
<1>4. CASE Summaries(es) # {}
  <2> DEFINE c == Max(Summaries(es))
             newer == SubSeq(es, c + 1, Len(es))
             later == SubSeq(fs, c + 1, Len(fs))
             first == <<es[c].message>> \o es[c].tail
  <2>1. c \in 1..Len(es) /\ contextOf(es) = first \o messagesOf(newer)
    BY <1>4, ContextBySummary
  <2>2. contextOf(fs) = <<fs[c].message>> \o fs[c].tail \o messagesOf(later)
    BY <1>1, <1>2, <1>4, ContextBySummary
  <2> HIDE DEF c
  <2>3. contextOf(fs) = first \o messagesOf(later)
    BY <1>1, <2>1, <2>2
  <2>4. first \in Seq(Message)
    <3>1. es[c].message \in Message /\ es[c].tail \in Seq(Message)
      BY <1>1, <2>1 DEF Entry
    <3> QED BY <3>1
  <2> HIDE DEF first
  <2>5. newer \in Seq(Entry) /\ later = Append(newer, e)
    <3>1. /\ newer \in Seq(Entry) /\ Len(newer) = Len(es) - c
          /\ \A i \in 1..(Len(es) - c) : c + i \in 1..Len(es) /\ newer[i] = es[c + i]
      <4>1. c \in 0..Len(es)
        BY <1>1, <2>1
      <4> QED BY <4>1, Behind
    <3>2. /\ later \in Seq(Entry) /\ Len(later) = Len(fs) - c
          /\ \A i \in 1..(Len(fs) - c) : c + i \in 1..Len(fs) /\ later[i] = fs[c + i]
      <4>1. c \in 0..Len(fs)
        BY <1>1, <2>1
      <4> QED BY <1>1, <4>1, Behind
    <3> HIDE DEF newer, later
    <3>3. Len(newer) \in Nat /\ Len(later) = Len(newer) + 1 /\ c \in Nat /\ c + Len(later) = Len(es) + 1
      BY <1>1, <2>1, <3>1, <3>2
    <3>4. /\ Append(newer, e) \in Seq(Entry) /\ Len(Append(newer, e)) = Len(newer) + 1
          /\ Append(newer, e)[Len(newer) + 1] = e /\ \A i \in 1..Len(newer) : Append(newer, e)[i] = newer[i]
      BY <3>1, AppendProperties
    <3>5. ASSUME NEW i \in 1..Len(later) PROVE later[i] = Append(newer, e)[i]
      <4>1. later[i] = fs[c + i]
        BY <3>2
      <4>2. CASE i \in 1..Len(newer)
        <5>1. newer[i] = es[c + i] /\ c + i \in 1..Len(es)
          BY <3>1, <4>2
        <5> QED BY <1>1, <3>4, <4>1, <4>2, <5>1
      <4>3. CASE i \notin 1..Len(newer)
        <5>1. i = Len(newer) + 1
          BY <3>3, <4>3
        <5>2. c + i = Len(es) + 1
          BY <3>3, <5>1
        <5> QED BY <1>1, <3>4, <4>1, <5>1, <5>2
      <4> QED BY <4>2, <4>3
    <3>6. later = Append(newer, e)
      BY <3>2, <3>3, <3>4, <3>5, SeqEqual
    <3> QED BY <3>1, <3>6
  <2> HIDE DEF newer, later
  <2>6. messagesOf(later) = Append(messagesOf(newer), e.message) /\ messagesOf(newer) \in Seq(Message)
    BY <2>5, MessagesOfAppend, MessagesAreTyped
  <2>7. first \o Append(messagesOf(newer), e.message) = Append(first \o messagesOf(newer), e.message)
    BY <1>0, <2>4, <2>6, ConcatAppend
  <2> QED BY <2>1, <2>3, <2>6, <2>7 DEF fs
<1> QED BY <1>3, <1>4

\* A summary takes its place, with the tail retained.
LEMMA ContextOfSummary ==
  ASSUME NEW es \in Seq(Entry), NEW e \in Entry, e.message.kind = "summary"
  PROVE  contextOf(Append(es, e)) = <<e.message>> \o e.tail
<1> DEFINE fs == Append(es, e)
           c == Max(Summaries(fs))
           newer == SubSeq(fs, c + 1, Len(fs))
           first == <<e.message>> \o e.tail
<1>1. /\ fs \in Seq(Entry) /\ Len(fs) = Len(es) + 1 /\ DOMAIN fs = 1..Len(fs)
      /\ Len(es) \in Nat /\ fs[Len(fs)] = e
  BY AppendProperties, LenProperties
<1> HIDE DEF fs
<1>2. Len(fs) \in Summaries(fs)
  BY <1>1 DEF Summaries
<1>3. c = Len(fs) /\ contextOf(fs) = <<fs[c].message>> \o fs[c].tail \o messagesOf(newer)
  <2>1. c \in 1..Len(fs) /\ c >= Len(fs)
    BY <1>1, <1>2, ContextBySummary
  <2>2. c = Len(fs)
    BY <1>1, <2>1
  <2> QED BY <1>1, <1>2, <2>2, ContextBySummary
<1>4. messagesOf(newer) = <<>>
  <2>1. newer \in Seq(Entry) /\ Len(newer) = 0
    BY <1>1, <1>3, SubSeqProperties
  <2> HIDE DEF newer
  <2>2. messagesOf(newer) \in Seq(Message) /\ Len(messagesOf(newer)) = 0
    BY <2>1, MessagesAreTyped
  <2> QED BY <2>2, EmptySeq
<1>5. first \in Seq(Message)
  BY DEF Entry
<1>6. contextOf(fs) = first \o <<>>
  BY <1>1, <1>3, <1>4
<1> HIDE DEF first
<1>7. contextOf(fs) = first
  BY <1>5, <1>6, ConcatEmptySeq
<1> QED BY <1>7 DEF fs, first

LEMMA CoveredByRange ==
  ASSUME NEW ms, NEW n
  PROVE  n \in Covered(ms) <=> \E m \in Range(ms) : n \in m.of
BY CoveredIs DEF Range

LEMMA NothingIsCovered == Covered(<<>>) = {}
BY DEF Covered

LEMMA AppendCovers ==
  ASSUME NEW ms \in Seq(Message), NEW m \in Message, NEW n
  PROVE  n \in Covered(Append(ms, m)) <=> n \in Covered(ms) \/ n \in m.of
<1>1. Range(Append(ms, m)) = Range(ms) \cup {m}
  BY RangeOfAppend
<1> QED BY <1>1, CoveredByRange

LEMMA StoredByAppend ==
  ASSUME NEW es \in Seq(Entry), NEW e \in Entry, NEW m \in Stored(Append(es, e))
  PROVE  m \in Stored(es) \/ m = e.message \/ m \in Range(e.tail)
<1> DEFINE fs == Append(es, e)
<1>1. /\ Len(fs) = Len(es) + 1 /\ DOMAIN fs = 1..Len(fs) /\ DOMAIN es = 1..Len(es)
      /\ Len(es) \in Nat /\ fs[Len(es) + 1] = e /\ \A i \in 1..Len(es) : fs[i] = es[i]
  BY AppendProperties, LenProperties
<1> HIDE DEF fs
<1>2. PICK i \in DOMAIN fs : m \in Message /\ (m = fs[i].message \/ m \in Range(fs[i].tail))
  BY DEF Stored, fs
<1>3. CASE i \in 1..Len(es)
  BY <1>1, <1>2, <1>3 DEF Stored
<1>4. CASE i \notin 1..Len(es)
  <2>1. i = Len(es) + 1
    BY <1>1, <1>4
  <2> QED BY <1>1, <1>2, <2>1
<1> QED BY <1>3, <1>4

LEMMA RememberedByMessage ==
  ASSUME NEW es \in Seq(Entry), NEW e \in Entry, e.message.kind # "summary", Remembered(es)
  PROVE  Remembered(Append(es, e))
<1> DEFINE fs == Append(es, e)
<1>1. /\ Len(fs) = Len(es) + 1 /\ DOMAIN fs = 1..Len(fs) /\ DOMAIN es = 1..Len(es)
      /\ Len(es) \in Nat /\ fs[Len(es) + 1] = e /\ \A i \in 1..Len(es) : fs[i] = es[i]
  BY AppendProperties, LenProperties
<1>2. contextOf(fs) = Append(contextOf(es), e.message) /\ contextOf(es) \in Seq(Message) /\ e.message \in Message
  BY ContextOfMessage, ContextIsTyped DEF Entry
<1> HIDE DEF fs
<1>3. ASSUME NEW i \in DOMAIN fs, NEW n \in fs[i].message.of PROVE n \in Covered(contextOf(fs))
  <2>1. n \in Covered(contextOf(es)) \/ n \in e.message.of
    <3>1. CASE i \in 1..Len(es)
      BY <1>1, <1>3, <3>1 DEF Remembered
    <3>2. CASE i \notin 1..Len(es)
      <4>1. i = Len(es) + 1
        BY <1>1, <3>2
      <4> QED BY <1>1, <1>3, <4>1
    <3> QED BY <3>1, <3>2
  <2> QED BY <1>2, <2>1, AppendCovers
<1> QED BY <1>3 DEF Remembered, fs

\* What goes into the session and what the session does not get.
LEMMA AllFit ==
  ASSUME NEW ms \in Seq(Message), NEW N, \A m \in Range(ms) : Fits(m, N)
  PROVE  only(ms, Kept(N)) = ms
<1>1. Range(ms) \subseteq Kept(N)
  BY RangeOfSeq DEF Kept
<1> QED BY <1>1, OnlyAll

LEMMA NoneFits ==
  ASSUME NEW ms \in Seq(Message), NEW N, \A m \in Range(ms) : ~Fits(m, N)
  PROVE  only(ms, Kept(N)) = <<>>
<1>1. only(ms, Kept(N)) \in Seq(Message) /\ Range(only(ms, Kept(N))) = Range(ms) \cap Kept(N)
  BY OnlyRange
<1>2. Range(only(ms, Kept(N))) = {}
  BY <1>1 DEF Kept
<1> DEFINE o == only(ms, Kept(N))
<1> HIDE DEF o
<1>3. o \in Seq(Message) /\ Range(o) = {}
  BY <1>1, <1>2 DEF o
<1>4. Len(o) = 0
  <2> SUFFICES ASSUME Len(o) # 0 PROVE FALSE
    OBVIOUS
  <2>1. 1 \in DOMAIN o
    BY <1>3, LenProperties
  <2> QED BY <1>3, <2>1 DEF Range
<1> QED BY <1>3, <1>4, EmptySeq DEF o

LEMMA KeptByAppend ==
  ASSUME NEW ms \in Seq(Message), NEW m \in Message, NEW N
  PROVE  only(Append(ms, m), Kept(N)) = IF Fits(m, N) THEN Append(only(ms, Kept(N)), m) ELSE only(ms, Kept(N))
<1>1. m \in Kept(N) <=> Fits(m, N)
  BY DEF Kept
<1> QED BY <1>1, OnlyAppend

LEMMA SaidIsMessage ==
  ASSUME NEW kind \in {"prompt", "call", "answer", "result", "guide", "summary"},
         NEW of \in SUBSET Nat, NEW image \in BOOLEAN, NEW to \in Nat
  PROVE  /\ Said(kind, of, image, to) \in Message
         /\ Said(kind, of, image, to).kind = kind /\ Said(kind, of, image, to).of = of
BY DEF Said, Message

\* What is new is no part of what there was.
LEMMA NewIsNew ==
  ASSUME ContextTypeOK
  PROVE  /\ Next1 \in SUBSET Nat /\ Next1 # {} /\ Next1 \subseteq 0..(made + 1)
         /\ \A N \in SUBSET (0..made) : Next1 \cap N = {}
         /\ 0..made \subseteq 0..(made + 1) /\ made + 1 \in Nat
BY DEF ContextTypeOK, Next1

LEMMA MessageIsEntry ==
  ASSUME NEW m \in Message
  PROVE  entryFor(m) \in Entry /\ entryFor(m).message = m /\ Range(entryFor(m).tail) = {}
<1>1. entryFor(m).tail = <<>> /\ entryFor(m).message = m
  BY DEF entryFor
<1>2. Range(<<>>) = {}
  BY DEF Range
<1>3. entryFor(m) \in Entry
  BY DEF entryFor, Entry
<1> QED BY <1>1, <1>2, <1>3

LEMMA InitContextInv == ContextInit => ContextInv
<1> SUFFICES ASSUME ContextInit PROVE ContextInv
  OBVIOUS
<1>1. ContextTypeOK
  BY DEF ContextInit, ContextTypeOK
<1>2. Apart
  BY NothingIsCovered DEF ContextInit, Apart, Stored
<1>3. AgentFollows
  BY DEF ContextInit, AgentFollows, InRun
<1>4. Remembers
  BY DEF ContextInit, Remembers, Remembered
<1> QED BY <1>1, <1>2, <1>3, <1>4 DEF ContextInv

\* What the session holds fits, and so does its context.
LEMMA ContextFits ==
  ASSUME ContextInv
  PROVE  /\ contextOf(entries) \in Seq(Message)
         /\ \A m \in Range(contextOf(entries)) :
              m \in Message /\ Fits(m, unlanded) /\ Fits(m, Covered(landing)) /\ m.of \subseteq 0..made
<1>1. contextOf(entries) \in Seq(Message) /\ Range(contextOf(entries)) \subseteq Stored(entries)
  BY ContextIsTyped DEF ContextInv, ContextTypeOK
<1> QED BY <1>1, RangeOfSeq DEF ContextInv, Apart

LEMMA GuidanceIsLeftOut ==
  ASSUME ContextInv, NEW ms \in Seq(Message)
  PROVE  ms \o guidance \in Seq(Message) /\ only(ms \o guidance, Kept(unlanded)) = only(ms, Kept(unlanded))
<1>1. guidance \in Seq(Message) /\ \A m \in Range(guidance) : ~Fits(m, unlanded)
  BY DEF ContextInv, ContextTypeOK, Apart, Fits, Range
<1>2. only(guidance, Kept(unlanded)) = <<>>
  BY <1>1, NoneFits
<1>3. only(ms \o guidance, Kept(unlanded)) = only(ms, Kept(unlanded)) \o only(guidance, Kept(unlanded))
  BY <1>1, OnlyConcat
<1>4. only(ms, Kept(unlanded)) \in Seq(Message)
  BY OnlyRange
<1>5. ms \o guidance \in Seq(Message)
  BY <1>1
<1> QED BY <1>2, <1>3, <1>4, <1>5, ConcatEmptySeq

-----------------------------------------------------------------------------
(* The steps. *)

LEMMA StartsRunKeeps == ContextInv /\ StartsRun => ContextInv'
<1> SUFFICES ASSUME ContextInv, StartsRun PROVE ContextInv'
  OBVIOUS
<1>1. /\ stage = "idle" /\ stage' = "before" /\ agentMessages' = contextOf(entries) /\ guidance' = <<>>
      /\ UNCHANGED <<entries, landing, read, made, upsets, unlanded>>
  BY DEF StartsRun
<1>2. ContextTypeOK'
  BY <1>1, ContextFits DEF ContextInv, ContextTypeOK
<1>3. Apart'
  BY <1>1 DEF ContextInv, Apart
<1>4. AgentFollows'
  BY <1>1 DEF ContextInv, AgentFollows, InRun
<1>5. Remembers'
  BY <1>1 DEF ContextInv, Remembers
<1> QED BY <1>2, <1>3, <1>4, <1>5 DEF ContextInv

\* A compaction that does not take place leaves the transcript, to which
\* guidance comes.
LEMMA NoCompactionKeeps ==
  ASSUME ContextInv, stage \in {"before", "turning", "summing", "summingTurn"},
         stage' = resumesTo, Steers(agentMessages),
         UNCHANGED <<entries, landing, read, made, upsets, unlanded>>
  PROVE  ContextInv'
<1>1. ContextTypeOK /\ Apart /\ AgentFollows /\ Remembers
  BY DEF ContextInv
<1>2. Apart' /\ Remembers'
  BY <1>1 DEF Apart, Remembers, Steers
<1>3. CASE stage \in {"before", "summing"}
  <2>1. stage' = "storing" /\ UNCHANGED <<agentMessages, guidance>>
    BY <1>3 DEF Steers, resumesTo
  <2>2. ContextTypeOK'
    BY <1>1, <2>1 DEF ContextTypeOK
  <2>3. AgentFollows'
    BY <1>1, <1>3, <2>1 DEF AgentFollows, InRun
  <2> QED BY <1>2, <2>2, <2>3 DEF ContextInv
<1>4. CASE stage \in {"turning", "summingTurn"}
  <2>1. stage' = "asking" /\ agentMessages' = agentMessages \o guidance /\ guidance' = <<>>
    BY <1>4 DEF Steers, resumesTo
  <2>2. /\ agentMessages \o guidance \in Seq(Message)
        /\ only(agentMessages \o guidance, Kept(unlanded)) = only(agentMessages, Kept(unlanded))
    BY <1>1, GuidanceIsLeftOut DEF ContextTypeOK
  <2>3. ContextTypeOK'
    BY <1>1, <2>1, <2>2 DEF ContextTypeOK
  <2>4. only(agentMessages, Kept(unlanded)) = contextOf(entries) \o landing
    BY <1>1, <1>4 DEF AgentFollows, InRun
  <2>5. only(agentMessages', Kept(unlanded')) = contextOf(entries') \o landing'
    BY <2>1, <2>2, <2>4
  <2>6. AgentFollows'
    BY <2>1, <2>5 DEF AgentFollows, InRun
  <2> QED BY <1>2, <2>3, <2>6 DEF ContextInv
<1> QED BY <1>3, <1>4

LEMMA NoNeedKeeps == ContextInv /\ NoNeed => ContextInv'
BY NoCompactionKeeps DEF NoNeed

LEMMA SummaryFailsKeeps == ContextInv /\ SummaryFails => ContextInv'
BY NoCompactionKeeps DEF SummaryFails

LEMMA NeededKeeps == ContextInv /\ Needed => ContextInv'
<1> SUFFICES ASSUME ContextInv, Needed PROVE ContextInv'
  OBVIOUS
<1>1. /\ stage \in {"before", "turning"} /\ (stage = "turning" => landing = <<>>)
      /\ stage' = (IF stage = "before" THEN "summing" ELSE "summingTurn") /\ read' = entries
      /\ UNCHANGED <<agentMessages, entries, landing, guidance, made, upsets, unlanded>>
  BY DEF Needed, answersWritten
<1>2. ContextTypeOK'
  BY <1>1 DEF ContextInv, ContextTypeOK
<1>3. Apart' /\ Remembers'
  BY <1>1 DEF ContextInv, Apart, Remembers
<1>4. AgentFollows'
  BY <1>1 DEF ContextInv, AgentFollows, InRun
<1> QED BY <1>2, <1>3, <1>4 DEF ContextInv

LEMMA SummarizedKeeps ==
  ASSUME ContextInv, NEW n \in Nat, Summarized(n)
  PROVE  ContextInv'
<1> DEFINE ctx == contextOf(entries)
           old == SubSeq(ctx, 1, n)
           sum == Said("summary", Covered(old), FALSE, 0)
           rest == SubSeq(ctx, n + 1, Len(ctx))
           e == [message |-> sum, tail |-> rest]
           ms == <<sum>> \o rest
<1>1. ContextTypeOK /\ Apart /\ AgentFollows /\ Remembers
  BY DEF ContextInv
<1>2. read = entries /\ landing = <<>>
  BY <1>1 DEF AgentFollows, Summarized
<1>3. /\ stage \in {"summing", "summingTurn"} /\ n \in 1..Len(ctx) /\ entries' = Append(entries, e)
      /\ Steers(ms) /\ stage' = resumesTo
      /\ UNCHANGED <<landing, read, made, upsets, unlanded>>
  BY <1>2 DEF Summarized, seeded
<1>4. /\ ctx \in Seq(Message)
      /\ \A m \in Range(ctx) : m \in Message /\ Fits(m, unlanded) /\ Fits(m, Covered(landing)) /\ m.of \subseteq 0..made
  BY ContextFits
<1> HIDE DEF ctx
<1>5. /\ Len(ctx) \in Nat /\ DOMAIN ctx = 1..Len(ctx)
      /\ old \in Seq(Message) /\ DOMAIN old = 1..n /\ \A i \in 1..n : old[i] = ctx[i]
  <2>1. Len(ctx) \in Nat /\ DOMAIN ctx = 1..Len(ctx) /\ \A i \in 1..n : ctx[i] \in Message
    BY <1>3, <1>4, LenProperties, ElementOfSeq
  <2>2. /\ old \in Seq(Message) /\ Len(old) = (IF 1 <= n THEN n - 1 + 1 ELSE 0)
        /\ \A i \in 1..(n - 1 + 1) : old[i] = ctx[1 + i - 1]
    BY <2>1, SubSeqProperties
  <2>3. DOMAIN old = 1..Len(old) /\ Len(old) = n
    BY <1>3, <2>2, LenProperties
  <2> HIDE DEF old
  <2>4. \A i \in 1..n : old[i] = ctx[i]
    BY <2>2
  <2> QED BY <2>1, <2>2, <2>3, <2>4
<1>6. /\ rest \in Seq(Message) /\ Len(rest) = Len(ctx) - n /\ DOMAIN rest = 1..(Len(ctx) - n)
      /\ \A i \in 1..(Len(ctx) - n) : n + i \in 1..Len(ctx) /\ rest[i] = ctx[n + i]
  <2>1. n \in 0..Len(ctx)
    BY <1>3
  <2>2. /\ rest \in Seq(Message) /\ Len(rest) = Len(ctx) - n
        /\ \A i \in 1..(Len(ctx) - n) : n + i \in 1..Len(ctx) /\ rest[i] = ctx[n + i]
    BY <1>4, <2>1, Behind
  <2>3. DOMAIN rest = 1..Len(rest)
    BY <2>2, LenProperties
  <2> QED BY <2>2, <2>3
<1> HIDE DEF old, rest
<1>7. Range(old) \subseteq Range(ctx) /\ Range(rest) \subseteq Range(ctx)
  <2>1. \A i \in DOMAIN old : i \in DOMAIN ctx /\ old[i] = ctx[i]
    BY <1>3, <1>5
  <2>2. \A i \in DOMAIN rest : n + i \in DOMAIN ctx /\ rest[i] = ctx[n + i]
    BY <1>5, <1>6
  <2>3. Range(old) \subseteq Range(ctx)
    BY <2>1 DEF Range
  <2>4. Range(rest) \subseteq Range(ctx)
    BY <2>2 DEF Range
  <2> QED BY <2>3, <2>4
<1>8. ASSUME NEW x \in Covered(old) PROVE x \in 0..made /\ x \notin unlanded /\ x \notin Covered(landing)
  <2>1. PICK m \in Range(old) : x \in m.of
    BY <1>8, CoveredByRange
  <2> QED BY <1>4, <1>7, <2>1 DEF Fits
<1>9. /\ sum \in Message /\ sum.kind = "summary" /\ sum.of = Covered(old)
      /\ Fits(sum, unlanded) /\ Fits(sum, Covered(landing)) /\ sum.of \subseteq 0..made
  <2>1. Covered(old) \in SUBSET Nat
    BY <1>1, <1>8 DEF ContextTypeOK
  <2>2. \A o \in SUBSET Nat :
          /\ Said("summary", o, FALSE, 0) \in Message /\ Said("summary", o, FALSE, 0).kind = "summary"
          /\ Said("summary", o, FALSE, 0).of = o
    BY DEF Said, Message
  <2>3. sum \in Message /\ sum.kind = "summary" /\ sum.of = Covered(old)
    BY <2>1, <2>2
  <2> HIDE DEF sum
  <2> QED BY <1>8, <2>3 DEF Fits
<1> HIDE DEF sum
<1>10. e \in Entry /\ e.message = sum /\ e.tail = rest
  BY <1>6, <1>9 DEF Entry
<1> HIDE DEF e
<1>11. entries \in Seq(Entry) /\ entries' \in Seq(Entry) /\ contextOf(entries') = ms
  BY <1>1, <1>3, <1>9, <1>10, ContextOfSummary, AppendProperties DEF ContextTypeOK
<1>12. ms \in Seq(Message) /\ Range(ms) = {sum} \cup Range(rest)
  <2>1. <<sum>> \in Seq(Message) /\ Range(<<sum>>) = {sum}
    BY <1>9 DEF Range
  <2>2. \A o \in Seq(Message) : o \o rest \in Seq(Message) /\ Range(o \o rest) = Range(o) \cup Range(rest)
    BY <1>6, RangeConcatenation
  <2> QED BY <2>1, <2>2
<1> HIDE DEF ms
<1>13. \A m \in Range(ms) : Fits(m, unlanded)
  BY <1>4, <1>7, <1>9, <1>12
<1>14. Covered(ctx) \subseteq Covered(ms)
  <2> SUFFICES ASSUME NEW x \in Covered(ctx) PROVE x \in Covered(ms)
    OBVIOUS
  <2>1. PICK i \in 1..Len(ctx) : x \in ctx[i].of
    BY <1>5, CoveredIs
  <2>2. CASE i <= n
    <3>1. i \in DOMAIN old /\ old[i] = ctx[i]
      BY <1>5, <2>2
    <3>2. x \in Covered(old)
      BY <2>1, <3>1, CoveredIs
    <3> QED BY <1>9, <1>12, <3>2, CoveredByRange
  <2>3. CASE i > n
    <3>1. i - n \in 1..(Len(ctx) - n) /\ n + (i - n) = i
      BY <1>3, <1>5, <2>3
    <3>2. i - n \in DOMAIN rest /\ rest[i - n] = ctx[i]
      BY <1>6, <3>1
    <3>3. ctx[i] \in Range(rest)
      BY <3>2 DEF Range
    <3> QED BY <1>12, <2>1, <3>3, CoveredByRange
  <2> QED BY <1>5, <2>2, <2>3
<1>15. Remembers'
  <2>1. /\ Len(entries') = Len(entries) + 1 /\ DOMAIN entries' = 1..Len(entries') /\ DOMAIN entries = 1..Len(entries)
        /\ Len(entries) \in Nat /\ entries'[Len(entries) + 1] = e
        /\ \A i \in 1..Len(entries) : entries'[i] = entries[i]
    BY <1>3, <1>10, <1>11, AppendProperties, LenProperties
  <2>2. ASSUME NEW i \in DOMAIN entries' PROVE entries'[i].message.of \subseteq Covered(ms)
    <3>1. CASE i \in 1..Len(entries)
      <4>1. entries[i].message.of \subseteq Covered(ctx)
        BY <1>1, <2>1, <3>1 DEF Remembers, Remembered, ctx
      <4> QED BY <1>14, <2>1, <3>1, <4>1
    <3>2. CASE i \notin 1..Len(entries)
      <4>1. i = Len(entries) + 1
        BY <2>1, <3>2
      <4>2. entries'[i].message = sum /\ sum \in Range(ms)
        BY <1>10, <1>12, <2>1, <4>1
      <4> QED BY <4>2, CoveredByRange
    <3> QED BY <3>1, <3>2
  <2> QED BY <1>11, <2>2 DEF Remembers, Remembered
<1>16. Apart'
  <2>1. ASSUME NEW m \in Stored(entries')
        PROVE  Fits(m, unlanded) /\ Fits(m, Covered(landing)) /\ m.of \subseteq 0..made
    <3>1. m \in Stored(entries) \/ m = sum \/ m \in Range(rest)
      BY <1>3, <1>10, <1>11, <2>1, StoredByAppend
    <3> QED BY <1>1, <1>4, <1>7, <1>9, <3>1 DEF Apart
  <2>2. guidance' = guidance \/ guidance' = <<>>
    BY <1>3 DEF Steers
  <2> QED BY <1>1, <1>3, <2>1, <2>2 DEF Apart
<1>17. CASE stage = "summing"
  <2>1. stage' = "storing" /\ agentMessages' = ms /\ UNCHANGED guidance
    BY <1>3, <1>17 DEF Steers, resumesTo
  <2>2. ContextTypeOK'
    BY <1>1, <1>3, <1>11, <1>12, <2>1 DEF ContextTypeOK
  <2>3. AgentFollows'
    BY <1>2, <1>3, <1>11, <2>1 DEF AgentFollows, InRun
  <2> QED BY <1>15, <1>16, <2>2, <2>3 DEF ContextInv
<1>18. CASE stage = "summingTurn"
  <2>1. stage' = "asking" /\ agentMessages' = ms \o guidance /\ guidance' = <<>>
    BY <1>3, <1>18 DEF Steers, resumesTo
  <2>2. ms \o guidance \in Seq(Message) /\ only(ms \o guidance, Kept(unlanded)) = only(ms, Kept(unlanded))
    BY <1>12, GuidanceIsLeftOut
  <2>3. only(ms, Kept(unlanded)) = ms
    BY <1>12, <1>13, AllFit
  <2>4. ms \o <<>> = ms
    BY <1>12, ConcatEmptySeq
  <2>5. only(agentMessages', Kept(unlanded')) = contextOf(entries') \o landing'
    BY <1>2, <1>3, <1>11, <2>1, <2>2, <2>3, <2>4
  <2>6. ContextTypeOK'
    BY <1>1, <1>3, <1>11, <2>1, <2>2 DEF ContextTypeOK
  <2>7. AgentFollows'
    BY <2>1, <2>5 DEF AgentFollows, InRun
  <2> QED BY <1>15, <1>16, <2>6, <2>7 DEF ContextInv
<1> QED BY <1>3, <1>17, <1>18

\* A message that is numbered anew, of a kind the session keeps.
LEMMA NewMessage ==
  ASSUME ContextInv, NEW kind \in {"prompt", "call", "answer", "result", "guide", "summary"},
         NEW image \in BOOLEAN, NEW to \in Nat, NEW m, m = Said(kind, Next1, image, to)
  PROVE  /\ m \in Message /\ m.kind = kind /\ m.of = Next1 /\ m.of # {} /\ m.of \subseteq 0..(made + 1)
         /\ \A x \in m.of : x \notin 0..made
         /\ m.of \cap unlanded = {}
         /\ \A i \in DOMAIN landing : landing[i].of \cap m.of = {}
         /\ \A o \in Stored(entries) : o.of \cap m.of = {}
<1>1. /\ Next1 \in SUBSET Nat /\ Next1 # {} /\ Next1 \subseteq 0..(made + 1) /\ \A x \in Next1 : x \notin 0..made
      /\ made \in Nat /\ unlanded \subseteq 0..made
  BY DEF ContextInv, ContextTypeOK, Next1
<1>2. \A o \in SUBSET Nat : Said(kind, o, image, to) \in Message /\ Said(kind, o, image, to).kind = kind
                           /\ Said(kind, o, image, to).of = o
  BY DEF Said, Message
<1>3. m \in Message /\ m.kind = kind /\ m.of = Next1
  BY <1>1, <1>2
<1>4. \A i \in DOMAIN landing : landing[i].of \subseteq 0..made
  BY DEF ContextInv, Apart
<1>5. \A o \in Stored(entries) : o.of \subseteq 0..made
  BY DEF ContextInv, Apart
<1> HIDE DEF Next1
<1> QED BY <1>1, <1>3, <1>4, <1>5

LEMMA PromptsKeeps ==
  ASSUME ContextInv, NEW image \in BOOLEAN, Prompts(image)
  PROVE  ContextInv'
<1> DEFINE m == Said("prompt", Next1, image, 0)
           e == entryFor(m)
           ctx == contextOf(entries)
<1>1. /\ ContextTypeOK /\ Apart /\ AgentFollows /\ Remembers
      /\ stage = "storing" /\ made' = made + 1 /\ UNCHANGED <<landing, guidance, read>>
  BY DEF ContextInv, Prompts, Makes
<1>2. landing = <<>> /\ agentMessages = ctx /\ Covered(landing) = {}
  BY <1>1, NothingIsCovered DEF AgentFollows
<1>3. /\ m \in Message /\ m.kind = "prompt" /\ m.of = Next1 /\ m.of # {} /\ m.of \subseteq 0..(made + 1)
      /\ m.of \cap unlanded = {} /\ \A o \in Stored(entries) : o.of \cap m.of = {}
  BY NewMessage
<1>4. 0..made \subseteq 0..(made + 1) /\ made + 1 \in Nat
  BY <1>1 DEF ContextTypeOK
<1> HIDE DEF m
<1>5. e \in Entry /\ e.message = m /\ Range(e.tail) = {} /\ e.message.kind # "summary"
  BY <1>3, MessageIsEntry
<1> HIDE DEF e
<1>6. ctx \in Seq(Message) /\ \A o \in Range(ctx) : Fits(o, unlanded)
  BY ContextFits
<1>7. CASE entries' = Append(entries, e) /\ agentMessages' = Append(agentMessages, m) /\ stage' = "asking"
           /\ UNCHANGED <<upsets, unlanded>>
  <2>1. contextOf(Append(entries, e)) = Append(ctx, m) /\ Append(entries, e) \in Seq(Entry)
    BY <1>1, <1>5, ContextOfMessage, AppendProperties DEF ContextTypeOK
  <2> HIDE DEF ctx
  <2>2. Append(ctx, m) \in Seq(Message) /\ Range(Append(ctx, m)) = Range(ctx) \cup {m}
    BY <1>3, <1>6, RangeOfAppend
  <2>3. Fits(m, unlanded) /\ Fits(m, Covered(landing))
    BY <1>2, <1>3 DEF Fits
  <2>4. only(Append(ctx, m), Kept(unlanded)) = Append(ctx, m)
    BY <1>6, <2>2, <2>3, AllFit
  <2>5. Append(ctx, m) \o <<>> = Append(ctx, m)
    BY <2>2, ConcatEmptySeq
  <2>6. only(agentMessages', Kept(unlanded')) = contextOf(entries') \o landing'
    BY <1>1, <1>2, <1>7, <2>1, <2>4, <2>5
  <2>7. ContextTypeOK'
    BY <1>1, <1>2, <1>4, <1>7, <2>1, <2>2 DEF ContextTypeOK
  <2>8. AgentFollows'
    BY <1>7, <2>6 DEF AgentFollows, InRun
  <2>9. Remembers'
    BY <1>1, <1>5, <1>7, RememberedByMessage DEF Remembers, ContextTypeOK
  <2>10. Apart'
    <3>1. ASSUME NEW o \in Stored(entries')
          PROVE  Fits(o, unlanded) /\ Fits(o, Covered(landing)) /\ o.of \subseteq 0..(made + 1)
      <4>1. o \in Stored(entries) \/ o = m
        BY <1>1, <1>5, <1>7, <3>1, StoredByAppend DEF ContextTypeOK
      <4>2. o \in Stored(entries) => Fits(o, unlanded) /\ Fits(o, Covered(landing)) /\ o.of \subseteq 0..made
        BY <1>1 DEF Apart
      <4> QED BY <1>3, <1>4, <2>3, <4>1, <4>2
    <3>2. DOMAIN landing = {}
      BY <1>2
    <3> QED BY <1>1, <1>7, <3>1, <3>2 DEF Apart
  <2> QED BY <2>7, <2>8, <2>9, <2>10 DEF ContextInv
<1>8. CASE upsets' = upsets + 1 /\ stage' = "idle" /\ unlanded' = unlanded \cup m.of
           /\ UNCHANGED <<entries, agentMessages>>
  <2>1. unlanded' \in SUBSET (0..(made + 1))
    BY <1>1, <1>3, <1>4, <1>8 DEF ContextTypeOK
  <2>2. ContextTypeOK'
    BY <1>1, <1>4, <1>8, <2>1 DEF ContextTypeOK
  <2>3. Apart'
    <3>1. ASSUME NEW o \in Stored(entries)
          PROVE  Fits(o, unlanded') /\ Fits(o, Covered(landing)) /\ o.of \subseteq 0..(made + 1)
      <4>1. Fits(o, unlanded) /\ Fits(o, Covered(landing)) /\ o.of \subseteq 0..made /\ o.of \cap m.of = {}
        BY <1>1, <1>3 DEF Apart
      <4> QED BY <1>4, <1>8, <4>1 DEF Fits
    <3>2. DOMAIN landing = {}
      BY <1>2
    <3> QED BY <1>1, <1>8, <3>1, <3>2 DEF Apart
  <2>4. AgentFollows'
    BY <1>1, <1>2, <1>8 DEF AgentFollows, InRun
  <2>5. Remembers'
    BY <1>1, <1>8 DEF Remembers
  <2> QED BY <2>2, <2>3, <2>4, <2>5 DEF ContextInv
<1> QED BY <1>7, <1>8 DEF Prompts, Upset, m, e

LEMMA NotStartedKeeps == ContextInv /\ NotStarted => ContextInv'
<1> SUFFICES ASSUME ContextInv, NotStarted PROVE ContextInv'
  OBVIOUS
<1>1. ContextTypeOK'
  BY DEF ContextInv, ContextTypeOK, NotStarted
<1>2. Apart' /\ Remembers'
  BY DEF ContextInv, Apart, Remembers, NotStarted
<1>3. AgentFollows'
  BY DEF ContextInv, AgentFollows, NotStarted, InRun
<1> QED BY <1>1, <1>2, <1>3 DEF ContextInv

LEMMA AnswersKeeps ==
  ASSUME ContextInv, NEW kind \in {"call", "answer"}, Answers(kind)
  PROVE  ContextInv'
<1> DEFINE m == Said(kind, Next1, FALSE, 0)
           ctx == contextOf(entries)
<1>1. /\ ContextTypeOK /\ Apart /\ AgentFollows /\ Remembers
      /\ stage = "asking" /\ made' = made + 1
      /\ agentMessages' = Append(agentMessages, m) /\ landing' = Append(landing, m)
      /\ stage' \in {"tools", "turning", "ending"}
      /\ UNCHANGED <<entries, guidance, read, upsets, unlanded>>
  BY DEF ContextInv, Answers, Makes
<1>2. /\ m \in Message /\ m.kind = kind /\ m.of = Next1 /\ m.of # {} /\ m.of \subseteq 0..(made + 1)
      /\ m.of \cap unlanded = {} /\ \A o \in Stored(entries) : o.of \cap m.of = {}
      /\ \A i \in DOMAIN landing : landing[i].of \cap m.of = {}
  <2>1. kind \in {"prompt", "call", "answer", "result", "guide", "summary"}
    OBVIOUS
  <2>2. \A b \in BOOLEAN : \A o : o = Said(kind, Next1, b, 0) =>
          /\ o \in Message /\ o.kind = kind /\ o.of = Next1 /\ o.of # {} /\ o.of \subseteq 0..(made + 1)
          /\ o.of \cap unlanded = {} /\ \A p \in Stored(entries) : p.of \cap o.of = {}
          /\ \A i \in DOMAIN landing : landing[i].of \cap o.of = {}
    BY <2>1, NewMessage
  <2> QED BY <2>2
<1>3. 0..made \subseteq 0..(made + 1) /\ made + 1 \in Nat
  BY <1>1 DEF ContextTypeOK
<1> HIDE DEF m
<1>4. /\ landing' \in Seq(Message) /\ Len(landing') = Len(landing) + 1 /\ DOMAIN landing' = 1..Len(landing')
      /\ Len(landing) \in Nat /\ DOMAIN landing = 1..Len(landing)
      /\ landing'[Len(landing) + 1] = m /\ \A i \in DOMAIN landing : landing'[i] = landing[i]
      /\ agentMessages' \in Seq(Message) /\ agentMessages' # <<>> /\ Last(agentMessages') = m
  <2>1. landing \in Seq(Message) /\ agentMessages \in Seq(Message)
    BY <1>1 DEF ContextTypeOK
  <2>2. /\ landing' \in Seq(Message) /\ Len(landing') = Len(landing) + 1
        /\ landing'[Len(landing) + 1] = m /\ \A i \in 1..Len(landing) : landing'[i] = landing[i]
    BY <1>1, <1>2, <2>1, AppendProperties
  <2>3. DOMAIN landing' = 1..Len(landing') /\ Len(landing) \in Nat /\ DOMAIN landing = 1..Len(landing)
    BY <2>1, <2>2, LenProperties
  <2>4. /\ agentMessages' \in Seq(Message) /\ agentMessages' # <<>>
        /\ Len(agentMessages') = Len(agentMessages) + 1 /\ agentMessages'[Len(agentMessages) + 1] = m
    BY <1>1, <1>2, <2>1, AppendProperties
  <2>5. Last(agentMessages') = m
    BY <2>4 DEF Last
  <2> QED BY <2>2, <2>3, <2>4, <2>5
<1>5. ContextTypeOK'
  BY <1>1, <1>3, <1>4 DEF ContextTypeOK
<1>6. Remembers'
  BY <1>1 DEF Remembers
<1>7. only(agentMessages', Kept(unlanded')) = contextOf(entries') \o landing'
  <2>1. Fits(m, unlanded)
    BY <1>2 DEF Fits
  <2>2. only(Append(agentMessages, m), Kept(unlanded)) = Append(only(agentMessages, Kept(unlanded)), m)
    BY <1>1, <1>2, <2>1, KeptByAppend DEF ContextTypeOK
  <2>3. only(agentMessages, Kept(unlanded)) = ctx \o landing
    BY <1>1 DEF AgentFollows, InRun
  <2>4. ctx \in Seq(Message)
    BY ContextFits
  <2> HIDE DEF ctx
  <2>5. ctx \o Append(landing, m) = Append(ctx \o landing, m)
    <3>1. landing \in Seq(Message)
      BY <1>1 DEF ContextTypeOK
    <3> QED BY <1>2, <2>4, <3>1, ConcatAppend
  <2> QED BY <1>1, <2>2, <2>3, <2>5 DEF ctx
<1>8. AgentFollows'
  BY <1>1, <1>2, <1>4, <1>7 DEF AgentFollows, InRun
<1>9. Apart'
  <2>1. ASSUME NEW o \in Stored(entries)
        PROVE  Fits(o, unlanded) /\ Fits(o, Covered(landing')) /\ o.of \subseteq 0..(made + 1)
    <3>1. Fits(o, unlanded) /\ Fits(o, Covered(landing)) /\ o.of \subseteq 0..made /\ o.of \cap m.of = {}
      BY <1>1, <1>2 DEF Apart
    <3>2. \A x \in Covered(landing') : x \in Covered(landing) \/ x \in m.of
      BY <1>1, <1>2, AppendCovers DEF ContextTypeOK
    <3> QED BY <1>3, <3>1, <3>2 DEF Fits
  <2>2. ASSUME NEW i \in DOMAIN landing'
        PROVE  /\ Fits(landing'[i], unlanded) /\ landing'[i].kind # "summary"
               /\ landing'[i].of # {} /\ landing'[i].of \subseteq 0..(made + 1)
               /\ \A j \in DOMAIN landing' : j # i => landing'[i].of \cap landing'[j].of = {}
    <3>0. \A j \in DOMAIN landing' : j \in DOMAIN landing \/ j = Len(landing) + 1
      BY <1>4
    <3>1. CASE i \in DOMAIN landing
      <4>1. /\ Fits(landing[i], unlanded) /\ landing[i].kind # "summary"
            /\ landing[i].of # {} /\ landing[i].of \subseteq 0..made /\ landing[i].of \cap m.of = {}
            /\ \A j \in DOMAIN landing : j # i => landing[i].of \cap landing[j].of = {}
        BY <1>1, <1>2, <3>1 DEF Apart
      <4>2. \A j \in DOMAIN landing' : j # i => landing[i].of \cap landing'[j].of = {}
        BY <1>4, <3>0, <4>1
      <4> QED BY <1>3, <1>4, <3>1, <4>1, <4>2
    <3>2. CASE i = Len(landing) + 1
      <4>1. landing'[i] = m /\ Fits(m, unlanded)
        BY <1>2, <1>4, <3>2 DEF Fits
      <4>2. \A j \in DOMAIN landing' : j # i => m.of \cap landing'[j].of = {}
        BY <1>2, <1>4, <3>0, <3>2
      <4> QED BY <1>2, <4>1, <4>2
    <3> QED BY <3>0, <3>1, <3>2
  <2> QED BY <1>1, <2>1, <2>2 DEF Apart
<1> QED BY <1>5, <1>6, <1>8, <1>9 DEF ContextInv

LEMMA ToolAnswersKeeps ==
  ASSUME ContextInv, NEW image \in BOOLEAN, NEW last \in BOOLEAN, ToolAnswers(image, last)
  PROVE  ContextInv'
<1> DEFINE to == CHOOSE n \in Last(agentMessages).of : TRUE
           m == Said("result", Next1, image, to)
<1>1. /\ ContextTypeOK /\ Apart /\ AgentFollows /\ Remembers
      /\ stage = "tools" /\ made' = made + 1 /\ agentMessages' = Append(agentMessages, m)
      /\ stage' \in {"turning", "ending"}
      /\ UNCHANGED <<entries, landing, guidance, read, upsets, unlanded>>
  BY DEF ContextInv, ToolAnswers, Makes
<1>2. to \in Nat
  <2>1. agentMessages \in Seq(Message) /\ agentMessages # <<>> /\ Last(agentMessages).of # {}
    BY <1>1 DEF ContextTypeOK, AgentFollows
  <2>2. Len(agentMessages) \in 1..Len(agentMessages)
    BY <2>1, EmptySeq, LenProperties
  <2>3. Last(agentMessages) \in Message
    BY <2>1, <2>2, ElementOfSeq DEF Last
  <2>4. to \in Last(agentMessages).of
    BY <2>1
  <2> QED BY <2>3, <2>4 DEF Message
<1> HIDE DEF to
<1>3. m \in Message /\ m.kind = "result"
  <2>1. Next1 \in SUBSET Nat
    BY <1>1, NewIsNew
  <2>2. \A o \in SUBSET Nat, t \in Nat : Said("result", o, image, t) \in Message /\ Said("result", o, image, t).kind = "result"
    BY DEF Said, Message
  <2> QED BY <1>2, <2>1, <2>2
<1> HIDE DEF m
<1>4. 0..made \subseteq 0..(made + 1) /\ made + 1 \in Nat
  BY <1>1 DEF ContextTypeOK
<1>5. agentMessages' \in Seq(Message)
  BY <1>1, <1>3, AppendProperties DEF ContextTypeOK
<1>6. ContextTypeOK'
  BY <1>1, <1>4, <1>5 DEF ContextTypeOK
<1>7. only(agentMessages', Kept(unlanded')) = contextOf(entries') \o landing'
  <2>1. ~Fits(m, unlanded)
    BY <1>3 DEF Fits
  <2>2. only(Append(agentMessages, m), Kept(unlanded)) = only(agentMessages, Kept(unlanded))
    BY <1>1, <1>3, <2>1, KeptByAppend DEF ContextTypeOK
  <2> QED BY <1>1, <2>2 DEF AgentFollows, InRun
<1>8. AgentFollows'
  BY <1>1, <1>7 DEF AgentFollows, InRun
<1>9. Apart'
  BY <1>1, <1>4 DEF Apart
<1>10. Remembers'
  BY <1>1 DEF Remembers
<1> QED BY <1>6, <1>8, <1>9, <1>10 DEF ContextInv

\* The first of the answers that are being written, and those behind it.
LEMMA FirstLanding ==
  ASSUME ContextInv, landing # <<>>
  PROVE  LET h == Head(landing)
             rest == Tail(landing)
         IN  /\ h \in Message /\ Fits(h, unlanded) /\ h.kind # "summary" /\ h.of # {}
             /\ h.of \subseteq 0..made /\ h.of \subseteq Covered(landing)
             /\ rest \in Seq(Message) /\ landing = <<h>> \o rest
             /\ \A m \in Range(rest) : m \in Message /\ Fits(m, unlanded) /\ m.of \cap h.of = {}
             /\ Covered(rest) \subseteq Covered(landing) /\ \A x \in Covered(rest) : x \notin h.of
             /\ \A i \in DOMAIN rest :
                  /\ Fits(rest[i], unlanded) /\ rest[i].kind # "summary"
                  /\ rest[i].of # {} /\ rest[i].of \subseteq 0..made /\ rest[i].of \cap h.of = {}
                  /\ \A j \in DOMAIN rest : j # i => rest[i].of \cap rest[j].of = {}
<1> DEFINE h == Head(landing)
           rest == Tail(landing)
<1>1. landing \in Seq(Message)
  BY DEF ContextInv, ContextTypeOK
<1>2. /\ h = landing[1] /\ rest \in Seq(Message) /\ Len(rest) = Len(landing) - 1
      /\ Len(landing) \in Nat /\ Len(landing) # 0 /\ landing = <<h>> \o rest
      /\ \A i \in 1..Len(rest) : rest[i] = landing[i + 1]
  <2>1. /\ h = landing[1] /\ rest \in Seq(Message) /\ Len(rest) = Len(landing) - 1
        /\ \A i \in 1..Len(rest) : rest[i] = landing[i + 1]
    BY <1>1, HeadTailProperties
  <2>2. Len(landing) \in Nat /\ Len(landing) # 0
    BY <1>1, LenProperties, EmptySeq
  <2>3. landing = <<h>> \o rest
    BY <1>1
  <2> QED BY <2>1, <2>2, <2>3
<1> HIDE DEF h, rest
<1>3. DOMAIN landing = 1..Len(landing) /\ DOMAIN rest = 1..Len(rest)
  BY <1>1, <1>2, LenProperties
<1>4. 1 \in DOMAIN landing /\ \A i \in DOMAIN rest : i + 1 \in DOMAIN landing /\ i + 1 # 1 /\ rest[i] = landing[i + 1]
  <2>1. 1 \in 1..Len(landing)
    BY <1>2
  <2>2. \A i \in 1..Len(rest) : i + 1 \in 1..Len(landing) /\ i + 1 # 1
    BY <1>2
  <2> QED BY <1>2, <1>3, <2>1, <2>2
<1>5. \A i \in DOMAIN landing :
        /\ landing[i] \in Message /\ Fits(landing[i], unlanded) /\ landing[i].kind # "summary"
        /\ landing[i].of # {} /\ landing[i].of \subseteq 0..made
        /\ \A j \in DOMAIN landing : j # i => landing[i].of \cap landing[j].of = {}
  BY <1>1, <1>3, ElementOfSeq DEF ContextInv, Apart
<1>6. /\ h \in Message /\ Fits(h, unlanded) /\ h.kind # "summary" /\ h.of # {}
      /\ h.of \subseteq 0..made /\ h.of \subseteq Covered(landing)
  <2>1. \A x \in h.of : x \in Covered(landing)
    BY <1>2, <1>4, CoveredIs
  <2> QED BY <1>2, <1>4, <1>5, <2>1
<1>7. ASSUME NEW i \in DOMAIN rest
      PROVE  /\ rest[i] \in Message /\ Fits(rest[i], unlanded) /\ rest[i].kind # "summary"
             /\ rest[i].of # {} /\ rest[i].of \subseteq 0..made /\ rest[i].of \cap h.of = {}
             /\ \A j \in DOMAIN rest : j # i => rest[i].of \cap rest[j].of = {}
             /\ \A x \in rest[i].of : x \in Covered(landing) /\ x \notin h.of
  <2>1. /\ rest[i] \in Message /\ Fits(rest[i], unlanded) /\ rest[i].kind # "summary"
        /\ rest[i].of # {} /\ rest[i].of \subseteq 0..made /\ rest[i].of \cap h.of = {}
    BY <1>2, <1>4, <1>5
  <2>2. ASSUME NEW j \in DOMAIN rest, j # i PROVE rest[i].of \cap rest[j].of = {}
    <3>1. j + 1 # i + 1
      BY <1>3, <2>2
    <3> QED BY <1>4, <1>5, <3>1
  <2>3. \A x \in rest[i].of : x \in Covered(landing)
    BY <1>4, CoveredIs
  <2> QED BY <2>1, <2>2, <2>3
<1>8. Covered(rest) \subseteq Covered(landing) /\ \A x \in Covered(rest) : x \notin h.of
  BY <1>7, CoveredIs
<1>9. \A m \in Range(rest) : m \in Message /\ Fits(m, unlanded) /\ m.of \cap h.of = {}
  BY <1>7 DEF Range
<1> QED BY <1>2, <1>6, <1>7, <1>8, <1>9 DEF h, rest

\* Narrowing what is kept, step by step or at once.
LEMMA OnlyNarrowed ==
  ASSUME NEW S, NEW s \in Seq(S), NEW T, NEW U, U \subseteq T
  PROVE  only(only(s, T), U) = only(s, U)
<1>1. only(only(s, T), U) = only(s, T \cap U)
  BY OnlyTwice
<1>2. T \cap U = U
  OBVIOUS
<1> QED BY <1>1, <1>2

LEMMA LandsKeeps == ContextInv /\ Lands => ContextInv'
<1> SUFFICES ASSUME ContextInv, Lands PROVE ContextInv'
  OBVIOUS
<1> DEFINE h == Head(landing)
           rest == Tail(landing)
           e == entryFor(h)
           ctx == contextOf(entries)
<1>1. /\ ContextTypeOK /\ Apart /\ AgentFollows /\ Remembers
      /\ landing # <<>> /\ landing' = rest
      /\ UNCHANGED <<agentMessages, guidance, stage, read, made>>
  BY DEF ContextInv, Lands
<1>2. /\ h \in Message /\ Fits(h, unlanded) /\ h.kind # "summary" /\ h.of # {}
      /\ h.of \subseteq 0..made /\ h.of \subseteq Covered(landing)
      /\ rest \in Seq(Message) /\ landing = <<h>> \o rest
      /\ \A m \in Range(rest) : m \in Message /\ Fits(m, unlanded) /\ m.of \cap h.of = {}
      /\ Covered(rest) \subseteq Covered(landing) /\ \A x \in Covered(rest) : x \notin h.of
      /\ \A i \in DOMAIN rest :
           /\ Fits(rest[i], unlanded) /\ rest[i].kind # "summary"
           /\ rest[i].of # {} /\ rest[i].of \subseteq 0..made /\ rest[i].of \cap h.of = {}
           /\ \A j \in DOMAIN rest : j # i => rest[i].of \cap rest[j].of = {}
  BY <1>1, FirstLanding
<1>3. stage \in {"asking", "tools", "turning", "ending"} /\ InRun /\ InRun'
  BY <1>1 DEF ContextTypeOK, AgentFollows, InRun
<1>4. only(agentMessages, Kept(unlanded)) = ctx \o landing
  BY <1>1, <1>3 DEF AgentFollows
<1>5. /\ ctx \in Seq(Message)
      /\ \A m \in Range(ctx) : m \in Message /\ Fits(m, unlanded) /\ Fits(m, Covered(landing))
  BY ContextFits
<1> HIDE DEF h, rest
<1>6. CASE entries' = Append(entries, e) /\ UNCHANGED <<upsets, unlanded>>
  <2>1. e \in Entry /\ e.message = h /\ Range(e.tail) = {} /\ e.message.kind # "summary"
    BY <1>2, MessageIsEntry
  <2> HIDE DEF e
  <2>2. contextOf(entries') = Append(ctx, h) /\ entries' \in Seq(Entry)
    BY <1>1, <1>6, <2>1, ContextOfMessage, AppendProperties DEF ContextTypeOK
  <2> HIDE DEF ctx
  <2>3. ctx \o landing = Append(ctx, h) \o rest
    <3>1. \A o \in Seq(Message), r \in Seq(Message), x \in Message : o \o (<<x>> \o r) = Append(o, x) \o r
      BY ConcatBetween
    <3> QED BY <1>2, <1>5, <3>1
  <2>4. only(agentMessages', Kept(unlanded')) = contextOf(entries') \o landing'
    BY <1>1, <1>4, <1>6, <2>2, <2>3
  <2>5. ContextTypeOK'
    BY <1>1, <1>2, <1>6, <2>2 DEF ContextTypeOK
  <2>6. AgentFollows'
    BY <1>1, <1>3, <2>4 DEF AgentFollows
  <2>7. Remembers'
    BY <1>1, <1>6, <2>1, RememberedByMessage DEF Remembers, ContextTypeOK
  <2>8. Apart'
    <3>1. ASSUME NEW o \in Stored(entries')
          PROVE  Fits(o, unlanded) /\ Fits(o, Covered(rest)) /\ o.of \subseteq 0..made
      <4>1. o \in Stored(entries) \/ o = h
        BY <1>1, <1>6, <2>1, <3>1, StoredByAppend DEF ContextTypeOK
      <4>2. o \in Stored(entries) => Fits(o, unlanded) /\ Fits(o, Covered(landing)) /\ o.of \subseteq 0..made
        BY <1>1 DEF Apart
      <4>3. o \in Stored(entries) => Fits(o, Covered(rest))
        BY <1>2, <4>2 DEF Fits
      <4>4. Fits(h, Covered(rest))
        BY <1>2 DEF Fits
      <4> QED BY <1>2, <4>1, <4>2, <4>3, <4>4
    <3> QED BY <1>1, <1>2, <1>6, <3>1 DEF Apart
  <2> QED BY <2>5, <2>6, <2>7, <2>8 DEF ContextInv
<1>7. CASE Upset /\ unlanded' = unlanded \cup h.of /\ UNCHANGED entries
  <2>1. ~Fits(h, unlanded') /\ \A m \in Kept(unlanded') : m \in Kept(unlanded)
    BY <1>2, <1>7 DEF Fits, Kept
  <2>2. only(only(agentMessages, Kept(unlanded)), Kept(unlanded')) = only(agentMessages, Kept(unlanded'))
    <3>1. Kept(unlanded') \subseteq Kept(unlanded) /\ agentMessages \in Seq(Message)
      BY <1>1, <2>1 DEF ContextTypeOK
    <3> QED BY <3>1, OnlyNarrowed
  <2>3. \A m \in Range(ctx) : Fits(m, unlanded')
    BY <1>2, <1>5, <1>7 DEF Fits
  <2>4. \A m \in Range(rest) : Fits(m, unlanded')
    BY <1>2, <1>7 DEF Fits
  <2> HIDE DEF ctx
  <2>5. only(ctx, Kept(unlanded')) = ctx /\ only(rest, Kept(unlanded')) = rest
    BY <1>2, <1>5, <2>3, <2>4, AllFit
  <2>6. only(landing, Kept(unlanded')) = rest
    <3>1. h \notin Kept(unlanded')
      BY <2>1 DEF Kept
    <3>2. only(<<h>> \o rest, Kept(unlanded')) = only(rest, Kept(unlanded'))
      BY <1>2, <3>1, OnlyOne
    <3> QED BY <1>2, <2>5, <3>2
  <2>7. only(ctx \o landing, Kept(unlanded')) = only(ctx, Kept(unlanded')) \o only(landing, Kept(unlanded'))
    <3>1. landing \in Seq(Message)
      BY <1>1 DEF ContextTypeOK
    <3> QED BY <1>5, <3>1, OnlyConcat
  <2>8. only(agentMessages', Kept(unlanded')) = contextOf(entries') \o landing'
    BY <1>1, <1>4, <1>7, <2>2, <2>5, <2>6, <2>7 DEF ctx
  <2>9. upsets' = upsets + 1 /\ unlanded' \in SUBSET (0..made)
    BY <1>1, <1>2, <1>7 DEF ContextTypeOK, Upset
  <2>10. ContextTypeOK'
    BY <1>1, <1>2, <1>7, <2>9 DEF ContextTypeOK
  <2>11. AgentFollows'
    BY <1>1, <1>3, <2>8 DEF AgentFollows
  <2>12. Remembers'
    BY <1>1, <1>7 DEF Remembers
  <2>13. Apart'
    <3>1. ASSUME NEW o \in Stored(entries)
          PROVE  Fits(o, unlanded') /\ Fits(o, Covered(rest)) /\ o.of \subseteq 0..made
      <4>1. Fits(o, unlanded) /\ Fits(o, Covered(landing)) /\ o.of \subseteq 0..made
        BY <1>1 DEF Apart
      <4> QED BY <1>2, <1>7, <4>1 DEF Fits
    <3>2. \A i \in DOMAIN rest : Fits(rest[i], unlanded')
      BY <1>2, <1>7 DEF Fits
    <3> QED BY <1>1, <1>2, <1>7, <3>1, <3>2 DEF Apart
  <2> QED BY <2>10, <2>11, <2>12, <2>13 DEF ContextInv
<1> QED BY <1>6, <1>7 DEF Lands, h, e

LEMMA GuidesKeeps == ContextInv /\ Guides => ContextInv'
<1> SUFFICES ASSUME ContextInv, Guides PROVE ContextInv'
  OBVIOUS
<1> DEFINE m == Said("guide", Next1, FALSE, 0)
<1>1. /\ ContextTypeOK /\ Apart /\ AgentFollows /\ Remembers
      /\ made' = made + 1 /\ guidance' = <<m>>
      /\ UNCHANGED <<agentMessages, entries, landing, stage, read, upsets, unlanded>>
  BY DEF ContextInv, Guides, Makes
<1>2. m \in Message /\ m.kind = "guide"
  <2>1. Next1 \in SUBSET Nat
    BY <1>1, NewIsNew
  <2>2. \A o \in SUBSET Nat : Said("guide", o, FALSE, 0) \in Message /\ Said("guide", o, FALSE, 0).kind = "guide"
    BY DEF Said, Message
  <2> QED BY <2>1, <2>2
<1> HIDE DEF m
<1>3. 0..made \subseteq 0..(made + 1) /\ made + 1 \in Nat
  BY <1>1 DEF ContextTypeOK
<1>4. guidance' \in Seq(Message) /\ \A i \in DOMAIN guidance' : guidance'[i].kind = "guide"
  BY <1>1, <1>2
<1>5. ContextTypeOK'
  BY <1>1, <1>3, <1>4 DEF ContextTypeOK
<1>6. AgentFollows'
  BY <1>1 DEF AgentFollows, InRun
<1>7. Apart'
  BY <1>1, <1>3, <1>4 DEF Apart
<1>8. Remembers'
  BY <1>1 DEF Remembers
<1> QED BY <1>5, <1>6, <1>7, <1>8 DEF ContextInv

LEMMA CancelsKeeps == ContextInv /\ Cancels => ContextInv'
<1> SUFFICES ASSUME ContextInv, Cancels PROVE ContextInv'
  OBVIOUS
<1>1. ContextTypeOK'
  BY DEF ContextInv, ContextTypeOK, Cancels, Upset
<1>2. Apart' /\ Remembers'
  BY DEF ContextInv, Apart, Remembers, Cancels
<1>3. AgentFollows'
  BY DEF ContextInv, AgentFollows, Cancels, InRun
<1> QED BY <1>1, <1>2, <1>3 DEF ContextInv

LEMMA EndsRunKeeps == ContextInv /\ EndsRun => ContextInv'
<1> SUFFICES ASSUME ContextInv, EndsRun PROVE ContextInv'
  OBVIOUS
<1>1. ContextTypeOK'
  BY DEF ContextInv, ContextTypeOK, EndsRun
<1>2. Apart' /\ Remembers'
  BY DEF ContextInv, Apart, Remembers, EndsRun
<1>3. AgentFollows'
  BY DEF ContextInv, AgentFollows, EndsRun, InRun
<1> QED BY <1>1, <1>2, <1>3 DEF ContextInv

LEMMA LosesPageKeeps == ContextInv /\ LosesPage => ContextInv'
<1> SUFFICES ASSUME ContextInv, LosesPage PROVE ContextInv'
  OBVIOUS
<1>1. /\ ContextTypeOK /\ Apart /\ AgentFollows /\ Remembers
      /\ stage' = "idle" /\ landing' = <<>> /\ unlanded' = unlanded \cup Covered(landing) /\ upsets' = upsets + 1
      /\ UNCHANGED <<agentMessages, entries, guidance, read, made>>
  BY DEF ContextInv, LosesPage, Upset
<1>2. \A x \in Covered(landing) : x \in 0..made
  <2> SUFFICES ASSUME NEW x \in Covered(landing) PROVE x \in 0..made
    OBVIOUS
  <2>1. PICK i \in DOMAIN landing : x \in landing[i].of
    BY CoveredIs
  <2> QED BY <1>1, <2>1 DEF Apart
<1>3. unlanded' \in SUBSET (0..made)
  BY <1>1, <1>2 DEF ContextTypeOK
<1>4. ContextTypeOK'
  BY <1>1, <1>3 DEF ContextTypeOK
<1>5. Apart'
  <2>1. ASSUME NEW o \in Stored(entries)
        PROVE  Fits(o, unlanded') /\ Fits(o, Covered(<<>>)) /\ o.of \subseteq 0..made
    <3>1. Fits(o, unlanded) /\ Fits(o, Covered(landing)) /\ o.of \subseteq 0..made
      BY <1>1 DEF Apart
    <3>2. o.kind \notin {"result", "guide"}
      BY <3>1 DEF Fits
    <3>3. o.of \cap unlanded' = {}
      BY <1>1, <3>1 DEF Fits
    <3> QED BY <3>1, <3>2, <3>3, NothingIsCovered DEF Fits
  <2>2. DOMAIN <<>> = {}
    OBVIOUS
  <2> QED BY <1>1, <2>1, <2>2 DEF Apart
<1>6. AgentFollows'
  BY <1>1 DEF AgentFollows, InRun
<1>7. Remembers'
  BY <1>1 DEF Remembers
<1> QED BY <1>4, <1>5, <1>6, <1>7 DEF ContextInv

LEMMA ContextStutters == ContextInv /\ UNCHANGED contextVars => ContextInv'
<1> SUFFICES ASSUME ContextInv, UNCHANGED contextVars PROVE ContextInv'
  OBVIOUS
<1>1. ContextTypeOK'
  BY DEF ContextInv, ContextTypeOK, contextVars
<1>2. Apart' /\ Remembers'
  BY DEF ContextInv, Apart, Remembers, contextVars
<1>3. AgentFollows'
  BY DEF ContextInv, AgentFollows, contextVars, InRun
<1> QED BY <1>1, <1>2, <1>3 DEF ContextInv

LEMMA ContextStep == ContextInv /\ [ContextNext]_contextVars => ContextInv'
<1> SUFFICES ASSUME ContextInv, [ContextNext]_contextVars PROVE ContextInv'
  OBVIOUS
<1>1. CASE StartsRun
  BY <1>1, StartsRunKeeps
<1>2. CASE NoNeed
  BY <1>2, NoNeedKeeps
<1>3. CASE Needed
  BY <1>3, NeededKeeps
<1>4. CASE SummaryFails
  BY <1>4, SummaryFailsKeeps
<1>5. CASE NotStarted
  BY <1>5, NotStartedKeeps
<1>6. CASE \E n \in 1..MaxMessages : Summarized(n)
  <2>1. PICK n \in 1..MaxMessages : Summarized(n)
    BY <1>6
  <2>2. n \in Nat
    BY ContextAssumption
  <2> QED BY <2>1, <2>2, SummarizedKeeps
<1>7. CASE \E image \in BOOLEAN : Prompts(image)
  BY <1>7, PromptsKeeps
<1>8. CASE \E kind \in {"call", "answer"} : Answers(kind)
  BY <1>8, AnswersKeeps
<1>9. CASE \E image, last \in BOOLEAN : ToolAnswers(image, last)
  BY <1>9, ToolAnswersKeeps
<1>10. CASE Lands
  BY <1>10, LandsKeeps
<1>11. CASE Guides
  BY <1>11, GuidesKeeps
<1>12. CASE Cancels
  BY <1>12, CancelsKeeps
<1>13. CASE EndsRun
  BY <1>13, EndsRunKeeps
<1>14. CASE LosesPage
  BY <1>14, LosesPageKeeps
<1>15. CASE UNCHANGED contextVars
  BY <1>15, ContextStutters
<1> QED BY <1>1, <1>2, <1>3, <1>4, <1>5, <1>6, <1>7, <1>8, <1>9, <1>10, <1>11, <1>12, <1>13, <1>14, <1>15
        DEF ContextNext

LEMMA ContextInvIsSound == ContextInv => ContextSound
<1> SUFFICES ASSUME ContextInv, InRun
    PROVE  conversation = contextOf(entries) \o landing
           /\ \A i \in DOMAIN entries : entries[i].message.of \subseteq Covered(agentMessages)
  BY DEF ContextSound, ContextIsSession, NothingForgotten
<1> DEFINE ctx == contextOf(entries)
           K == {m \in Range(agentMessages) : m.kind \notin {"result", "guide"} /\ m.of \cap unlanded = {}}
<1>1. ContextTypeOK /\ Remembers /\ only(agentMessages, Kept(unlanded)) = ctx \o landing
      /\ agentMessages \in Seq(Message) /\ landing \in Seq(Message)
  BY DEF ContextInv, AgentFollows, ContextTypeOK
<1>2. ctx \in Seq(Message)
  BY ContextFits
<1>3. Range(agentMessages) \cap K = Range(agentMessages) \cap Kept(unlanded)
  BY <1>1, RangeOfSeq DEF Kept, Fits
<1>4. conversation = only(agentMessages, K)
  BY DEF conversation
<1> HIDE DEF K, ctx
<1>5. only(agentMessages, K) = only(agentMessages, Kept(unlanded))
  BY <1>1, <1>3, OnlySame
<1>6. Range(ctx) \subseteq Range(agentMessages)
  <2>1. Range(only(agentMessages, Kept(unlanded))) = Range(agentMessages) \cap Kept(unlanded)
    BY <1>1, OnlyRange
  <2>2. Range(ctx \o landing) = Range(ctx) \cup Range(landing)
    BY <1>1, <1>2, RangeConcatenation
  <2> QED BY <1>1, <2>1, <2>2
<1>7. \A i \in DOMAIN entries : entries[i].message.of \subseteq Covered(agentMessages)
  <2>1. \A x : x \in Covered(ctx) => x \in Covered(agentMessages)
    BY <1>6, CoveredByRange
  <2> QED BY <1>1, <2>1 DEF Remembers, Remembered, ctx
<1> QED BY <1>1, <1>4, <1>5, <1>7 DEF ctx

\* In a run, what the model is shown is the session: the last summary, its
\* tail and all that followed, with the answers that are being written behind;
\* and whatever the session stored is in front of the model, in its own words
\* or in a summary. (piSession.ts, piCompaction.ts)
THEOREM ContextIsSound == ContextSpec => []ContextSound
<1>1. ContextInit => ContextInv
  BY InitContextInv
<1>2. ContextInv /\ [ContextNext]_contextVars => ContextInv'
  BY ContextStep
<1>3. ContextInv => ContextSound
  BY ContextInvIsSound
<1> QED BY <1>1, <1>2, <1>3, PTL DEF ContextSpec

-----------------------------------------------------------------------------
(***************************************************************************)
(* The session storage.  First the tree of its entries: each comes behind  *)
(* its parent, so the walk from any of them ends, and copies of a part of  *)
(* the tree walk as the whole does.                                        *)
(***************************************************************************)
\* Entries that each come behind their parent.
Chained(e, p) ==
  /\ \A i, j \in DOMAIN e : e[i] = e[j] => i = j
  /\ \A i \in DOMAIN e : p[e[i]] = Null \/ \E j \in 1..(i - 1) : e[j] = p[e[i]]

\* The entries e among the ids, and the parents p they have.
Tree(e, p) ==
  /\ e \in Seq(Id) /\ Chained(e, p)
  /\ Range(e) \subseteq DOMAIN p

\* The entries up to j, with what is above the first ones.
Above(e, j) == {e[x] : x \in 1..j} \cup {Null}

walksUp(e) == [Range(e) \cup {Null} -> Seq(Id)]

LEMMA ParentAbove ==
  ASSUME NEW e, NEW p, Tree(e, p), NEW j \in 0..(Len(e) - 1)
  PROVE  /\ p[e[j + 1]] \in Above(e, j)
         /\ e[j + 1] \notin Above(e, j)
         /\ e[j + 1] \in Id /\ e[j + 1] # Null
         /\ e[j + 1] \in Range(e)
         /\ Above(e, j) \subseteq Above(e, j + 1)
         /\ Above(e, j + 1) \subseteq Above(e, j) \cup {e[j + 1]}
         /\ e[j + 1] \in Above(e, j + 1)
<1>1. Len(e) \in Nat /\ DOMAIN e = 1..Len(e) /\ j + 1 \in DOMAIN e /\ j \in Nat
  BY LenProperties DEF Tree
<1>2. e[j + 1] \in Id /\ e[j + 1] # Null
  BY <1>1, ElementOfSeq, StorageAssumption DEF Tree
<1>3. p[e[j + 1]] \in Above(e, j)
  <2>1. p[e[j + 1]] = Null \/ \E x \in 1..((j + 1) - 1) : e[x] = p[e[j + 1]]
    BY <1>1 DEF Tree, Chained
  <2>2. (j + 1) - 1 = j
    BY <1>1
  <2> QED BY <2>1, <2>2 DEF Above
<1>4. e[j + 1] \notin Above(e, j)
  <2> SUFFICES ASSUME NEW x \in 1..j, e[x] = e[j + 1] PROVE FALSE
    BY <1>2 DEF Above
  <2>1. x \in DOMAIN e
    BY <1>1
  <2>2. x = j + 1
    BY <2>1, <1>1 DEF Tree, Chained
  <2> QED BY <2>2, <1>1
<1>5. e[j + 1] \in Range(e)
  BY <1>1 DEF Range
<1>6. /\ Above(e, j) \subseteq Above(e, j + 1)
      /\ Above(e, j + 1) \subseteq Above(e, j) \cup {e[j + 1]}
      /\ e[j + 1] \in Above(e, j + 1)
  BY <1>1 DEF Above
<1> QED BY <1>2, <1>3, <1>4, <1>5, <1>6

LEMMA AboveAll ==
  ASSUME NEW e \in Seq(Id)
  PROVE  Above(e, Len(e)) = Range(e) \cup {Null} /\ Above(e, 0) = {Null}
         /\ \A j \in 0..Len(e) : Above(e, j) \subseteq Range(e) \cup {Null}
<1>1. Len(e) \in Nat /\ DOMAIN e = 1..Len(e)
  BY LenProperties
<1> QED BY <1>1 DEF Above, Range

\* The walk up from every entry, one step longer each time.
\* u has the last k entries of each way up, for every k.
WalksUp(u, e, p) ==
  /\ u \in [0..Len(e) -> walksUp(e)]
  /\ \A k \in 0..Len(e) : u[k][Null] = <<>>
  /\ \A k \in 1..Len(e), i \in Range(e) : u[k][i] = Append(u[k - 1][p[i]], i)

LEMMA WalkToRoot ==
  ASSUME NEW e, NEW p, Tree(e, p)
  PROVE  WalksUp(walkToRoot(e, p), e, p)
<1> DEFINE W == walksUp(e)
           T == Range(e) \cup {Null}
           zero == [i \in T |-> <<>>]
           longer(w) == [i \in T |-> IF i = Null THEN <<>> ELSE Append(w[p[i]], i)]
           step == [k \in 1..Len(e) |-> [w \in W |-> longer(w)]]
<1>1. Len(e) \in Nat /\ e \in Seq(Id) /\ DOMAIN e = 1..Len(e)
  BY LenProperties DEF Tree
<1>2. \A i \in Range(e) : i \in Id /\ i # Null /\ p[i] \in T
  <2> SUFFICES ASSUME NEW i \in Range(e) PROVE i \in Id /\ i # Null /\ p[i] \in T
    OBVIOUS
  <2>1. PICK x \in 1..Len(e) : i = e[x]
    BY <1>1 DEF Range
  <2> DEFINE j == x - 1
  <2>2. j \in 0..(Len(e) - 1) /\ j + 1 = x /\ j \in 0..Len(e)
    BY <1>1
  <2> HIDE DEF j
  <2>3. p[e[j + 1]] \in Above(e, j) /\ e[j + 1] \in Id /\ e[j + 1] # Null
    BY <2>2, ParentAbove
  <2> QED BY <2>1, <2>2, <2>3, <1>1, AboveAll
<1>3. zero \in W
  BY DEF walksUp
<1>4. \A w \in W : longer(w) \in W
  <2> SUFFICES ASSUME NEW w \in W, NEW i \in T
        PROVE (IF i = Null THEN <<>> ELSE Append(w[p[i]], i)) \in Seq(Id)
    BY DEF walksUp
  <2>1. CASE i = Null
    BY <2>1
  <2>2. CASE i # Null
    <3>1. i \in Range(e) /\ i \in Id /\ p[i] \in T
      BY <2>2, <1>2
    <3>2. w[p[i]] \in Seq(Id)
      BY <3>1 DEF walksUp
    <3> QED BY <2>2, <3>1, <3>2
  <2> QED BY <2>1, <2>2
<1>5. step \in [1..Len(e) -> [W -> W]]
  BY <1>4
<1> HIDE DEF W
<1>6. PICK f : Steps(Len(e), W, zero, step, f)
  <2> HIDE DEF step, zero
  <2> QED BY <1>1, <1>3, <1>5, StepByStep
<1>7. /\ f \in [0..Len(e) -> W] /\ f[0] = zero
      /\ \A k \in 1..Len(e) : f[k] = longer(f[k - 1])
  <2>1. f \in [0..Len(e) -> W] /\ f[0] = zero /\ \A k \in 1..Len(e) : f[k] = step[k][f[k - 1]]
    <3> HIDE DEF step, zero
    <3> QED BY <1>6 DEF Steps
  <2>2. ASSUME NEW k \in 1..Len(e) PROVE f[k] = longer(f[k - 1])
    <3>1. k - 1 \in 0..Len(e)
      BY <1>1
    <3>2. f[k - 1] \in W
      BY <2>1, <3>1
    <3> HIDE DEF longer
    <3>3. step[k][f[k - 1]] = longer(f[k - 1])
      BY <3>2
    <3> QED BY <2>1, <3>3
  <2> HIDE DEF step, zero, longer
  <2> QED BY <2>1, <2>2
<1> HIDE DEF step
<1>8. f = [k \in 0..Len(e) |-> [i \in T |-> IF k = 0 \/ i = Null THEN <<>> ELSE Append(f[k - 1][p[i]], i)]]
  <2> DEFINE g == [k \in 0..Len(e) |-> [i \in T |-> IF k = 0 \/ i = Null THEN <<>> ELSE Append(f[k - 1][p[i]], i)]]
  <2>1. ASSUME NEW k \in 0..Len(e) PROVE f[k] = g[k]
    <3>1. CASE k = 0
      <4>1. f[k] = zero
        BY <3>1, <1>7
      <4>2. g[k] = [i \in T |-> <<>>]
        BY <3>1
      <4> QED BY <4>1, <4>2
    <3>2. CASE k # 0
      <4>1. k \in 1..Len(e)
        BY <3>2, <1>1
      <4>2. f[k] = longer(f[k - 1])
        BY <4>1, <1>7
      <4>3. g[k] = [i \in T |-> IF i = Null THEN <<>> ELSE Append(f[k - 1][p[i]], i)]
        BY <3>2
      <4> QED BY <4>2, <4>3
    <3> QED BY <3>1, <3>2
  <2>2. DOMAIN g = 0..Len(e) /\ g = [k \in 0..Len(e) |-> g[k]]
    OBVIOUS
  <2>3. f = [k \in 0..Len(e) |-> f[k]]
    BY <1>7
  <2> HIDE DEF g
  <2>4. f = g
    BY <2>1, <2>2, <2>3
  <2> QED BY <2>4 DEF g
<1> DEFINE u == walkToRoot(e, p)
<1>9. u = [k \in 0..Len(e) |-> [i \in T |-> IF k = 0 \/ i = Null THEN <<>> ELSE Append(u[k - 1][p[i]], i)]]
  BY <1>8 DEF walkToRoot
<1> HIDE DEF u
<1>10. /\ DOMAIN u = 0..Len(e) /\ u[0] = zero
       /\ \A k \in 1..Len(e) : u[k] = longer(u[k - 1])
  <2>1. DOMAIN u = 0..Len(e) /\ 0 \in 0..Len(e)
    BY <1>9, <1>1
  <2>2. u[0] = [i \in T |-> IF 0 = 0 \/ i = Null THEN <<>> ELSE Append(u[0 - 1][p[i]], i)]
    BY <1>9, <2>1
  <2>3. ASSUME NEW k \in 1..Len(e) PROVE u[k] = longer(u[k - 1])
    <3>1. k \in 0..Len(e) /\ k # 0
      BY <1>1
    <3>2. u[k] = [i \in T |-> IF k = 0 \/ i = Null THEN <<>> ELSE Append(u[k - 1][p[i]], i)]
      BY <1>9, <3>1
    <3> QED BY <3>1, <3>2
  <2> QED BY <2>1, <2>2, <2>3
<1>11. \A k \in 0..Len(e) : u[k] \in W
  <2> DEFINE G == {k \in Nat : k <= Len(e) => u[k] \in W}
  <2>1. 0 \in G
    BY <1>10, <1>3
  <2>2. ASSUME NEW k \in Nat, k \in G PROVE k + 1 \in G
    <3> SUFFICES ASSUME k + 1 <= Len(e) PROVE u[k + 1] \in W
      BY <2>2
    <3>1. u[k] \in W /\ k + 1 \in 1..Len(e) /\ (k + 1) - 1 = k
      BY <2>2, <1>1
    <3> HIDE DEF longer
    <3>2. u[k + 1] = longer(u[k])
      BY <1>10, <3>1
    <3> QED BY <1>4, <3>1, <3>2 DEF W
  <2> HIDE DEF G
  <2>3. Nat \subseteq G
    BY <2>1, <2>2, EveryNumber
  <2> QED BY <2>3, <1>1 DEF G
<1>12. \A k \in 0..Len(e) : u[k][Null] = <<>>
  <2> SUFFICES ASSUME NEW k \in 0..Len(e) PROVE u[k][Null] = <<>>
    OBVIOUS
  <2>1. CASE k = 0
    BY <2>1, <1>10
  <2>2. CASE k # 0
    <3>1. k \in 1..Len(e)
      BY <2>2, <1>1
    <3> QED BY <3>1, <1>10
  <2> QED BY <2>1, <2>2
<1>13. ASSUME NEW k \in 1..Len(e), NEW i \in Range(e) PROVE u[k][i] = Append(u[k - 1][p[i]], i)
  <2>1. i \in T /\ i # Null
    BY <1>2
  <2>2. u[k] = longer(u[k - 1])
    BY <1>10
  <2> QED BY <2>1, <2>2
<1>14. u \in [0..Len(e) -> W]
  <2>1. u = [k \in 0..Len(e) |-> u[k]]
    BY <1>9
  <2> QED BY <2>1, <1>11
<1>15. WalksUp(u, e, p)
  BY <1>12, <1>13, <1>14 DEF WalksUp, W
<1> QED BY <1>15 DEF u

\* A walk that is as long as the entry is far up does not change when it is
\* longer.
LEMMA WalkEnds ==
  ASSUME NEW e, NEW p, Tree(e, p), NEW j \in 0..Len(e), NEW k \in j..Len(e), NEW m \in j..Len(e),
         NEW i \in Above(e, j)
  PROVE  walkToRoot(e, p)[k][i] = walkToRoot(e, p)[m][i]
<1> DEFINE u == walkToRoot(e, p)
           G == {n \in Nat : n <= Len(e) =>
                   \A a, b \in n..Len(e) : \A x \in Above(e, n) : u[a][x] = u[b][x]}
<1>0. WalksUp(u, e, p)
  BY WalkToRoot
<1>1. Len(e) \in Nat /\ e \in Seq(Id) /\ DOMAIN e = 1..Len(e)
  BY LenProperties DEF Tree
<1> HIDE DEF u
<1>2. /\ \A a \in 0..Len(e) : u[a][Null] = <<>>
      /\ \A a \in 1..Len(e), x \in Range(e) : u[a][x] = Append(u[a - 1][p[x]], x)
  BY <1>0 DEF WalksUp
<1>3. 0 \in G
  <2>1. Above(e, 0) = {Null}
    BY <1>1, AboveAll
  <2> QED BY <2>1, <1>2
<1>4. ASSUME NEW n \in Nat, n \in G PROVE n + 1 \in G
  <2> SUFFICES ASSUME n + 1 <= Len(e), NEW a \in (n + 1)..Len(e), NEW b \in (n + 1)..Len(e),
                      NEW x \in Above(e, n + 1)
        PROVE u[a][x] = u[b][x]
    OBVIOUS
  <2>1. n \in 0..(Len(e) - 1)
    BY <1>1
  <2>2. /\ a \in n..Len(e) /\ b \in n..Len(e) /\ a - 1 \in n..Len(e) /\ b - 1 \in n..Len(e)
        /\ a \in 1..Len(e) /\ b \in 1..Len(e) /\ n <= Len(e)
    BY <1>1
  <2>3. CASE x \in Above(e, n)
    BY <2>2, <2>3, <1>4
  <2>4. CASE x \notin Above(e, n)
    <3>1. x = e[n + 1] /\ x \in Range(e) /\ p[x] \in Above(e, n)
      BY <2>1, <2>4, ParentAbove
    <3>2. u[a - 1][p[x]] = u[b - 1][p[x]]
      BY <2>2, <3>1, <1>4
    <3>3. u[a][x] = Append(u[a - 1][p[x]], x) /\ u[b][x] = Append(u[b - 1][p[x]], x)
      BY <1>2, <2>2, <3>1
    <3> QED BY <3>2, <3>3
  <2> QED BY <2>3, <2>4
<1>5. j \in G
  <2> HIDE DEF G
  <2> QED BY <1>1, <1>3, <1>4, EveryNumber
<1> QED BY <1>5, <1>1 DEF u

\* The whole way from an entry up to its root.
path(e, p, i) == walkToRoot(e, p)[Len(e)][i]

LEMMA PathStep ==
  ASSUME NEW e, NEW p, Tree(e, p)
  PROVE  /\ path(e, p, Null) = <<>>
         /\ \A i \in Range(e) : path(e, p, i) = Append(path(e, p, p[i]), i)
         /\ \A i \in Range(e) \cup {Null} : path(e, p, i) \in Seq(Id)
<1> DEFINE u == walkToRoot(e, p)
<1>1. Len(e) \in Nat /\ e \in Seq(Id) /\ DOMAIN e = 1..Len(e) /\ Len(e) \in 0..Len(e)
  BY LenProperties DEF Tree
<1>2. WalksUp(u, e, p)
  BY WalkToRoot
<1> HIDE DEF u
<1>3. u \in [0..Len(e) -> walksUp(e)]
  BY <1>2 DEF WalksUp
<1>4. /\ \A a \in 0..Len(e) : u[a][Null] = <<>>
      /\ \A a \in 1..Len(e), x \in Range(e) : u[a][x] = Append(u[a - 1][p[x]], x)
  BY <1>2 DEF WalksUp
<1>5. ASSUME NEW i \in Range(e) PROVE u[Len(e)][i] = Append(u[Len(e)][p[i]], i)
  <2>1. PICK x \in 1..Len(e) : i = e[x]
    BY <1>1 DEF Range
  <2> DEFINE j == x - 1
             k == Len(e) - 1
  <2>2. /\ j \in 0..(Len(e) - 1) /\ j + 1 = x /\ j \in 0..Len(e)
        /\ k \in j..Len(e) /\ Len(e) \in j..Len(e) /\ Len(e) \in 1..Len(e)
    BY <1>1
  <2> HIDE DEF j
  <2>3. p[e[j + 1]] \in Above(e, j)
    BY <2>2, ParentAbove
  <2>4. p[i] \in Above(e, j)
    BY <2>1, <2>2, <2>3
  <2>5. u[k][p[i]] = u[Len(e)][p[i]]
    BY <2>2, <2>4, WalkEnds DEF u
  <2>6. u[Len(e)][i] = Append(u[Len(e) - 1][p[i]], i)
    BY <2>2, <1>4
  <2> QED BY <2>5, <2>6
<1>6. \A i \in Range(e) \cup {Null} : u[Len(e)][i] \in Seq(Id)
  BY <1>1, <1>3 DEF walksUp
<1> QED BY <1>1, <1>4, <1>5, <1>6 DEF path, u

\* In a part of a tree that has the parents of what it has, the ways up are
\* those of the whole.
LEMMA PathOfPart ==
  ASSUME NEW e, NEW p, Tree(e, p), NEW f, NEW q, Tree(f, q),
         Range(f) \subseteq Range(e), \A i \in Range(f) : q[i] = p[i],
         NEW i \in Range(f) \cup {Null}
  PROVE  path(f, q, i) = path(e, p, i)
<1> DEFINE G == {n \in Nat : n <= Len(f) => \A x \in Above(f, n) : path(f, q, x) = path(e, p, x)}
<1>1. Len(f) \in Nat /\ f \in Seq(Id) /\ DOMAIN f = 1..Len(f)
  BY LenProperties DEF Tree
<1>2. /\ path(e, p, Null) = <<>>
      /\ \A x \in Range(e) : path(e, p, x) = Append(path(e, p, p[x]), x)
      /\ path(f, q, Null) = <<>>
      /\ \A x \in Range(f) : path(f, q, x) = Append(path(f, q, q[x]), x)
  BY PathStep
<1>3. 0 \in G
  <2>1. Above(f, 0) = {Null}
    BY <1>1, AboveAll
  <2> QED BY <2>1, <1>2
<1>4. ASSUME NEW n \in Nat, n \in G PROVE n + 1 \in G
  <2> SUFFICES ASSUME n + 1 <= Len(f), NEW x \in Above(f, n + 1)
        PROVE path(f, q, x) = path(e, p, x)
    OBVIOUS
  <2>1. n \in 0..(Len(f) - 1) /\ n <= Len(f)
    BY <1>1
  <2>3. CASE x \in Above(f, n)
    BY <2>1, <2>3, <1>4
  <2>4. CASE x \notin Above(f, n)
    <3>1. x = f[n + 1] /\ x \in Range(f) /\ q[x] \in Above(f, n)
      BY <2>1, <2>4, ParentAbove
    <3>2. path(f, q, q[x]) = path(e, p, q[x])
      BY <2>1, <3>1, <1>4
    <3>3. q[x] = p[x] /\ x \in Range(e)
      BY <3>1
    <3> QED BY <1>2, <3>1, <3>2, <3>3
  <2> QED BY <2>3, <2>4
<1>5. Len(f) \in G
  <2> HIDE DEF G
  <2> QED BY <1>1, <1>3, <1>4, EveryNumber
<1>6. i \in Above(f, Len(f))
  BY <1>1, AboveAll
<1> QED BY <1>1, <1>5, <1>6

\* A chain with one more entry behind it.
LEMMA ChainGrows ==
  ASSUME NEW c \in Seq(Id), NEW p, NEW i \in Id, Chained(c, p), i \notin Range(c),
         p[i] \in Range(c) \cup {Null}
  PROVE  Chained(Append(c, i), p)
<1> DEFINE d == Append(c, i)
<1>1. /\ Len(c) \in Nat /\ DOMAIN c = 1..Len(c) /\ DOMAIN d = 1..(Len(c) + 1)
      /\ d[Len(c) + 1] = i /\ \A x \in 1..Len(c) : d[x] = c[x]
  BY AppendProperties, LenProperties
<1> HIDE DEF d
<1>2. ASSUME NEW x \in DOMAIN d, NEW y \in DOMAIN d, d[x] = d[y] PROVE x = y
  <2>1. \A z \in 1..Len(c) : d[z] \in Range(c) /\ d[z] # i
    BY <1>1 DEF Range
  <2>2. CASE x = Len(c) + 1 \/ y = Len(c) + 1
    BY <1>1, <1>2, <2>1, <2>2
  <2>3. CASE x # Len(c) + 1 /\ y # Len(c) + 1
    <3>1. x \in 1..Len(c) /\ y \in 1..Len(c)
      BY <1>1, <2>3
    <3> QED BY <1>1, <1>2, <3>1 DEF Chained
  <2> QED BY <2>2, <2>3
<1>3. ASSUME NEW x \in DOMAIN d PROVE p[d[x]] = Null \/ \E y \in 1..(x - 1) : d[y] = p[d[x]]
  <2>1. CASE x = Len(c) + 1
    <3>1. d[x] = i /\ x - 1 = Len(c)
      BY <1>1, <2>1
    <3>2. CASE p[i] = Null
      BY <3>1, <3>2
    <3>3. CASE p[i] # Null
      <4>1. PICK y \in 1..Len(c) : c[y] = p[i]
        BY <3>3, <1>1 DEF Range
      <4> QED BY <4>1, <3>1, <1>1
    <3> QED BY <3>2, <3>3
  <2>2. CASE x # Len(c) + 1
    <3>1. x \in 1..Len(c) /\ d[x] = c[x] /\ x \in DOMAIN c
      BY <1>1, <2>2
    <3>2. p[c[x]] = Null \/ \E y \in 1..(x - 1) : c[y] = p[c[x]]
      BY <3>1 DEF Chained
    <3>3. \A y \in 1..(x - 1) : d[y] = c[y]
      BY <1>1, <3>1
    <3> QED BY <3>1, <3>2, <3>3
  <2> QED BY <2>1, <2>2
<1> QED BY <1>2, <1>3 DEF Chained, d

\* The way up from an entry is a chain of its own that ends with the entry.
LEMMA PathIsChain ==
  ASSUME NEW e, NEW p, Tree(e, p), NEW i \in Range(e) \cup {Null}
  PROVE  /\ path(e, p, i) \in Seq(Id) /\ Range(path(e, p, i)) \subseteq Range(e)
         /\ Chained(path(e, p, i), p)
         /\ i \in Range(path(e, p, i)) \cup {Null}
<1> DEFINE Good(x, S) == /\ path(e, p, x) \in Seq(Id) /\ Range(path(e, p, x)) \subseteq S
                         /\ Null \notin Range(path(e, p, x))
                         /\ Chained(path(e, p, x), p) /\ x \in Range(path(e, p, x)) \cup {Null}
           G == {n \in Nat : n <= Len(e) => \A x \in Above(e, n) : Good(x, Above(e, n))}
<1>1. Len(e) \in Nat /\ e \in Seq(Id) /\ DOMAIN e = 1..Len(e)
  BY LenProperties DEF Tree
<1>2. /\ path(e, p, Null) = <<>>
      /\ \A x \in Range(e) : path(e, p, x) = Append(path(e, p, p[x]), x)
      /\ \A x \in Range(e) \cup {Null} : path(e, p, x) \in Seq(Id)
  BY PathStep
<1>3. 0 \in G
  <2>1. Above(e, 0) = {Null}
    BY <1>1, AboveAll
  <2>2. <<>> \in Seq(Id) /\ Range(<<>>) = {} /\ Chained(<<>>, p)
    BY DEF Range, Chained
  <2>3. Good(Null, Above(e, 0))
    BY <2>2, <1>2
  <2> QED BY <2>1, <2>3
<1>4. ASSUME NEW n \in Nat, n \in G PROVE n + 1 \in G
  <2> SUFFICES ASSUME n + 1 <= Len(e), NEW x \in Above(e, n + 1)
        PROVE Good(x, Above(e, n + 1))
    OBVIOUS
  <2>1. n \in 0..(Len(e) - 1) /\ n <= Len(e)
    BY <1>1
  <2>2. Above(e, n) \subseteq Above(e, n + 1)
    BY <2>1, ParentAbove
  <2>3. CASE x \in Above(e, n)
    BY <2>1, <2>2, <2>3, <1>4
  <2>4. CASE x \notin Above(e, n)
    <3>1. x = e[n + 1] /\ x \in Range(e) /\ p[x] \in Above(e, n) /\ x \in Id /\ x # Null /\ x \in Above(e, n + 1)
      BY <2>1, <2>4, ParentAbove
    <3>2. Good(p[x], Above(e, n))
      BY <2>1, <3>1, <1>4
    <3> DEFINE c == path(e, p, p[x])
    <3>3. /\ c \in Seq(Id) /\ Range(c) \subseteq Above(e, n) /\ Null \notin Range(c) /\ Chained(c, p)
          /\ p[x] \in Range(c) \cup {Null} /\ path(e, p, x) = Append(c, x)
      BY <3>1, <3>2, <1>2
    <3> HIDE DEF c
    <3>4. Range(Append(c, x)) = Range(c) \cup {x} /\ Append(c, x) \in Seq(Id)
      BY <3>1, <3>3, RangeOfAppend
    <3>5. Chained(Append(c, x), p)
      BY <2>4, <3>1, <3>3, ChainGrows
    <3> QED BY <2>2, <3>1, <3>3, <3>4, <3>5
  <2> QED BY <2>3, <2>4
<1>5. Len(e) \in G
  <2> HIDE DEF G
  <2> QED BY <1>1, <1>3, <1>4, EveryNumber
<1>6. Above(e, Len(e)) = Range(e) \cup {Null}
  BY <1>1, AboveAll
<1>7. Good(i, Range(e) \cup {Null})
  BY <1>1, <1>5, <1>6
<1> QED BY <1>7

-----------------------------------------------------------------------------
(***************************************************************************)
(* The states a log replays to, and what each kind of mutation does to     *)
(* them.                                                                   *)
(***************************************************************************)
\* The mutations a log may have.
EntryMutations == [kind : {"entry"}, id : Id, lane : Lanes \cup {Null}, parent : Id \cup {Null}]
RecordMutations ==
  [kind : {"record"}, id : Id, lane : Lanes, type : {"started", "finished"}, run : Id \cup {Null}]
LaneMutations == [kind : {"lane"}, lane : Lanes, leaf : Id \cup {Null}]
NameMutations == [kind : {"name"}]
LabelMutations == [kind : {"label"}, target : Id, set : BOOLEAN]

Mutations ==
  EntryMutations \cup RecordMutations \cup LaneMutations \cup NameMutations \cup LabelMutations

\* The functions from some of A to B.
PartialMaps(A, B) == UNION {[D -> B] : D \in SUBSET A}

Shapes ==
  [ok : BOOLEAN, sequence : Nat, usedIds : SUBSET Id, entries : Seq(Id),
   parentId : PartialMaps(Id, Id \cup {Null}), lanes : PartialMaps(Lanes, Id \cup {Null}),
   open : SUBSET (Lanes \X Id), labels : SUBSET Id]

\* Every entry is behind its parent, lanes and labels are on entries, and
\* the ids of entries are in use.
FitsStorage(st) ==
  /\ ids(st) \subseteq st.usedIds
  /\ DOMAIN st.parentId = ids(st)
  /\ Chained(st.entries, st.parentId)
  /\ "main" \in DOMAIN st.lanes /\ IsFiniteSet(DOMAIN st.lanes)
  /\ \A l \in DOMAIN st.lanes : hasTarget(st, st.lanes[l])
  /\ st.labels \subseteq ids(st)

States == {st \in Shapes : FitsStorage(st)}

LEMMA PartialMap ==
  ASSUME NEW A, NEW B, NEW f
  PROVE  f \in PartialMaps(A, B) <=> f \in [DOMAIN f -> B] /\ DOMAIN f \subseteq A
BY DEF PartialMaps

LEMMA EmptyStateFits == EmptyState \in States
<1>1. EmptyState.parentId \in PartialMaps(Id, Id \cup {Null})
  <2>1. EmptyState.parentId \in [DOMAIN EmptyState.parentId -> Id \cup {Null}]
        /\ DOMAIN EmptyState.parentId \subseteq Id
    BY DEF EmptyState
  <2> QED BY <2>1, PartialMap
<1>2. EmptyState.lanes \in PartialMaps(Lanes, Id \cup {Null})
  <2>1. EmptyState.lanes \in [DOMAIN EmptyState.lanes -> Id \cup {Null}]
        /\ DOMAIN EmptyState.lanes \subseteq Lanes
    BY DEF EmptyState, Lanes
  <2> QED BY <2>1, PartialMap
<1>3. EmptyState \in Shapes
  <2>1. <<>> \in Seq(Id)
    OBVIOUS
  <2> QED BY <1>1, <1>2, <2>1 DEF EmptyState, Shapes
<1>4. ids(EmptyState) = {} /\ EmptyState.entries = <<>> /\ DOMAIN EmptyState.parentId = {}
  BY DEF EmptyState, ids, Range
<1>5. Chained(EmptyState.entries, EmptyState.parentId)
  BY <1>4 DEF Chained
<1>6. DOMAIN EmptyState.lanes = {"main"} /\ EmptyState.lanes["main"] = Null /\ EmptyState.labels = {}
  BY DEF EmptyState
<1>7. IsFiniteSet({"main"})
  BY FS_Singleton
<1> QED BY <1>3, <1>4, <1>5, <1>6, <1>7 DEF States, FitsStorage, hasTarget

LEMMA StateFacts ==
  ASSUME NEW st \in States
  PROVE  /\ st \in Shapes /\ FitsStorage(st)
         /\ st.ok \in BOOLEAN /\ st.sequence \in Nat /\ st.usedIds \subseteq Id
         /\ st.entries \in Seq(Id)
         /\ st.parentId \in [ids(st) -> Id \cup {Null}] /\ ids(st) \subseteq Id
         /\ st.lanes \in [DOMAIN st.lanes -> Id \cup {Null}] /\ DOMAIN st.lanes \subseteq Lanes
         /\ st.open \subseteq Lanes \X Id
         /\ Tree(st.entries, st.parentId)
<1>1. st \in Shapes /\ FitsStorage(st)
  BY DEF States
<1>2. /\ st.ok \in BOOLEAN /\ st.sequence \in Nat /\ st.usedIds \subseteq Id
      /\ st.entries \in Seq(Id)
      /\ st.parentId \in PartialMaps(Id, Id \cup {Null})
      /\ st.lanes \in PartialMaps(Lanes, Id \cup {Null})
      /\ st.open \subseteq Lanes \X Id
  BY <1>1 DEF Shapes
<1>3. /\ st.parentId \in [DOMAIN st.parentId -> Id \cup {Null}]
      /\ st.lanes \in [DOMAIN st.lanes -> Id \cup {Null}] /\ DOMAIN st.lanes \subseteq Lanes
  BY <1>2, PartialMap
<1>4. DOMAIN st.parentId = ids(st) /\ ids(st) \subseteq Id
  BY <1>1, <1>2 DEF FitsStorage
<1>5. Tree(st.entries, st.parentId)
  BY <1>1, <1>2, <1>4 DEF Tree, FitsStorage, ids
<1> QED BY <1>1, <1>2, <1>3, <1>4, <1>5

\* What applyMutation does to a state that accepts the mutation, and to one
\* that does not.
LEMMA Refuses ==
  ASSUME NEW st \in States, NEW n, NEW m, ~accepts(st, n, m)
  PROVE  /\ applyMutation(st, n, m) \in States /\ ~applyMutation(st, n, m).ok
         /\ applyMutation(st, n, m).sequence = st.sequence
         /\ applyMutation(st, n, m).open = st.open
<1> DEFINE new == [st EXCEPT !.ok = FALSE]
<1>1. applyMutation(st, n, m) = new
  BY DEF applyMutation
<1>2. st \in Shapes /\ FitsStorage(st)
  BY StateFacts
<1>3. /\ new \in Shapes /\ ~new.ok /\ new.sequence = st.sequence /\ new.usedIds = st.usedIds
      /\ new.entries = st.entries /\ new.parentId = st.parentId /\ new.lanes = st.lanes
      /\ new.open = st.open /\ new.labels = st.labels
  BY <1>2 DEF Shapes
<1> HIDE DEF new
<1>4. FitsStorage(new)
  BY <1>2, <1>3 DEF FitsStorage, ids, hasTarget
<1> QED BY <1>1, <1>3, <1>4 DEF States

LEMMA LaneSet ==
  ASSUME NEW st \in States, NEW l \in Lanes, NEW i \in Id \cup {Null}
  PROVE  /\ withLane(st, l, i) \in PartialMaps(Lanes, Id \cup {Null})
         /\ DOMAIN withLane(st, l, i) = DOMAIN st.lanes \cup {l}
         /\ IsFiniteSet(DOMAIN withLane(st, l, i)) /\ "main" \in DOMAIN withLane(st, l, i)
         /\ withLane(st, l, i)[l] = i
         /\ \A x \in DOMAIN st.lanes : x # l => withLane(st, l, i)[x] = st.lanes[x]
<1> DEFINE w == withLane(st, l, i)
<1>1. /\ st.lanes \in [DOMAIN st.lanes -> Id \cup {Null}] /\ DOMAIN st.lanes \subseteq Lanes
      /\ "main" \in DOMAIN st.lanes /\ IsFiniteSet(DOMAIN st.lanes)
  BY StateFacts DEF FitsStorage
<1>2. /\ DOMAIN w = DOMAIN st.lanes \cup {l} /\ w[l] = i
      /\ \A x \in DOMAIN st.lanes : x # l => w[x] = st.lanes[x]
      /\ w \in [DOMAIN w -> Id \cup {Null}]
  BY <1>1 DEF withLane
<1>3. IsFiniteSet(DOMAIN st.lanes \cup {l})
  BY <1>1, FS_AddElement
<1>4. DOMAIN w \subseteq Lanes
  BY <1>1, <1>2
<1> HIDE DEF w
<1>5. w \in PartialMaps(Lanes, Id \cup {Null})
  BY <1>2, <1>4, PartialMap
<1> QED BY <1>1, <1>2, <1>3, <1>5 DEF w

LEMMA AppliesLane ==
  ASSUME NEW st \in States, NEW n \in Nat, NEW m \in LaneMutations, accepts(st, n, m)
  PROVE  /\ applyMutation(st, n, m) \in States
         /\ applyMutation(st, n, m) = [st EXCEPT !.sequence = n, !.lanes = withLane(st, m.lane, m.leaf)]
<1> DEFINE w == withLane(st, m.lane, m.leaf)
           new == [st EXCEPT !.sequence = n, !.lanes = w]
<1>1. m.kind = "lane" /\ m.lane \in Lanes /\ m.leaf \in Id \cup {Null}
  BY DEF LaneMutations
<1>2. applyMutation(st, n, m) = new
  BY <1>1 DEF applyMutation
<1>3. hasTarget(st, m.leaf)
  BY <1>1 DEF accepts
<1>4. /\ w \in PartialMaps(Lanes, Id \cup {Null}) /\ DOMAIN w = DOMAIN st.lanes \cup {m.lane}
      /\ IsFiniteSet(DOMAIN w) /\ "main" \in DOMAIN w /\ w[m.lane] = m.leaf
      /\ \A x \in DOMAIN st.lanes : x # m.lane => w[x] = st.lanes[x]
  BY <1>1, LaneSet
<1> HIDE DEF w
<1>5. st \in Shapes /\ FitsStorage(st)
  BY StateFacts
<1>6. /\ new \in Shapes /\ new.ok = st.ok /\ new.sequence = n /\ new.usedIds = st.usedIds
      /\ new.entries = st.entries /\ new.parentId = st.parentId /\ new.lanes = w
      /\ new.open = st.open /\ new.labels = st.labels
  BY <1>4, <1>5 DEF Shapes
<1> HIDE DEF new
<1>7. ids(new) = ids(st)
  BY <1>6 DEF ids
<1>8. \A l \in DOMAIN w : hasTarget(st, w[l])
  BY <1>3, <1>4, <1>5 DEF FitsStorage
<1>9. FitsStorage(new)
  BY <1>4, <1>5, <1>6, <1>7, <1>8 DEF FitsStorage, hasTarget
<1> QED BY <1>2, <1>6, <1>9 DEF States, new, w

LEMMA AppliesRecord ==
  ASSUME NEW st \in States, NEW n \in Nat, NEW m \in RecordMutations, accepts(st, n, m)
  PROVE  /\ applyMutation(st, n, m) \in States
         /\ applyMutation(st, n, m)
              = [st EXCEPT !.sequence = n, !.usedIds = @ \cup {m.id}, !.open = openAfter(st, m)]
<1> DEFINE o == openAfter(st, m)
           new == [st EXCEPT !.sequence = n, !.usedIds = @ \cup {m.id}, !.open = o]
<1>1. m.kind = "record" /\ m.id \in Id /\ m.lane \in Lanes /\ m.type \in {"started", "finished"}
  BY DEF RecordMutations
<1>2. applyMutation(st, n, m) = new
  BY <1>1 DEF applyMutation
<1>3. st \in Shapes /\ FitsStorage(st) /\ st.open \subseteq Lanes \X Id
  BY StateFacts
<1>4. o \subseteq Lanes \X Id
  BY <1>1, <1>3 DEF openAfter
<1> HIDE DEF o
<1>6. /\ new \in Shapes /\ new.ok = st.ok /\ new.sequence = n /\ new.usedIds = st.usedIds \cup {m.id}
      /\ new.entries = st.entries /\ new.parentId = st.parentId /\ new.lanes = st.lanes
      /\ new.open = o /\ new.labels = st.labels
  BY <1>1, <1>3, <1>4 DEF Shapes
<1> HIDE DEF new
<1>9. FitsStorage(new)
  BY <1>3, <1>6 DEF FitsStorage, hasTarget, ids
<1> QED BY <1>2, <1>6, <1>9 DEF States, new, o

LEMMA AppliesName ==
  ASSUME NEW st \in States, NEW n \in Nat, NEW m \in NameMutations, accepts(st, n, m)
  PROVE  /\ applyMutation(st, n, m) \in States
         /\ applyMutation(st, n, m) = [st EXCEPT !.sequence = n]
<1> DEFINE new == [st EXCEPT !.sequence = n]
<1>1. m.kind = "name"
  BY DEF NameMutations
<1>2. applyMutation(st, n, m) = new
  BY <1>1 DEF applyMutation
<1>3. st \in Shapes /\ FitsStorage(st)
  BY StateFacts
<1>6. /\ new \in Shapes /\ new.ok = st.ok /\ new.sequence = n /\ new.usedIds = st.usedIds
      /\ new.entries = st.entries /\ new.parentId = st.parentId /\ new.lanes = st.lanes
      /\ new.open = st.open /\ new.labels = st.labels
  BY <1>3 DEF Shapes
<1> HIDE DEF new
<1>9. FitsStorage(new)
  BY <1>3, <1>6 DEF FitsStorage, hasTarget, ids
<1> QED BY <1>2, <1>6, <1>9 DEF States, new

LEMMA AppliesLabel ==
  ASSUME NEW st \in States, NEW n \in Nat, NEW m \in LabelMutations, accepts(st, n, m)
  PROVE  /\ applyMutation(st, n, m) \in States
         /\ applyMutation(st, n, m)
              = [st EXCEPT !.sequence = n,
                           !.labels = IF m.set THEN @ \cup {m.target} ELSE @ \ {m.target}]
<1> DEFINE b == IF m.set THEN st.labels \cup {m.target} ELSE st.labels \ {m.target}
           new == [st EXCEPT !.sequence = n, !.labels = b]
<1>1. m.kind = "label" /\ m.target \in Id /\ m.set \in BOOLEAN
  BY DEF LabelMutations
<1>2. applyMutation(st, n, m) = new
  BY <1>1 DEF applyMutation
<1>3. st \in Shapes /\ FitsStorage(st)
  BY StateFacts
<1>4. m.target \in ids(st)
  BY <1>1 DEF accepts
<1>5. b \subseteq ids(st) /\ b \subseteq Id
  BY <1>1, <1>3, <1>4 DEF FitsStorage, Shapes
<1>7. new = [st EXCEPT !.sequence = n, !.labels = IF m.set THEN @ \cup {m.target} ELSE @ \ {m.target}]
  OBVIOUS
<1> HIDE DEF b
<1>6. /\ new \in Shapes /\ new.ok = st.ok /\ new.sequence = n /\ new.usedIds = st.usedIds
      /\ new.entries = st.entries /\ new.parentId = st.parentId /\ new.lanes = st.lanes
      /\ new.open = st.open /\ new.labels = b
  BY <1>3, <1>5 DEF Shapes
<1> HIDE DEF new
<1>9. FitsStorage(new)
  BY <1>3, <1>5, <1>6 DEF FitsStorage, hasTarget, ids
<1> QED BY <1>2, <1>6, <1>7, <1>9 DEF States

ParentsWith(st, m) == [i \in ids(st) \cup {m.id} |-> IF i = m.id THEN m.parent ELSE st.parentId[i]]
LanesWith(st, m) == IF m.lane = Null THEN st.lanes ELSE withLane(st, m.lane, m.id)

LEMMA AppliesEntry ==
  ASSUME NEW st \in States, NEW n \in Nat, NEW m \in EntryMutations, accepts(st, n, m)
  PROVE  /\ applyMutation(st, n, m) \in States
         /\ applyMutation(st, n, m)
              = [st EXCEPT !.sequence = n, !.usedIds = @ \cup {m.id}, !.entries = Append(@, m.id),
                           !.parentId = ParentsWith(st, m), !.lanes = LanesWith(st, m)]
<1> DEFINE w == LanesWith(st, m)
           p == ParentsWith(st, m)
           e == Append(st.entries, m.id)
           new == [st EXCEPT !.sequence = n, !.usedIds = @ \cup {m.id}, !.entries = e,
                             !.parentId = p, !.lanes = w]
<1>1. m.kind = "entry" /\ m.id \in Id /\ m.lane \in Lanes \cup {Null} /\ m.parent \in Id \cup {Null}
  BY DEF EntryMutations
<1>2. applyMutation(st, n, m) = new
  BY <1>1 DEF applyMutation, ParentsWith, LanesWith
<1>3. m.id \notin st.usedIds /\ hasTarget(st, m.parent)
  BY <1>1 DEF accepts
<1>4. /\ st \in Shapes /\ FitsStorage(st) /\ st.entries \in Seq(Id)
      /\ st.parentId \in [ids(st) -> Id \cup {Null}] /\ ids(st) \subseteq Id
      /\ st.lanes \in PartialMaps(Lanes, Id \cup {Null})
  BY StateFacts DEF Shapes
<1>5. m.id \notin ids(st)
  BY <1>3, <1>4 DEF FitsStorage
<1>6. e \in Seq(Id) /\ Range(e) = ids(st) \cup {m.id}
  BY <1>1, <1>4, RangeOfAppend DEF ids
<1>7. /\ DOMAIN p = ids(st) \cup {m.id} /\ p[m.id] = m.parent /\ \A i \in ids(st) : p[i] = st.parentId[i]
      /\ p \in [DOMAIN p -> Id \cup {Null}] /\ DOMAIN p \subseteq Id
  BY <1>1, <1>4, <1>5 DEF ParentsWith
<1>8. Chained(e, p)
  <2>1. \A i \in DOMAIN st.entries : st.entries[i] \in ids(st)
    BY DEF ids, Range
  <2>2. Chained(st.entries, st.parentId)
    BY <1>4 DEF FitsStorage
  <2>3. Chained(st.entries, p)
    BY <2>1, <2>2, <1>7 DEF Chained
  <2>4. p[m.id] \in Range(st.entries) \cup {Null}
    BY <1>3, <1>7 DEF hasTarget, ids
  <2> QED BY <2>3, <2>4, <1>1, <1>4, <1>5, ChainGrows DEF ids
<1>9. /\ w \in PartialMaps(Lanes, Id \cup {Null}) /\ "main" \in DOMAIN w /\ IsFiniteSet(DOMAIN w)
      /\ \A l \in DOMAIN w : w[l] = m.id \/ hasTarget(st, w[l])
  <2>1. CASE m.lane = Null
    BY <2>1, <1>4 DEF LanesWith, FitsStorage
  <2>2. CASE m.lane # Null
    <3> DEFINE v == withLane(st, m.lane, m.id)
    <3>0. m.lane \in Lanes /\ m.id \in Id \cup {Null}
      BY <2>2, <1>1
    <3>1. /\ v \in PartialMaps(Lanes, Id \cup {Null}) /\ DOMAIN v = DOMAIN st.lanes \cup {m.lane}
          /\ IsFiniteSet(DOMAIN v) /\ "main" \in DOMAIN v /\ v[m.lane] = m.id
          /\ \A x \in DOMAIN st.lanes : x # m.lane => v[x] = st.lanes[x]
      <4> HIDE DEF w, p, e
      <4> QED BY <3>0, LaneSet
    <3> HIDE DEF v
    <3>2. w = v
      BY <2>2 DEF v, LanesWith
    <3> HIDE DEF w
    <3> QED BY <3>1, <3>2, <1>4 DEF FitsStorage
  <2> QED BY <2>1, <2>2
<1> HIDE DEF w, p, e
<1>10. p \in PartialMaps(Id, Id \cup {Null})
  BY <1>7, PartialMap
<1>11. /\ new \in Shapes /\ new.ok = st.ok /\ new.sequence = n /\ new.usedIds = st.usedIds \cup {m.id}
       /\ new.entries = e /\ new.parentId = p /\ new.lanes = w
       /\ new.open = st.open /\ new.labels = st.labels
  BY <1>1, <1>4, <1>6, <1>9, <1>10 DEF Shapes
<1> HIDE DEF new
<1>12. ids(new) = ids(st) \cup {m.id}
  BY <1>6, <1>11 DEF ids
<1>13. FitsStorage(new)
  <2>1. ids(new) \subseteq new.usedIds /\ DOMAIN new.parentId = ids(new) /\ new.labels \subseteq ids(new)
    BY <1>4, <1>7, <1>11, <1>12 DEF FitsStorage
  <2>2. \A l \in DOMAIN w : hasTarget(new, w[l])
    BY <1>9, <1>12 DEF hasTarget
  <2> QED BY <2>1, <2>2, <1>8, <1>9, <1>11 DEF FitsStorage
<1> QED BY <1>2, <1>11, <1>13 DEF States, new, w, p, e

\* A state stays one that fits, and says whether it accepted.
LEMMA Applies ==
  ASSUME NEW st \in States, NEW n \in Nat, NEW m \in Mutations
  PROVE  /\ applyMutation(st, n, m) \in States
         /\ applyMutation(st, n, m).ok <=> accepts(st, n, m)
         /\ accepts(st, n, m) => applyMutation(st, n, m).sequence = n /\ n = st.sequence + 1 /\ st.ok
<1>1. CASE ~accepts(st, n, m)
  BY <1>1, Refuses
<1>2. CASE accepts(st, n, m)
  <2>0. st.ok /\ n = st.sequence + 1 /\ st \in Shapes
    BY <1>2, StateFacts DEF accepts
  <2> DEFINE new == applyMutation(st, n, m)
  <2>1. CASE m \in EntryMutations
    <3>1. new \in States /\ new = [st EXCEPT !.sequence = n, !.usedIds = @ \cup {m.id},
             !.entries = Append(@, m.id), !.parentId = ParentsWith(st, m), !.lanes = LanesWith(st, m)]
      BY <1>2, <2>1, AppliesEntry
    <3> HIDE DEF new
    <3>2. new.ok = st.ok /\ new.sequence = n
      BY <3>1, <2>0 DEF Shapes
    <3> QED BY <3>1, <3>2, <2>0, <1>2 DEF new
  <2>2. CASE m \in RecordMutations
    <3>1. new \in States /\ new = [st EXCEPT !.sequence = n, !.usedIds = @ \cup {m.id}, !.open = openAfter(st, m)]
      BY <1>2, <2>2, AppliesRecord
    <3> HIDE DEF new
    <3>2. new.ok = st.ok /\ new.sequence = n
      BY <3>1, <2>0 DEF Shapes
    <3> QED BY <3>1, <3>2, <2>0, <1>2 DEF new
  <2>3. CASE m \in LaneMutations
    <3>1. new \in States /\ new = [st EXCEPT !.sequence = n, !.lanes = withLane(st, m.lane, m.leaf)]
      BY <1>2, <2>3, AppliesLane
    <3> HIDE DEF new
    <3>2. new.ok = st.ok /\ new.sequence = n
      BY <3>1, <2>0 DEF Shapes
    <3> QED BY <3>1, <3>2, <2>0, <1>2 DEF new
  <2>4. CASE m \in NameMutations
    <3>1. new \in States /\ new = [st EXCEPT !.sequence = n]
      BY <1>2, <2>4, AppliesName
    <3> HIDE DEF new
    <3>2. new.ok = st.ok /\ new.sequence = n
      BY <3>1, <2>0 DEF Shapes
    <3> QED BY <3>1, <3>2, <2>0, <1>2 DEF new
  <2>5. CASE m \in LabelMutations
    <3>1. new \in States /\ new = [st EXCEPT !.sequence = n,
             !.labels = IF m.set THEN @ \cup {m.target} ELSE @ \ {m.target}]
      BY <1>2, <2>5, AppliesLabel
    <3> HIDE DEF new
    <3>2. new.ok = st.ok /\ new.sequence = n
      BY <3>1, <2>0 DEF Shapes
    <3> QED BY <3>1, <3>2, <2>0, <1>2 DEF new
  <2> QED BY <2>1, <2>2, <2>3, <2>4, <2>5 DEF Mutations
<1> QED BY <1>1, <1>2

-----------------------------------------------------------------------------
(***************************************************************************)
(* The replay of a log, one mutation after the other.                      *)
(***************************************************************************)
Logs(n) == [1..n -> Mutations]

LEMMA LastNumber ==
  ASSUME NEW n \in Nat
  PROVE  Max((1..n) \cup {0}) = n
<1> DEFINE S == (1..n) \cup {0}
<1>1. n \in S /\ \A y \in S : n >= y
  OBVIOUS
<1>2. \A x \in S : (\A y \in S : x >= y) => x = n
  OBVIOUS
<1> HIDE DEF S
<1>3. \A x \in S : (\A y \in S : x >= y) <=> x = n
  BY <1>1, <1>2
<1> QED BY <1>1, <1>3 DEF Max, S

\* The replay takes one mutation after the other.
LEMMA ReplayUpTo ==
  ASSUME NEW n \in Nat, NEW l \in Logs(n)
  PROVE  /\ replayUpTo(l) \in [0..n -> States]
         /\ replayUpTo(l)[0] = EmptyState
         /\ \A k \in 1..n : replayUpTo(l)[k] = applyMutation(replayUpTo(l)[k - 1], k, l[k])
         /\ Replay(l) = replayUpTo(l)[n]
<1> DEFINE step == [k \in 1..n |-> [st \in States |-> applyMutation(st, k, l[k])]]
           u == replayUpTo(l)
<1>1. DOMAIN l = 1..n /\ \A k \in 1..n : l[k] \in Mutations
  BY DEF Logs
<1>2. Max(DOMAIN l \cup {0}) = n
  BY <1>1, LastNumber
<1>3. step \in [1..n -> [States -> States]]
  <2>1. ASSUME NEW k \in 1..n, NEW st \in States PROVE applyMutation(st, k, l[k]) \in States
    <3>1. k \in Nat /\ l[k] \in Mutations
      BY <1>1
    <3> QED BY <3>1, Applies
  <2> QED BY <2>1
<1>4. PICK f : Steps(n, States, EmptyState, step, f)
  <2> HIDE DEF step
  <2> QED BY <1>3, EmptyStateFits, StepByStep
<1>5. /\ f \in [0..n -> States] /\ f[0] = EmptyState
      /\ \A k \in 1..n : f[k] = applyMutation(f[k - 1], k, l[k])
  <2>1. f \in [0..n -> States] /\ f[0] = EmptyState /\ \A k \in 1..n : f[k] = step[k][f[k - 1]]
    <3> HIDE DEF step
    <3> QED BY <1>4 DEF Steps
  <2>2. ASSUME NEW k \in 1..n PROVE f[k] = applyMutation(f[k - 1], k, l[k])
    <3>1. k - 1 \in 0..n
      OBVIOUS
    <3>2. f[k - 1] \in States
      BY <2>1, <3>1
    <3> QED BY <2>1, <3>2
  <2> QED BY <2>1, <2>2
<1> HIDE DEF step
<1>6. f = [k \in 0..n |-> IF k = 0 THEN EmptyState
                          ELSE IF k \in DOMAIN l THEN applyMutation(f[k - 1], k, l[k]) ELSE f[k - 1]]
  <2>1. ASSUME NEW k \in 0..n
        PROVE f[k] = IF k = 0 THEN EmptyState
                     ELSE IF k \in DOMAIN l THEN applyMutation(f[k - 1], k, l[k]) ELSE f[k - 1]
    <3>1. CASE k = 0
      BY <3>1, <1>5
    <3>2. CASE k # 0
      <4>1. k \in 1..n
        BY <3>2
      <4> QED BY <3>2, <4>1, <1>1, <1>5
    <3> QED BY <3>1, <3>2
  <2>2. f = [k \in 0..n |-> f[k]]
    BY <1>5
  <2> QED BY <2>1, <2>2
<1>7. u = [k \in 0..n |-> IF k = 0 THEN EmptyState
                          ELSE IF k \in DOMAIN l THEN applyMutation(u[k - 1], k, l[k]) ELSE u[k - 1]]
  BY <1>2, <1>6 DEF replayUpTo
<1>8. Replay(l) = u[n]
  BY <1>2 DEF Replay
<1> HIDE DEF u
<1>9. /\ DOMAIN u = 0..n /\ u[0] = EmptyState
      /\ \A k \in 1..n : u[k] = applyMutation(u[k - 1], k, l[k])
  <2>1. DOMAIN u = 0..n /\ 0 \in 0..n
    BY <1>7
  <2>2. u[0] = EmptyState
    BY <1>7, <2>1
  <2>3. ASSUME NEW k \in 1..n PROVE u[k] = applyMutation(u[k - 1], k, l[k])
    <3>1. k \in 0..n /\ k # 0 /\ k \in DOMAIN l
      BY <1>1
    <3> QED BY <1>7, <3>1
  <2> QED BY <2>1, <2>2, <2>3
<1>10. \A k \in 0..n : u[k] \in States
  <2> DEFINE G == {k \in Nat : k <= n => u[k] \in States}
  <2>1. 0 \in G
    BY <1>9, EmptyStateFits
  <2>2. ASSUME NEW k \in Nat, k \in G PROVE k + 1 \in G
    <3> SUFFICES ASSUME k + 1 <= n PROVE u[k + 1] \in States
      OBVIOUS
    <3>1. u[k] \in States /\ k + 1 \in 1..n /\ (k + 1) - 1 = k /\ k + 1 \in Nat
      BY <2>2
    <3>2. u[k + 1] = applyMutation(u[k], k + 1, l[k + 1]) /\ l[k + 1] \in Mutations
      BY <1>1, <1>9, <3>1
    <3> QED BY <3>1, <3>2, Applies
  <2> HIDE DEF G
  <2>3. Nat \subseteq G
    BY <2>1, <2>2, EveryNumber
  <2> QED BY <2>3 DEF G
<1>11. u \in [0..n -> States]
  <2>1. u = [k \in 0..n |-> u[k]]
    BY <1>7
  <2> QED BY <2>1, <1>10
<1> QED BY <1>8, <1>9, <1>11 DEF u

\* What a log that replays yields has its last number.
LEMMA ReplayIsState ==
  ASSUME NEW n \in Nat, NEW l \in Logs(n)
  PROVE  /\ Replay(l) \in States
         /\ Replay(l).ok => Replay(l).sequence = n
<1> DEFINE u == replayUpTo(l)
           G == {k \in Nat : k <= n => (u[k].ok => u[k].sequence = k)}
<1>1. /\ u \in [0..n -> States] /\ u[0] = EmptyState /\ Replay(l) = u[n]
      /\ \A k \in 1..n : u[k] = applyMutation(u[k - 1], k, l[k])
  BY ReplayUpTo
<1> HIDE DEF u
<1>2. 0 \in G
  BY <1>1 DEF EmptyState
<1>3. ASSUME NEW k \in Nat, k \in G PROVE k + 1 \in G
  <2> SUFFICES ASSUME k + 1 <= n, u[k + 1].ok PROVE u[k + 1].sequence = k + 1
    OBVIOUS
  <2>1. u[k] \in States /\ k + 1 \in 1..n /\ (k + 1) - 1 = k /\ k + 1 \in Nat
    BY <1>1
  <2>2. u[k + 1] = applyMutation(u[k], k + 1, l[k + 1]) /\ l[k + 1] \in Mutations
    BY <1>1, <2>1 DEF Logs
  <2>3. accepts(u[k], k + 1, l[k + 1])
    BY <2>1, <2>2, Applies
  <2> QED BY <2>1, <2>2, <2>3, Applies
<1>4. n \in G
  <2> HIDE DEF G
  <2> QED BY <1>2, <1>3, EveryNumber
<1>5. n \in 0..n
  OBVIOUS
<1> QED BY <1>1, <1>4, <1>5

\* A log with one mutation more replays to what it replayed to, with the
\* mutation applied.
LEMMA ReplayMore ==
  ASSUME NEW n \in Nat, NEW l \in Logs(n), NEW m \in Mutations
  PROVE  /\ putMutation(l, n + 1, m) \in Logs(n + 1)
         /\ Replay(putMutation(l, n + 1, m)) = applyMutation(Replay(l), n + 1, m)
<1> DEFINE k1 == putMutation(l, n + 1, m)
           u == replayUpTo(l)
           v == replayUpTo(k1)
           G == {k \in Nat : k <= n => u[k] = v[k]}
<1>1. DOMAIN l = 1..n /\ \A k \in 1..n : l[k] \in Mutations
  BY DEF Logs
<1>2. /\ DOMAIN k1 = 1..(n + 1) /\ k1[n + 1] = m /\ \A k \in 1..n : k1[k] = l[k]
      /\ k1 = [k \in DOMAIN k1 |-> k1[k]]
  BY <1>1 DEF putMutation
<1> HIDE DEF k1
<1>3. k1 \in Logs(n + 1) /\ n + 1 \in Nat
  BY <1>1, <1>2 DEF Logs
<1>4. /\ u \in [0..n -> States] /\ u[0] = EmptyState /\ Replay(l) = u[n]
      /\ \A k \in 1..n : u[k] = applyMutation(u[k - 1], k, l[k])
  BY ReplayUpTo
<1>5. /\ v[0] = EmptyState /\ Replay(k1) = v[n + 1]
      /\ \A k \in 1..(n + 1) : v[k] = applyMutation(v[k - 1], k, k1[k])
  BY <1>3, ReplayUpTo
<1> HIDE DEF u, v
<1>6. 0 \in G
  BY <1>4, <1>5
<1>7. ASSUME NEW k \in Nat, k \in G PROVE k + 1 \in G
  <2> SUFFICES ASSUME k + 1 <= n PROVE u[k + 1] = v[k + 1]
    OBVIOUS
  <2>1. k + 1 \in 1..n /\ k + 1 \in 1..(n + 1) /\ (k + 1) - 1 = k /\ u[k] = v[k]
    BY <1>7
  <2>2. u[k + 1] = applyMutation(u[k], k + 1, l[k + 1]) /\ v[k + 1] = applyMutation(v[k], k + 1, k1[k + 1])
    BY <1>4, <1>5, <2>1
  <2> QED BY <1>2, <2>1, <2>2
<1>8. u[n] = v[n]
  <2> HIDE DEF G
  <2>1. n \in G
    BY <1>6, <1>7, EveryNumber
  <2> QED BY <2>1 DEF G
<1>9. v[n + 1] = applyMutation(v[n], n + 1, m)
  <2>1. n + 1 \in 1..(n + 1) /\ (n + 1) - 1 = n
    OBVIOUS
  <2> QED BY <1>2, <1>5, <2>1
<1> QED BY <1>3, <1>4, <1>5, <1>8, <1>9 DEF k1

LEMMA ReplayNone == noLog \in Logs(0) /\ Replay(noLog) = EmptyState
<1>1. noLog \in Logs(0)
  <2>1. 1..0 = {} /\ noLog = [k \in DOMAIN noLog |-> noLog[k]] /\ DOMAIN noLog = {}
    BY DEF noLog
  <2> QED BY <2>1 DEF Logs
<1>2. 0 \in Nat
  OBVIOUS
<1> QED BY <1>1, <1>2, ReplayUpTo

-----------------------------------------------------------------------------
(***************************************************************************)
(* The copy of a fork: each of its mutations is accepted in turn, and when *)
(* the last one is applied the copy has what was to be copied.             *)
(***************************************************************************)
\* A finite set in some order.
LEMMA InSomeOrder ==
  ASSUME NEW S, IsFiniteSet(S)
  PROVE  SetToSeq(S) \in Seq(S) /\ Range(SetToSeq(S)) = S
<1> DEFINE n == Cardinality(S)
           q == SetToSeq(S)
<1>1. n \in Nat /\ ExistsBijection(1..n, S)
  BY FS_CardinalityType
<1>2. \E f \in [1..n -> S] : IsInjective(f)
  BY <1>1 DEF ExistsBijection, Bijection, Injection, IsInjective
<1>3. q \in [1..n -> S] /\ IsInjective(q)
  BY <1>2 DEF SetToSeq
<1> HIDE DEF q
<1>4. q \in Seq(S) /\ DOMAIN q = 1..n
  BY <1>1, <1>3
<1>5. Range(q) \subseteq S
  BY <1>3, <1>4 DEF Range
<1>6. ExistsBijection(1..n, Range(q))
  <2>1. q \in [1..n -> Range(q)]
    BY <1>3, <1>4 DEF Range
  <2>2. q \in Bijection(1..n, Range(q))
    BY <2>1, <1>3, <1>4 DEF Bijection, Injection, Surjection, IsInjective, Range
  <2> QED BY <2>2 DEF ExistsBijection
<1>7. IsFiniteSet(Range(q))
  BY <1>5, FS_Subset
<1>8. Cardinality(Range(q)) = n
  BY <1>1, <1>6, FS_CountingElements
<1>9. Range(q) = S
  BY <1>5, <1>8, FS_Subset
<1> QED BY <1>4, <1>9 DEF q

\* What a fork is asked to copy: a part of the tree, with lanes on it.
Forkable(st, copied, pointers) ==
  /\ copied \in Seq(Id) /\ Range(copied) \subseteq ids(st) /\ Chained(copied, st.parentId)
  /\ pointers \in [DOMAIN pointers -> Id \cup {Null}] /\ DOMAIN pointers \subseteq Lanes
  /\ "main" \in DOMAIN pointers /\ IsFiniteSet(DOMAIN pointers)
  /\ \A l \in DOMAIN pointers : pointers[l] \in Range(copied) \cup {Null}

LEMMA EveryForkIsForkable ==
  ASSUME NEW st \in States, NEW f \in forks(st)
  PROVE  Forkable(st, f.copied, f.pointers)
<1>1. /\ st.entries \in Seq(Id) /\ FitsStorage(st) /\ Tree(st.entries, st.parentId) /\ ids(st) \subseteq Id
      /\ st.parentId \in [ids(st) -> Id \cup {Null}]
      /\ st.lanes \in [DOMAIN st.lanes -> Id \cup {Null}] /\ DOMAIN st.lanes \subseteq Lanes
  BY StateFacts
<1>2. CASE f = treeFork(st)
  <2>1. f.copied = st.entries /\ f.pointers = st.lanes
    BY <1>2 DEF treeFork
  <2>2. \A l \in DOMAIN st.lanes : st.lanes[l] \in Range(st.entries) \cup {Null}
    BY <1>1 DEF FitsStorage, hasTarget, ids
  <2> QED BY <1>1, <2>1, <2>2 DEF Forkable, FitsStorage, ids
<1>3. CASE \E t \in branchTargets(st) : f = branchFork(st, t)
  <2>1. PICK t \in branchTargets(st) : f = branchFork(st, t)
    BY <1>3
  <2>2. t \in ids(st) \cup {Null}
    <3>1. \A i \in ids(st) : st.parentId[i] \in ids(st) \cup {Null}
      <4> SUFFICES ASSUME NEW i \in ids(st) PROVE st.parentId[i] \in ids(st) \cup {Null}
        OBVIOUS
      <4>1. PICK x \in DOMAIN st.entries : st.entries[x] = i
        BY DEF ids, Range
      <4>2. st.parentId[i] = Null \/ \E j \in 1..(x - 1) : st.entries[j] = st.parentId[i]
        BY <4>1, <1>1 DEF FitsStorage, Chained
      <4>3. DOMAIN st.entries = 1..Len(st.entries) /\ Len(st.entries) \in Nat
        BY <1>1, LenProperties
      <4>4. \A j \in 1..(x - 1) : j \in DOMAIN st.entries
        BY <4>1, <4>3
      <4> QED BY <4>2, <4>4 DEF ids, Range
    <3> QED BY <2>1, <3>1 DEF branchTargets
  <2> DEFINE c == path(st.entries, st.parentId, t)
             w == [l \in {"main"} |-> t]
  <2>3. f.copied = c /\ f.pointers = w
    BY <2>1 DEF branchFork, branch, path
  <2>4. /\ c \in Seq(Id) /\ Range(c) \subseteq ids(st) /\ Chained(c, st.parentId)
        /\ t \in Range(c) \cup {Null}
    <3>1. t \in Range(st.entries) \cup {Null}
      BY <2>2 DEF ids
    <3> HIDE DEF w
    <3> QED BY <3>1, <1>1, PathIsChain DEF ids
  <2> HIDE DEF c
  <2>5. /\ w \in [DOMAIN w -> Id \cup {Null}] /\ DOMAIN w = {"main"} /\ w["main"] = t
    BY <1>1, <2>2
  <2>6. IsFiniteSet({"main"}) /\ "main" \in Lanes
    BY FS_Singleton DEF Lanes
  <2> HIDE DEF w
  <2>7. /\ DOMAIN w \subseteq Lanes /\ "main" \in DOMAIN w /\ IsFiniteSet(DOMAIN w)
        /\ \A l \in DOMAIN w : w[l] \in Range(c) \cup {Null}
    BY <2>4, <2>5, <2>6
  <2>8. Forkable(st, c, w)
    BY <2>4, <2>5, <2>7 DEF Forkable
  <2> QED BY <2>3, <2>8
<1> QED BY <1>2, <1>3 DEF forks

\* The state of the target of a fork after k of the mutations it is made of.
order(pointers) == SetToSeq(DOMAIN pointers)

placed(copied, pointers, k) ==
  {order(pointers)[x] : x \in {y \in 1..Len(order(pointers)) : Len(copied) + y <= k}}

Copied(st, copied, pointers, k, m) ==
  /\ m \in States /\ m.ok /\ m.sequence = k /\ m.open = {}
  /\ m.entries = IF k <= Len(copied) THEN SubSeq(copied, 1, k) ELSE copied
  /\ m.usedIds = ids(m)
  /\ \A i \in ids(m) : m.parentId[i] = st.parentId[i]
  /\ DOMAIN m.lanes = {"main"} \cup placed(copied, pointers, k)
  /\ \A l \in placed(copied, pointers, k) : m.lanes[l] = pointers[l]

LEMMA CopyParts ==
  ASSUME NEW st \in States, NEW copied, NEW pointers, Forkable(st, copied, pointers)
  PROVE  /\ entryCopies(st, copied) \in Seq(Mutations) /\ Len(entryCopies(st, copied)) = Len(copied)
         /\ lanePointers(pointers) \in Seq(Mutations)
         /\ Len(lanePointers(pointers)) = Len(order(pointers))
         /\ labelCopies(st, copied) \in Seq(Mutations)
         /\ Len(labelCopies(st, copied)) = Len(only(copied, st.labels))
         /\ Len(copied) \in Nat /\ Len(order(pointers)) \in Nat /\ Len(only(copied, st.labels)) \in Nat
         /\ \A x \in 1..Len(order(pointers)) : order(pointers)[x] \in DOMAIN pointers
         /\ \A l \in DOMAIN pointers : \E x \in 1..Len(order(pointers)) : order(pointers)[x] = l
         /\ Len(order(pointers)) > 0
         /\ \A x \in 1..Len(copied) :
              /\ entryCopies(st, copied)[x] \in EntryMutations
              /\ entryCopies(st, copied)[x]
                   = [kind |-> "entry", id |-> copied[x], lane |-> Null, parent |-> st.parentId[copied[x]]]
         /\ \A x \in 1..Len(order(pointers)) :
              /\ lanePointers(pointers)[x] \in LaneMutations
              /\ lanePointers(pointers)[x]
                   = [kind |-> "lane", lane |-> order(pointers)[x], leaf |-> pointers[order(pointers)[x]]]
         /\ \A x \in 1..Len(only(copied, st.labels)) :
              /\ labelCopies(st, copied)[x] \in LabelMutations
              /\ labelCopies(st, copied)[x].target \in Range(copied)
<1> DEFINE o == order(pointers)
           b == only(copied, st.labels)
           E == entryCopies(st, copied)
           L == lanePointers(pointers)
           B == labelCopies(st, copied)
<1>1. /\ copied \in Seq(Id) /\ Range(copied) \subseteq ids(st) /\ IsFiniteSet(DOMAIN pointers)
      /\ pointers \in [DOMAIN pointers -> Id \cup {Null}] /\ DOMAIN pointers \subseteq Lanes
      /\ "main" \in DOMAIN pointers
  BY DEF Forkable
<1>2. st.parentId \in [ids(st) -> Id \cup {Null}]
  BY StateFacts
<1>3. o \in Seq(DOMAIN pointers) /\ Range(o) = DOMAIN pointers
  BY <1>1, InSomeOrder DEF order
<1>4. b \in Seq(Id) /\ Range(b) \subseteq Range(copied)
  BY <1>1, OnlyRange
<1>5. E = [k \in 1..Len(copied) |->
             [kind |-> "entry", id |-> copied[k], lane |-> Null, parent |-> st.parentId[copied[k]]]]
      /\ L = [k \in 1..Len(o) |-> [kind |-> "lane", lane |-> o[k], leaf |-> pointers[o[k]]]]
      /\ B = [k \in 1..Len(b) |-> [kind |-> "label", target |-> b[k], set |-> TRUE]]
  BY DEF entryCopies, lanePointers, labelCopies, order
<1> HIDE DEF o, b, E, L, B
<1>6. /\ Len(copied) \in Nat /\ Len(o) \in Nat /\ Len(b) \in Nat
      /\ DOMAIN copied = 1..Len(copied) /\ DOMAIN o = 1..Len(o) /\ DOMAIN b = 1..Len(b)
  BY <1>1, <1>3, <1>4, LenProperties
<1>7. /\ \A x \in 1..Len(copied) : copied[x] \in Id /\ copied[x] \in ids(st)
      /\ \A x \in 1..Len(o) : o[x] \in DOMAIN pointers
      /\ \A x \in 1..Len(b) : b[x] \in Id /\ b[x] \in Range(copied)
  <2>1. \A x \in 1..Len(copied) : copied[x] \in Id /\ copied[x] \in Range(copied)
    BY <1>1, <1>6, ElementOfSeq DEF Range
  <2>2. \A x \in 1..Len(o) : o[x] \in DOMAIN pointers
    BY <1>3, <1>6, ElementOfSeq
  <2>3. \A x \in 1..Len(b) : b[x] \in Id /\ b[x] \in Range(b)
    BY <1>4, <1>6, ElementOfSeq DEF Range
  <2> QED BY <2>1, <2>2, <2>3, <1>1, <1>4
<1>8. \A x \in 1..Len(copied) :
        E[x] = [kind |-> "entry", id |-> copied[x], lane |-> Null, parent |-> st.parentId[copied[x]]]
        /\ E[x] \in EntryMutations
  BY <1>2, <1>5, <1>7 DEF EntryMutations
<1>9. \A x \in 1..Len(o) : L[x] = [kind |-> "lane", lane |-> o[x], leaf |-> pointers[o[x]]]
                           /\ L[x] \in LaneMutations
  BY <1>1, <1>5, <1>7 DEF LaneMutations
<1>10. \A x \in 1..Len(b) : B[x] \in LabelMutations /\ B[x].target \in Range(copied)
  BY <1>5, <1>7 DEF LabelMutations
<1>11. E \in Seq(Mutations) /\ Len(E) = Len(copied)
  <2>1. E \in [1..Len(copied) -> Mutations]
    BY <1>5, <1>8 DEF Mutations
  <2> QED BY <2>1, <1>6
<1>12. L \in Seq(Mutations) /\ Len(L) = Len(o)
  <2>1. L \in [1..Len(o) -> Mutations]
    BY <1>5, <1>9 DEF Mutations
  <2> QED BY <2>1, <1>6
<1>13. B \in Seq(Mutations) /\ Len(B) = Len(b)
  <2>1. B \in [1..Len(b) -> Mutations]
    BY <1>5, <1>10 DEF Mutations
  <2> QED BY <2>1, <1>6
<1>14. \A l \in DOMAIN pointers : \E x \in 1..Len(o) : o[x] = l
  BY <1>3, <1>6 DEF Range
<1>15. Len(o) > 0
  BY <1>1, <1>6, <1>14
<1> QED BY <1>6, <1>7, <1>8, <1>9, <1>10, <1>11, <1>12, <1>13, <1>14, <1>15 DEF o, b, E, L, B

LEMMA ThreeParts ==
  ASSUME NEW S, NEW s \in Seq(S), NEW t \in Seq(S), NEW u \in Seq(S),
         NEW k \in 1..(Len(s) + Len(t) + Len(u))
  PROVE  /\ s \o t \o u \in Seq(S) /\ Len(s \o t \o u) = Len(s) + Len(t) + Len(u)
         /\ k <= Len(s) => (s \o t \o u)[k] = s[k]
         /\ Len(s) < k /\ k <= Len(s) + Len(t) => (s \o t \o u)[k] = t[k - Len(s)]
         /\ Len(s) + Len(t) < k => (s \o t \o u)[k] = u[k - (Len(s) + Len(t))]
<1> DEFINE v == s \o t
<1>1. /\ v \in Seq(S) /\ Len(v) = Len(s) + Len(t)
      /\ \A i \in 1 .. Len(s) + Len(t) : v[i] = IF i <= Len(s) THEN s[i] ELSE t[i - Len(s)]
  BY ConcatProperties
<1>2. Len(s) \in Nat /\ Len(t) \in Nat /\ Len(u) \in Nat
  BY LenProperties
<1>7. v \in Seq(S)
  BY <1>1
<1> HIDE DEF v
<1>3. /\ v \o u \in Seq(S) /\ Len(v \o u) = Len(v) + Len(u)
      /\ \A i \in 1 .. Len(v) + Len(u) : (v \o u)[i] = IF i <= Len(v) THEN v[i] ELSE u[i - Len(v)]
  BY <1>7, ConcatProperties
<1>4. k \in 1 .. Len(v) + Len(u)
  BY <1>1, <1>2
<1>5. (v \o u)[k] = IF k <= Len(v) THEN v[k] ELSE u[k - Len(v)]
  BY <1>3, <1>4
<1>6. k <= Len(v) => v[k] = IF k <= Len(s) THEN s[k] ELSE t[k - Len(s)]
  BY <1>1, <1>2
<1> QED BY <1>1, <1>2, <1>3, <1>5, <1>6 DEF v

LEMMA CopyIsSequence ==
  ASSUME NEW st \in States, NEW copied, NEW pointers, Forkable(st, copied, pointers)
  PROVE  /\ copyOf(st, copied, pointers) \in Seq(Mutations)
         /\ Len(copyOf(st, copied, pointers))
              = Len(copied) + Len(order(pointers)) + Len(only(copied, st.labels))
         /\ Len(copyOf(st, copied, pointers)) > 0
<1> DEFINE E == entryCopies(st, copied)
           L == lanePointers(pointers)
           B == labelCopies(st, copied)
<1>1. /\ E \in Seq(Mutations) /\ L \in Seq(Mutations) /\ B \in Seq(Mutations)
      /\ Len(E) = Len(copied) /\ Len(L) = Len(order(pointers)) /\ Len(B) = Len(only(copied, st.labels))
      /\ Len(copied) \in Nat /\ Len(order(pointers)) \in Nat /\ Len(only(copied, st.labels)) \in Nat
      /\ Len(order(pointers)) > 0
  BY CopyParts
<1> HIDE DEF E, L, B
<1>2. E \in Seq(Mutations) /\ L \in Seq(Mutations) /\ B \in Seq(Mutations)
  BY <1>1
<1>3. E \o L \o B \in Seq(Mutations) /\ Len(E \o L \o B) = Len(E) + Len(L) + Len(B)
  BY <1>2, ThreeParts
<1>4. copyOf(st, copied, pointers) = E \o L \o B
  BY DEF copyOf, E, L, B
<1> QED BY <1>1, <1>3, <1>4

\* One more mutation of the fork is accepted, whatever part it is of.
LEMMA CopyAccepted ==
  ASSUME NEW st \in States, NEW copied, NEW pointers, Forkable(st, copied, pointers),
         NEW k \in Nat, NEW n \in Nat, n = k + 1, NEW m, Copied(st, copied, pointers, k, m),
         n <= Len(copyOf(st, copied, pointers))
  PROVE  /\ copyOf(st, copied, pointers)[n] \in Mutations
         /\ accepts(m, n, copyOf(st, copied, pointers)[n])
         /\ Copied(st, copied, pointers, n,
                   applyMutation(m, n, copyOf(st, copied, pointers)[n]))
<1> DEFINE E == entryCopies(st, copied)
           L == lanePointers(pointers)
           B == labelCopies(st, copied)
           o == order(pointers)
           x == copyOf(st, copied, pointers)[n]
           new == applyMutation(m, n, x)
           put(i) == placed(copied, pointers, i)
<1>1. /\ E \in Seq(Mutations) /\ L \in Seq(Mutations) /\ B \in Seq(Mutations)
      /\ Len(E) = Len(copied) /\ Len(L) = Len(o) /\ Len(B) = Len(only(copied, st.labels))
      /\ Len(copied) \in Nat /\ Len(o) \in Nat /\ Len(only(copied, st.labels)) \in Nat
      /\ \A y \in 1..Len(o) : o[y] \in DOMAIN pointers
  BY CopyParts
<1>2. /\ \A y \in 1..Len(copied) :
              /\ E[y] \in EntryMutations
              /\ E[y] = [kind |-> "entry", id |-> copied[y], lane |-> Null, parent |-> st.parentId[copied[y]]]
      /\ \A y \in 1..Len(o) :
              /\ L[y] \in LaneMutations
              /\ L[y] = [kind |-> "lane", lane |-> o[y], leaf |-> pointers[o[y]]]
      /\ \A y \in 1..Len(only(copied, st.labels)) :
              /\ B[y] \in LabelMutations
              /\ B[y].target \in Range(copied)
  BY CopyParts
<1>3. n \in 1..(Len(E) + Len(L) + Len(B))
  <2> HIDE DEF E, L, B
  <2> QED BY <1>1, CopyIsSequence
<1>4. /\ n <= Len(copied) => x = E[n]
      /\ Len(copied) < n /\ n <= Len(copied) + Len(o) => x = L[n - Len(copied)]
      /\ Len(copied) + Len(o) < n => x = B[n - (Len(copied) + Len(o))]
  <2>1. x = (E \o L \o B)[n]
    BY DEF copyOf
  <2> HIDE DEF E, L, B, x
  <2>2. E \in Seq(Mutations) /\ L \in Seq(Mutations) /\ B \in Seq(Mutations)
    BY <1>1
  <2>3. /\ n <= Len(E) => (E \o L \o B)[n] = E[n]
        /\ Len(E) < n /\ n <= Len(E) + Len(L) => (E \o L \o B)[n] = L[n - Len(E)]
        /\ Len(E) + Len(L) < n => (E \o L \o B)[n] = B[n - (Len(E) + Len(L))]
    BY <2>2, <1>3, ThreeParts
  <2>4. Len(E) = Len(copied) /\ Len(L) = Len(o)
    BY <1>1
  <2> QED BY <2>1, <2>3, <2>4
<1>5. x \in Mutations
  <2>1. x \in EntryMutations \cup LaneMutations \cup LabelMutations
    <3> HIDE DEF E, L, B, x, o
    <3>1. CASE n <= Len(copied)
      <4>1. n \in 1..Len(copied)
        BY <3>1
      <4> QED BY <3>1, <4>1, <1>2, <1>4
    <3>2. CASE Len(copied) < n /\ n <= Len(copied) + Len(o)
      <4>1. n - Len(copied) \in 1..Len(o)
        BY <3>2, <1>1
      <4> QED BY <3>2, <4>1, <1>2, <1>4
    <3>3. CASE Len(copied) + Len(o) < n
      <4>1. n - (Len(copied) + Len(o)) \in 1..Len(only(copied, st.labels))
        BY <3>3, <1>1, <1>3
      <4> QED BY <3>3, <4>1, <1>2, <1>4
    <3> QED BY <3>1, <3>2, <3>3, <1>1
  <2> QED BY <2>1 DEF Mutations
<1>6. /\ m \in States /\ m.ok /\ m.sequence = k /\ m.open = {}
      /\ m.entries = IF k <= Len(copied) THEN SubSeq(copied, 1, k) ELSE copied
      /\ m.usedIds = ids(m)
      /\ \A i \in ids(m) : m.parentId[i] = st.parentId[i]
      /\ DOMAIN m.lanes = {"main"} \cup put(k)
      /\ \A l \in put(k) : m.lanes[l] = pointers[l]
  BY DEF Copied
<1>7. /\ copied \in Seq(Id) /\ Range(copied) \subseteq ids(st) /\ Chained(copied, st.parentId)
      /\ DOMAIN pointers \subseteq Lanes /\ "main" \in DOMAIN pointers
      /\ \A l \in DOMAIN pointers : pointers[l] \in Range(copied) \cup {Null}
  BY DEF Forkable
<1>8. n \in Nat /\ m \in Shapes /\ DOMAIN copied = 1..Len(copied)
  BY <1>6, <1>7, StateFacts, LenProperties
<1>9. Tree(copied, st.parentId)
  BY <1>7, StateFacts DEF Tree, FitsStorage
\* An entry: its parent was copied before it.
<1>10. CASE n <= Len(copied)
  <2>1. x = [kind |-> "entry", id |-> copied[n], lane |-> Null, parent |-> st.parentId[copied[n]]]
        /\ x \in EntryMutations
    <3> HIDE DEF E, L, B, x, o
    <3>1. n \in 1..Len(copied)
      BY <1>10
    <3> QED BY <1>10, <3>1, <1>2, <1>4
  <2> DEFINE i == copied[n]
             c == SubSeq(copied, 1, k)
  <2>2. m.entries = c /\ k \in 0..(Len(copied) - 1)
    BY <1>1, <1>6, <1>10
  <2>3. /\ c \in Seq(Id) /\ Len(c) = k /\ \A y \in 1..k : c[y] = copied[y]
    BY <1>1, <1>7, <1>10, SubSeqProperties
  <2> HIDE DEF c
  <2>4. Range(c) \cup {Null} = Above(copied, k)
    <3>1. DOMAIN c = 1..k
      BY <2>3, LenProperties
    <3> QED BY <3>1, <2>3 DEF Range, Above
  <2>5. /\ st.parentId[i] \in Above(copied, k) /\ i \notin Above(copied, k) /\ i \in Id /\ i # Null
    BY <2>2, <1>9, ParentAbove
  <2>6. ids(m) = Range(c)
    BY <2>2 DEF ids
  <2>7. x.kind = "entry" /\ x.id = i /\ x.lane = Null /\ x.parent = st.parentId[i]
    BY <2>1
  <2> HIDE DEF i, x
  <2>8. accepts(m, n, x)
    BY <1>6, <2>4, <2>5, <2>6, <2>7 DEF accepts, hasTarget
  <2>9. /\ new \in States
        /\ new = [m EXCEPT !.sequence = n, !.usedIds = @ \cup {x.id}, !.entries = Append(@, x.id),
                           !.parentId = ParentsWith(m, x), !.lanes = LanesWith(m, x)]
    <3>1. m \in States /\ x \in EntryMutations /\ accepts(m, n, x)
      BY <1>6, <2>1, <2>8
    <3> QED BY <3>1, AppliesEntry
  <2> HIDE DEF new
  <2>10. /\ new.ok /\ new.sequence = n /\ new.usedIds = m.usedIds \cup {i}
         /\ new.entries = Append(c, i) /\ new.parentId = ParentsWith(m, x)
         /\ new.lanes = m.lanes /\ new.open = {}
    BY <1>6, <1>8, <2>2, <2>7, <2>9 DEF Shapes, LanesWith
  <2>11. ids(new) = ids(m) \cup {i}
    BY <2>3, <2>5, <2>6, <2>10, RangeOfAppend DEF ids
  <2>12. Append(c, i) = SubSeq(copied, 1, n)
    <3>1. SubSeq(copied, 1, n) = Append(SubSeq(copied, 1, k), copied[n])
      BY <1>7, <1>1, <2>2
    <3> QED BY <3>1 DEF c, i
  <2>13. \A y \in ids(new) : new.parentId[y] = st.parentId[y]
    BY <1>6, <2>7, <2>10, <2>11 DEF ParentsWith
  <2>14. put(n) = put(k)
    BY <1>1, <1>10 DEF placed
  <2>15. Copied(st, copied, pointers, n, new)
    <3> HIDE DEF put
    <3>1. new.entries = IF n <= Len(copied) THEN SubSeq(copied, 1, n) ELSE copied
      BY <1>10, <2>10, <2>12
    <3>2. new.usedIds = ids(new)
      BY <1>6, <2>10, <2>11
    <3>3. DOMAIN new.lanes = {"main"} \cup put(n) /\ \A l \in put(n) : new.lanes[l] = pointers[l]
      BY <1>6, <2>10, <2>14
    <3> QED BY <2>9, <2>10, <2>13, <3>1, <3>2, <3>3 DEF Copied, put
  <2> QED BY <1>5, <2>8, <2>15 DEF x, new
\* All entries are there.
<1>11. ASSUME k >= Len(copied) PROVE m.entries = copied /\ ids(m) = Range(copied)
  <2>1. SubSeq(copied, 1, Len(copied)) = copied
    BY <1>7
  <2>2. k <= Len(copied) => k = Len(copied)
    BY <1>11, <1>1
  <2>3. m.entries = copied
    BY <2>1, <2>2, <1>6
  <2> QED BY <2>3 DEF ids
\* A lane: what it points at was copied.
<1>12. CASE Len(copied) < n /\ n <= Len(copied) + Len(o)
  <2> DEFINE y == n - Len(copied)
             l == o[y]
  <2>1. y \in 1..Len(o) /\ k >= Len(copied)
    BY <1>1, <1>12
  <2>2. x = [kind |-> "lane", lane |-> l, leaf |-> pointers[l]] /\ x \in LaneMutations
        /\ l \in DOMAIN pointers
    <3> HIDE DEF E, L, B, x, o
    <3> QED BY <2>1, <1>12, <1>1, <1>2, <1>4
  <2>3. x.kind = "lane" /\ x.lane = l /\ x.leaf = pointers[l]
    BY <2>2
  <2>4. put(n) = put(k) \cup {l}
    <3> DEFINE upTo(j) == {z \in 1..Len(o) : Len(copied) + z <= j}
    <3>1. upTo(n) = upTo(k) \cup {y}
      BY <1>1, <2>1
    <3>2. put(n) = {o[z] : z \in upTo(n)} /\ put(k) = {o[z] : z \in upTo(k)}
      BY DEF placed
    <3> HIDE DEF upTo, put, y, o
    <3> QED BY <3>1, <3>2
  <2> HIDE DEF l, x, y, put
  <2>5. accepts(m, n, x)
    BY <1>6, <1>7, <1>11, <2>1, <2>2, <2>3 DEF accepts, hasTarget
  <2>6. new \in States /\ new = [m EXCEPT !.sequence = n, !.lanes = withLane(m, x.lane, x.leaf)]
    <3>1. m \in States /\ x \in LaneMutations /\ accepts(m, n, x)
      BY <1>6, <2>2, <2>5
    <3> QED BY <3>1, AppliesLane
  <2> DEFINE w == withLane(m, x.lane, x.leaf)
  <2>7. /\ DOMAIN w = DOMAIN m.lanes \cup {l} /\ w[l] = pointers[l]
        /\ \A z \in DOMAIN m.lanes : z # l => w[z] = m.lanes[z]
    <3>1. x.lane \in Lanes /\ x.leaf \in Id \cup {Null}
      BY <2>2 DEF LaneMutations
    <3> DEFINE a == x.lane
               b == x.leaf
    <3>3. a \in Lanes /\ b \in Id \cup {Null} /\ w = withLane(m, a, b) /\ m \in States
      BY <1>6, <3>1
    <3> HIDE DEF a, b, w
    <3>4. /\ DOMAIN withLane(m, a, b) = DOMAIN m.lanes \cup {a} /\ withLane(m, a, b)[a] = b
          /\ \A z \in DOMAIN m.lanes : z # a => withLane(m, a, b)[z] = m.lanes[z]
      BY <3>3, LaneSet
    <3>2. /\ DOMAIN w = DOMAIN m.lanes \cup {x.lane} /\ w[x.lane] = x.leaf
          /\ \A z \in DOMAIN m.lanes : z # x.lane => w[z] = m.lanes[z]
      BY <3>3, <3>4 DEF a, b
    <3> QED BY <3>2, <2>3
  <2> HIDE DEF new, w
  <2>8. /\ new.ok /\ new.sequence = n /\ new.usedIds = m.usedIds
        /\ new.entries = m.entries /\ new.parentId = m.parentId
        /\ new.lanes = w /\ new.open = {}
    BY <1>6, <1>8, <2>6 DEF Shapes, w
  <2>9. ids(new) = ids(m)
    BY <2>8 DEF ids
  <2>10. Copied(st, copied, pointers, n, new)
    <3>1. new.entries = IF n <= Len(copied) THEN SubSeq(copied, 1, n) ELSE copied
      BY <1>1, <1>11, <1>12, <2>1, <2>8
    <3>2. new.usedIds = ids(new) /\ \A z \in ids(new) : new.parentId[z] = st.parentId[z]
      BY <1>6, <2>8, <2>9
    <3>3. DOMAIN new.lanes = {"main"} \cup put(n)
      BY <1>6, <2>4, <2>7, <2>8
    <3>4. \A z \in put(n) : new.lanes[z] = pointers[z]
      BY <1>6, <2>4, <2>7, <2>8
    <3> QED BY <2>6, <2>8, <3>1, <3>2, <3>3, <3>4 DEF Copied, put
  <2> QED BY <1>5, <2>5, <2>10 DEF x, new
\* A label: it is on an entry that was copied.
<1>13. CASE Len(copied) + Len(o) < n
  <2> DEFINE y == n - (Len(copied) + Len(o))
  <2>1. y \in 1..Len(only(copied, st.labels)) /\ k >= Len(copied)
    <3> HIDE DEF E, L, B, o
    <3> QED BY <1>1, <1>3, <1>13
  <2>2. x \in LabelMutations /\ x.target \in Range(copied)
    <3> HIDE DEF E, L, B, x, o
    <3> QED BY <2>1, <1>13, <1>1, <1>2, <1>4
  <2>3. x.kind = "label"
    BY <2>2 DEF LabelMutations
  <2>4. put(n) = put(k)
    BY <1>1, <1>13 DEF placed
  <2> HIDE DEF x, y, put
  <2>5. accepts(m, n, x)
    BY <1>6, <1>11, <2>1, <2>2, <2>3 DEF accepts
  <2>6. new \in States /\ new = [m EXCEPT !.sequence = n,
                   !.labels = IF x.set THEN @ \cup {x.target} ELSE @ \ {x.target}]
    <3>1. m \in States /\ x \in LabelMutations /\ accepts(m, n, x)
      BY <1>6, <2>2, <2>5
    <3> QED BY <3>1, AppliesLabel
  <2> HIDE DEF new
  <2>8. /\ new.ok /\ new.sequence = n /\ new.usedIds = m.usedIds
        /\ new.entries = m.entries /\ new.parentId = m.parentId
        /\ new.lanes = m.lanes /\ new.open = {}
    BY <1>6, <1>8, <2>6 DEF Shapes
  <2>9. ids(new) = ids(m)
    BY <2>8 DEF ids
  <2>10. Copied(st, copied, pointers, n, new)
    <3>1. new.entries = IF n <= Len(copied) THEN SubSeq(copied, 1, n) ELSE copied
      BY <1>1, <1>11, <1>13, <2>1, <2>8
    <3>2. new.usedIds = ids(new) /\ \A z \in ids(new) : new.parentId[z] = st.parentId[z]
      BY <1>6, <2>8, <2>9
    <3>3. DOMAIN new.lanes = {"main"} \cup put(n) /\ \A z \in put(n) : new.lanes[z] = pointers[z]
      BY <1>6, <2>4, <2>8
    <3> QED BY <2>6, <2>8, <3>1, <3>2, <3>3 DEF Copied, put
  <2> QED BY <1>5, <2>5, <2>10 DEF x, new
<1> HIDE DEF x, new, o
<1> QED BY <1>10, <1>12, <1>13, <1>1 DEF x, new, o

\* At first nothing is copied.
LEMMA NothingCopied ==
  ASSUME NEW st \in States, NEW copied, NEW pointers, Forkable(st, copied, pointers)
  PROVE  Copied(st, copied, pointers, 0, EmptyState)
<1>1. Len(copied) \in Nat /\ Len(order(pointers)) \in Nat /\ copied \in Seq(Id)
  BY CopyParts DEF Forkable
<1>2. SubSeq(copied, 1, 0) = <<>>
  BY <1>1
<1>3. placed(copied, pointers, 0) = {}
  BY <1>1 DEF placed
<1>4. ids(EmptyState) = {}
  BY DEF EmptyState, ids, Range
<1>5. /\ EmptyState.ok /\ EmptyState.sequence = 0 /\ EmptyState.open = {} /\ EmptyState.entries = <<>>
      /\ EmptyState.usedIds = {} /\ DOMAIN EmptyState.lanes = {"main"}
  BY DEF EmptyState
<1> QED BY <1>1, <1>2, <1>3, <1>4, <1>5, EmptyStateFits DEF Copied

\* At the end every lane has the conversation it had.
LEMMA AllCopied ==
  ASSUME NEW st \in States, NEW copied, NEW pointers, Forkable(st, copied, pointers), NEW m,
         Copied(st, copied, pointers, Len(copyOf(st, copied, pointers)), m)
  PROVE  /\ DOMAIN m.lanes = DOMAIN pointers
         /\ \A l \in DOMAIN pointers : branch(m, m.lanes[l]) = branch(st, pointers[l])
<1> DEFINE o == order(pointers)
           k == Len(copyOf(st, copied, pointers))
           put == placed(copied, pointers, k)
<1>1. /\ Len(copied) \in Nat /\ Len(o) \in Nat /\ Len(only(copied, st.labels)) \in Nat
      /\ \A y \in 1..Len(o) : o[y] \in DOMAIN pointers
      /\ \A l \in DOMAIN pointers : \E y \in 1..Len(o) : o[y] = l
  BY CopyParts
<1>2. k = Len(copied) + Len(o) + Len(only(copied, st.labels))
  BY CopyIsSequence
<1>3. put = DOMAIN pointers
  <2>1. put \subseteq DOMAIN pointers
    BY <1>1 DEF placed
  <2>2. ASSUME NEW l \in DOMAIN pointers PROVE l \in put
    <3>1. PICK y \in 1..Len(o) : o[y] = l
      BY <1>1
    <3>2. Len(copied) + y <= k
      BY <1>1, <1>2
    <3> QED BY <3>1, <3>2 DEF placed
  <2> QED BY <2>1, <2>2
<1>4. copied \in Seq(Id) /\ Range(copied) \subseteq ids(st) /\ Chained(copied, st.parentId)
      /\ "main" \in DOMAIN pointers
      /\ \A l \in DOMAIN pointers : pointers[l] \in Range(copied) \cup {Null}
  BY DEF Forkable
<1>5. m.entries = copied /\ ids(m) = Range(copied) /\ m \in States
      /\ \A i \in ids(m) : m.parentId[i] = st.parentId[i]
  <2>1. SubSeq(copied, 1, Len(copied)) = copied
    BY <1>4
  <2>2. m.entries = IF k <= Len(copied) THEN SubSeq(copied, 1, k) ELSE copied
    BY DEF Copied
  <2>4. Len(o) > 0
    BY CopyParts
  <2>5. ~(k <= Len(copied))
    <3> HIDE DEF k, o
    <3> QED BY <1>1, <1>2, <2>4
  <2>3. m.entries = copied
    BY <2>2, <2>5
  <2> QED BY <2>3 DEF ids, Copied
<1>6. DOMAIN m.lanes = DOMAIN pointers /\ \A l \in DOMAIN pointers : m.lanes[l] = pointers[l]
  <2>1. DOMAIN m.lanes = {"main"} \cup put /\ \A l \in put : m.lanes[l] = pointers[l]
    BY DEF Copied
  <2> HIDE DEF put
  <2> QED BY <2>1, <1>3, <1>4
<1>7. Tree(st.entries, st.parentId) /\ Tree(m.entries, m.parentId)
  BY <1>5, StateFacts
<1>8. ASSUME NEW l \in DOMAIN pointers PROVE branch(m, m.lanes[l]) = branch(st, pointers[l])
  <2>1. pointers[l] \in Range(m.entries) \cup {Null} /\ Range(m.entries) \subseteq Range(st.entries)
        /\ \A i \in Range(m.entries) : m.parentId[i] = st.parentId[i]
    BY <1>4, <1>5 DEF ids
  <2>2. path(m.entries, m.parentId, pointers[l]) = path(st.entries, st.parentId, pointers[l])
    BY <2>1, <1>7, PathOfPart
  <2> QED BY <1>6, <2>2 DEF branch, path
<1> QED BY <1>6, <1>8

-----------------------------------------------------------------------------
(***************************************************************************)
(* What holds of a session, by the call that is queued, refused, put,      *)
(* landed, applied, failed, copied or lost.                                *)
(***************************************************************************)
\* What a call that is not refused writes is accepted, and leaves one
\* operation open on a lane at most.
LEMMA NotRefused ==
  ASSUME NEW m \in States, m.ok, oneOpen(m), NEW call \in Calls, ~refused(m, call),
         NEW n \in Nat, n = m.sequence + 1
  PROVE  /\ mutationOf(m, call) \in Mutations
         /\ accepts(m, n, mutationOf(m, call))
         /\ oneOpen(applyMutation(m, n, mutationOf(m, call)))
<1> DEFINE x == mutationOf(m, call)
           new == applyMutation(m, n, x)
<1>0. /\ m \in Shapes /\ FitsStorage(m) /\ m.lanes \in [DOMAIN m.lanes -> Id \cup {Null}]
      /\ DOMAIN m.lanes \subseteq Lanes
  BY StateFacts
<1>1. CASE call.op \in {"createLane", "moveLane"}
  <2>1. call.lane \in Lanes /\ call.at \in Id \cup {Null} /\ hasTarget(m, call.at)
    BY <1>1 DEF Calls, refused
  <2>2. x = [kind |-> "lane", lane |-> call.lane, leaf |-> call.at]
    BY <1>1 DEF mutationOf
  <2> HIDE DEF x
  <2>3. x \in LaneMutations /\ x.kind = "lane" /\ x.leaf = call.at
    BY <2>1, <2>2 DEF LaneMutations
  <2>4. accepts(m, n, x)
    BY <2>1, <2>3 DEF accepts
  <2>5. new = [m EXCEPT !.sequence = n, !.lanes = withLane(m, x.lane, x.leaf)]
    <3>1. x \in LaneMutations /\ accepts(m, n, x)
      BY <2>3, <2>4
    <3> QED BY <3>1, AppliesLane
  <2> HIDE DEF new
  <2>6. new.open = m.open
    BY <2>5, <1>0 DEF Shapes
  <2> QED BY <2>3, <2>4, <2>6 DEF x, new, oneOpen, Mutations
<1>2. CASE call.op = "appendEntry"
  <2>1. call.lane \in Lanes /\ call.id \in Id /\ call.lane \in DOMAIN m.lanes /\ call.id \notin m.usedIds
    BY <1>2 DEF Calls, refused
  <2>2. x = [kind |-> "entry", id |-> call.id, lane |-> call.lane, parent |-> m.lanes[call.lane]]
    BY <1>2 DEF mutationOf
  <2> HIDE DEF x
  <2>3. m.lanes[call.lane] \in Id \cup {Null} /\ hasTarget(m, m.lanes[call.lane])
    BY <1>0, <2>1 DEF FitsStorage
  <2>4. x \in EntryMutations /\ x.kind = "entry" /\ x.id = call.id /\ x.lane = call.lane
        /\ x.parent = m.lanes[call.lane]
    BY <2>1, <2>2, <2>3 DEF EntryMutations
  <2>5. accepts(m, n, x)
    BY <2>1, <2>3, <2>4 DEF accepts
  <2>6. new = [m EXCEPT !.sequence = n, !.usedIds = @ \cup {x.id}, !.entries = Append(@, x.id),
                        !.parentId = ParentsWith(m, x), !.lanes = LanesWith(m, x)]
    <3>1. x \in EntryMutations /\ accepts(m, n, x)
      BY <2>4, <2>5
    <3> QED BY <3>1, AppliesEntry
  <2> HIDE DEF new
  <2>7. new.open = m.open
    BY <2>6, <1>0 DEF Shapes
  <2> QED BY <2>4, <2>5, <2>7 DEF x, new, oneOpen, Mutations
<1>3. CASE call.op = "appendRecord"
  <2>1. /\ call.lane \in Lanes /\ call.id \in Id /\ call.type \in {"started", "finished"}
        /\ call.run \in Id \cup {Null}
        /\ call.lane \in DOMAIN m.lanes /\ call.id \notin m.usedIds
        /\ call.type = "started" => \A o \in m.open : o[1] # call.lane
    BY <1>3 DEF Calls, refused
  <2>2. x = [kind |-> "record", id |-> call.id, lane |-> call.lane, type |-> call.type, run |-> call.run]
    BY <1>3 DEF mutationOf
  <2> HIDE DEF x
  <2>4. x \in RecordMutations /\ x.kind = "record" /\ x.id = call.id /\ x.lane = call.lane
        /\ x.type = call.type
    BY <2>1, <2>2 DEF RecordMutations
  <2>5. accepts(m, n, x)
    BY <2>1, <2>4 DEF accepts
  <2>6. new = [m EXCEPT !.sequence = n, !.usedIds = @ \cup {x.id}, !.open = openAfter(m, x)]
    <3>1. x \in RecordMutations /\ accepts(m, n, x)
      BY <2>4, <2>5
    <3> QED BY <3>1, AppliesRecord
  <2> HIDE DEF new
  <2>7. new.open = openAfter(m, x)
    BY <2>6, <1>0 DEF Shapes
  <2>8. oneOpen(new)
    <3>1. CASE call.type = "started"
      <4>1. new.open = m.open \cup {<<call.lane, call.id>>}
        BY <2>4, <2>7, <3>1 DEF openAfter
      <4> QED BY <4>1, <2>1, <3>1 DEF oneOpen
    <3>2. CASE call.type = "finished"
      <4>1. new.open \subseteq m.open
        BY <2>4, <2>7, <3>2 DEF openAfter
      <4> QED BY <4>1 DEF oneOpen
    <3> QED BY <2>1, <3>1, <3>2
  <2> QED BY <2>4, <2>5, <2>8 DEF x, new, Mutations
<1>4. CASE call.op = "setName"
  <2>2. x = [kind |-> "name"]
    BY <1>4 DEF mutationOf
  <2> HIDE DEF x
  <2>3. x \in NameMutations /\ x.kind = "name"
    BY <2>2 DEF NameMutations
  <2>4. accepts(m, n, x)
    BY <2>3 DEF accepts
  <2>5. new = [m EXCEPT !.sequence = n]
    <3>1. x \in NameMutations /\ accepts(m, n, x)
      BY <2>3, <2>4
    <3> QED BY <3>1, AppliesName
  <2> HIDE DEF new
  <2>6. new.open = m.open
    BY <2>5, <1>0 DEF Shapes
  <2> QED BY <2>3, <2>4, <2>6 DEF x, new, oneOpen, Mutations
<1>5. CASE call.op = "setLabel"
  <2>1. call.id \in Id /\ call.set \in BOOLEAN /\ call.id \in ids(m)
    BY <1>5 DEF Calls, refused
  <2>2. x = [kind |-> "label", target |-> call.id, set |-> call.set]
    BY <1>5 DEF mutationOf
  <2> HIDE DEF x
  <2>3. x \in LabelMutations /\ x.kind = "label" /\ x.target = call.id
    BY <2>1, <2>2 DEF LabelMutations
  <2>4. accepts(m, n, x)
    BY <2>1, <2>3 DEF accepts
  <2>5. new = [m EXCEPT !.sequence = n,
                        !.labels = IF x.set THEN @ \cup {x.target} ELSE @ \ {x.target}]
    <3>1. x \in LabelMutations /\ accepts(m, n, x)
      BY <2>3, <2>4
    <3> QED BY <3>1, AppliesLabel
  <2> HIDE DEF new
  <2>6. new.open = m.open
    BY <2>5, <1>0 DEF Shapes
  <2> QED BY <2>3, <2>4, <2>6 DEF x, new, oneOpen, Mutations
<1>6. call.op \in {"createLane", "moveLane", "appendEntry", "appendRecord", "setName", "setLabel"}
  BY DEF Calls
<1> QED BY <1>1, <1>2, <1>3, <1>4, <1>5, <1>6

-----------------------------------------------------------------------------
AllLogs == UNION {Logs(n) : n \in Nat}
Puts == [on : {TRUE}, landed : BOOLEAN, number : Nat, mutation : Mutations]

settledOf(l, p) ==
  IF p.on /\ p.landed THEN [n \in DOMAIN l \ {p.number} |-> l[n]] ELSE l

\* The ids of a are in the log l in the order they are in a.
AnsweredIn(a, l) ==
  \A i \in 1..Len(a) :
    \E n \in DOMAIN l :
      /\ ackedBy(l[n]) = <<a[i]>>
      /\ \A j \in 1..(i - 1) : \E k \in DOMAIN l : k < n /\ ackedBy(l[k]) = <<a[j]>>

\* The put of an instance is the next one of its log, and will be accepted.
PutFits(l, m, q, c, p) ==
  /\ p \in Puts /\ p.number = m.sequence + 1
  /\ p.landed => l = putMutation(settledOf(l, p), p.number, p.mutation)
  /\ accepts(m, p.number, p.mutation)
  /\ oneOpen(applyMutation(m, p.number, p.mutation))
  /\ IF c = <<>> THEN q # <<>> ELSE p.mutation = Head(c)

\* c is what is left of a fork that began with the lanes o.
CopyGoesOn(m, c, o) ==
  \E st \in States : \E f \in forks(st) :
    /\ o = [l \in DOMAIN f.pointers |-> branch(st, f.pointers[l])]
    /\ Copied(st, f.copied, f.pointers, m.sequence, m)
    /\ m.sequence + 1 <= Len(copyOf(st, f.copied, f.pointers))
    /\ c = SubSeq(copyOf(st, f.copied, f.pointers), m.sequence + 1,
                  Len(copyOf(st, f.copied, f.pointers)))

\* What holds of every session: of its log, and of the memory, the queue,
\* the copy and the put of its instance if it has one.
KeptAs(known, opened, l, m, q, c, p, a, o) ==
  /\ opened => known
  /\ l \in AllLogs /\ m \in States /\ q \in Seq(Calls) /\ c \in Seq(Mutations)
  /\ p \in {NoPut} \cup Puts /\ a \in Seq(Id)
  /\ ~known => l = noLog /\ a = <<>>
  /\ ~opened => q = <<>> /\ c = <<>> /\ p = NoPut
  /\ Replay(l).ok /\ oneOpen(Replay(l))
  /\ opened => m.ok /\ settledOf(l, p) \in Logs(m.sequence) /\ m = Replay(settledOf(l, p))
  /\ p.on => PutFits(l, m, q, c, p)
  /\ AnsweredIn(a, settledOf(l, p))
  /\ c # <<>> => q = <<>> /\ CopyGoesOn(m, c, o)

SessionKept(s) ==
  KeptAs(s \in meta, s \in live, log[s], mem[s], tail[s], copying[s], pend[s], acked[s], origin[s])

StorageInvariant ==
  /\ meta \subseteq Session /\ live \subseteq Session
  /\ DOMAIN log = Session /\ DOMAIN mem = Session /\ DOMAIN tail = Session
  /\ DOMAIN copying = Session /\ DOMAIN pend = Session
  /\ DOMAIN acked = Session /\ DOMAIN origin = Session
  /\ \A s \in Session : SessionKept(s)

LEMMA NoPutIsSettled ==
  ASSUME NEW l
  PROVE  settledOf(l, NoPut) = l /\ ~NoPut.on
BY DEF settledOf, NoPut

LEMMA AllLogsFacts ==
  ASSUME NEW l \in AllLogs
  PROVE  \E n \in Nat : l \in Logs(n)
BY DEF AllLogs

LEMMA KeptAtFirst ==
  ASSUME NEW m \in States, NEW o
  PROVE  KeptAs(FALSE, FALSE, noLog, m, <<>>, <<>>, NoPut, <<>>, o)
<1>1. noLog \in AllLogs /\ Replay(noLog) = EmptyState
  BY ReplayNone DEF AllLogs
<1>2. EmptyState.ok /\ oneOpen(EmptyState)
  BY DEF EmptyState, oneOpen
<1>3. <<>> \in Seq(Calls) /\ <<>> \in Seq(Mutations) /\ <<>> \in Seq(Id)
  OBVIOUS
<1>4. AnsweredIn(<<>>, noLog)
  BY DEF AnsweredIn
<1> QED BY <1>1, <1>2, <1>3, <1>4, NoPutIsSettled DEF KeptAs

\* openOrCreate
LEMMA KeptByOpening ==
  ASSUME NEW known, NEW l, NEW m, NEW q, NEW c, NEW p, NEW a, NEW o,
         KeptAs(known, FALSE, l, m, q, c, p, a, o)
  PROVE  KeptAs(TRUE, TRUE, l, IF known THEN Replay(l) ELSE EmptyState, q, c, p, a, o)
<1> DEFINE r == IF known THEN Replay(l) ELSE EmptyState
<1>1. /\ l \in AllLogs /\ q = <<>> /\ c = <<>> /\ p = NoPut /\ a \in Seq(Id)
      /\ Replay(l).ok /\ oneOpen(Replay(l)) /\ (~known => l = noLog)
      /\ AnsweredIn(a, settledOf(l, p)) /\ q \in Seq(Calls) /\ c \in Seq(Mutations)
  BY DEF KeptAs
<1>2. r = Replay(l)
  BY <1>1, ReplayNone
<1> HIDE DEF r
<1>3. PICK n \in Nat : l \in Logs(n)
  BY <1>1, AllLogsFacts
<1>4. Replay(l) \in States /\ Replay(l).sequence = n
  BY <1>1, <1>3, ReplayIsState
<1>5. settledOf(l, p) = l /\ ~p.on
  BY <1>1, NoPutIsSettled
<1>6. KeptAs(TRUE, TRUE, l, r, q, c, p, a, o)
  BY <1>1, <1>2, <1>3, <1>4, <1>5 DEF KeptAs
<1> QED BY <1>6 DEF r

\* A call is queued.
LEMMA KeptByCalling ==
  ASSUME NEW l, NEW m, NEW q, NEW p, NEW a, NEW o, NEW call \in Calls,
         KeptAs(TRUE, TRUE, l, m, q, <<>>, p, a, o)
  PROVE  KeptAs(TRUE, TRUE, l, m, Append(q, call), <<>>, p, a, o)
<1>1. q \in Seq(Calls)
  BY DEF KeptAs
<1>2. Append(q, call) \in Seq(Calls) /\ Append(q, call) # <<>>
  BY <1>1, AppendProperties
<1>3. p.on => PutFits(l, m, Append(q, call), <<>>, p)
  BY <1>2 DEF KeptAs, PutFits
<1> QED BY <1>2, <1>3 DEF KeptAs

\* A call is refused, or the put of one failed: it leaves the queue.
LEMMA KeptByRefusing ==
  ASSUME NEW l, NEW m, NEW q, NEW p, NEW a, NEW o, q # <<>>,
         KeptAs(TRUE, TRUE, l, m, q, <<>>, p, a, o), p.on => ~p.landed
  PROVE  KeptAs(TRUE, TRUE, l, m, Tail(q), <<>>, NoPut, a, o)
<1>1. q \in Seq(Calls) /\ p \in {NoPut} \cup Puts
  BY DEF KeptAs
<1>2. Tail(q) \in Seq(Calls)
  BY <1>1, HeadTailProperties
<1>3. settledOf(l, p) = l
  BY <1>1 DEF settledOf, Puts
<1>4. settledOf(l, NoPut) = l /\ ~NoPut.on
  BY NoPutIsSettled
<1> QED BY <1>2, <1>3, <1>4 DEF KeptAs

newPut(m, x) == [on |-> TRUE, landed |-> FALSE, number |-> m.sequence + 1, mutation |-> x]

LEMMA NewPut ==
  ASSUME NEW m \in States, NEW x \in Mutations
  PROVE  /\ newPut(m, x) \in Puts /\ newPut(m, x).on /\ ~newPut(m, x).landed
         /\ newPut(m, x).number = m.sequence + 1 /\ newPut(m, x).mutation = x
         /\ \A l : settledOf(l, newPut(m, x)) = l
<1>1. m.sequence \in Nat
  BY StateFacts
<1> QED BY <1>1 DEF newPut, Puts, settledOf

\* A call that is not refused is put, or the next mutation of a fork.
LEMMA KeptByPutting ==
  ASSUME NEW l, NEW m, NEW q, NEW c, NEW p, NEW a, NEW o, NEW x \in Mutations,
         KeptAs(TRUE, TRUE, l, m, q, c, p, a, o), ~p.on,
         accepts(m, m.sequence + 1, x), oneOpen(applyMutation(m, m.sequence + 1, x)),
         IF c = <<>> THEN q # <<>> ELSE x = Head(c)
  PROVE  KeptAs(TRUE, TRUE, l, m, q, c, newPut(m, x), a, o)
<1> DEFINE n == m.sequence + 1
           w == newPut(m, x)
<1>1. m \in States /\ p \in {NoPut} \cup Puts
  BY DEF KeptAs
<1>2. /\ w \in Puts /\ w.on /\ ~w.landed /\ w.number = n /\ w.mutation = x /\ settledOf(l, w) = l
  BY <1>1, NewPut
<1>3. settledOf(l, p) = l
  BY DEF settledOf
<1> HIDE DEF w
<1>4. PutFits(l, m, q, c, w)
  <2>1. accepts(m, n, x) /\ oneOpen(applyMutation(m, n, x))
    OBVIOUS
  <2> HIDE DEF n
  <2>2. accepts(m, w.number, w.mutation) /\ oneOpen(applyMutation(m, w.number, w.mutation))
    BY <2>1, <1>2
  <2>3. w.number = m.sequence + 1
    BY <1>2 DEF n
  <2> QED BY <1>2, <2>2, <2>3 DEF PutFits
<1>5. KeptAs(TRUE, TRUE, l, m, q, c, w, a, o)
  BY <1>2, <1>3, <1>4 DEF KeptAs
<1> QED BY <1>5 DEF w

LEMMA AnsweredInMore ==
  ASSUME NEW a, NEW l, NEW k, DOMAIN l \subseteq DOMAIN k, \A n \in DOMAIN l : k[n] = l[n],
         AnsweredIn(a, l)
  PROVE  AnsweredIn(a, k)
<1> SUFFICES ASSUME NEW i \in 1..Len(a)
      PROVE \E n \in DOMAIN k :
              /\ ackedBy(k[n]) = <<a[i]>>
              /\ \A j \in 1..(i - 1) : \E x \in DOMAIN k : x < n /\ ackedBy(k[x]) = <<a[j]>>
  BY DEF AnsweredIn
<1>1. PICK n \in DOMAIN l :
        /\ ackedBy(l[n]) = <<a[i]>>
        /\ \A j \in 1..(i - 1) : \E x \in DOMAIN l : x < n /\ ackedBy(l[x]) = <<a[j]>>
  BY DEF AnsweredIn
<1>2. n \in DOMAIN k /\ ackedBy(k[n]) = <<a[i]>>
  BY <1>1
<1>3. ASSUME NEW j \in 1..(i - 1) PROVE \E x \in DOMAIN k : x < n /\ ackedBy(k[x]) = <<a[j]>>
  <2>1. PICK x \in DOMAIN l : x < n /\ ackedBy(l[x]) = <<a[j]>>
    BY <1>1
  <2>2. x \in DOMAIN k /\ ackedBy(k[x]) = <<a[j]>>
    BY <2>1
  <2> QED BY <2>1, <2>2
<1> QED BY <1>2, <1>3

\* What was answered is in the whole log.
LEMMA AnsweredOnDisk ==
  ASSUME NEW a, NEW l, NEW p, AnsweredIn(a, settledOf(l, p))
  PROVE  AnsweredIn(a, l)
<1>1. DOMAIN settledOf(l, p) \subseteq DOMAIN l /\ \A n \in DOMAIN settledOf(l, p) : l[n] = settledOf(l, p)[n]
  BY DEF settledOf
<1> QED BY <1>1, AnsweredInMore

\* Taking the put out of the log again leaves what it was put into.
LEMMA TakenOut ==
  ASSUME NEW n \in Nat, NEW l \in Logs(n), NEW p, p.on, p.landed, p.number = n + 1, NEW x
  PROVE  settledOf(putMutation(l, p.number, x), p) = l
<1> DEFINE w == putMutation(l, p.number, x)
           v == [k \in DOMAIN w \ {p.number} |-> w[k]]
<1>1. DOMAIN l = 1..n /\ l = [k \in DOMAIN l |-> l[k]]
  BY DEF Logs
<1>2. DOMAIN w = (1..n) \cup {n + 1} /\ \A k \in 1..n : w[k] = l[k]
  BY <1>1 DEF putMutation
<1>3. n + 1 \notin 1..n
  OBVIOUS
<1>4. settledOf(w, p) = v
  BY DEF settledOf
<1> HIDE DEF w
<1>5. DOMAIN v = 1..n /\ \A k \in 1..n : v[k] = l[k]
  BY <1>2, <1>3
<1>6. v = [k \in DOMAIN v |-> v[k]]
  OBVIOUS
<1> HIDE DEF v
<1>7. v = l
  BY <1>1, <1>5, <1>6
<1> QED BY <1>4, <1>7 DEF w

\* What holds of a put and of the log with it and without it.
PutIsNext(l, m, p) ==
  /\ m \in States /\ m.ok /\ m.sequence \in Nat
  /\ p \in Puts /\ p.number = m.sequence + 1 /\ p.mutation \in Mutations /\ p.number \in Nat
  /\ p.landed \in BOOLEAN
  /\ settledOf(l, p) \in Logs(m.sequence) /\ m = Replay(settledOf(l, p))
  /\ accepts(m, p.number, p.mutation)
  /\ oneOpen(applyMutation(m, p.number, p.mutation))
  /\ applyMutation(m, p.number, p.mutation) \in States
  /\ applyMutation(m, p.number, p.mutation).ok
  /\ applyMutation(m, p.number, p.mutation).sequence = p.number
  /\ putMutation(settledOf(l, p), p.number, p.mutation) \in Logs(p.number)
  /\ Replay(putMutation(settledOf(l, p), p.number, p.mutation))
       = applyMutation(m, p.number, p.mutation)

LEMMA PutFacts ==
  ASSUME NEW l, NEW m, NEW q, NEW c, NEW p, NEW a, NEW o,
         KeptAs(TRUE, TRUE, l, m, q, c, p, a, o), p.on
  PROVE  PutIsNext(l, m, p)
<1>1. /\ m \in States /\ m.ok /\ settledOf(l, p) \in Logs(m.sequence) /\ m = Replay(settledOf(l, p))
      /\ p \in Puts /\ p.number = m.sequence + 1
      /\ accepts(m, p.number, p.mutation)
      /\ oneOpen(applyMutation(m, p.number, p.mutation))
  BY DEF KeptAs, PutFits
<1>2. m.sequence \in Nat /\ p.mutation \in Mutations /\ p.number \in Nat /\ p.landed \in BOOLEAN
  BY <1>1, StateFacts DEF Puts
<1> DEFINE s == settledOf(l, p)
           n == p.number
           x == p.mutation
           k == m.sequence
<1>3. /\ applyMutation(m, n, x) \in States /\ applyMutation(m, n, x).ok
      /\ applyMutation(m, n, x).sequence = n
  <2> HIDE DEF n, x
  <2> QED BY <1>1, <1>2, Applies DEF n, x
<1>4. k \in Nat /\ s \in Logs(k) /\ x \in Mutations /\ n = k + 1 /\ m = Replay(s)
  BY <1>1, <1>2
<1> HIDE DEF s, n, x, k
<1>5. putMutation(s, k + 1, x) \in Logs(k + 1) /\ Replay(putMutation(s, k + 1, x)) = applyMutation(Replay(s), k + 1, x)
  BY <1>4, ReplayMore
<1>6. putMutation(s, n, x) \in Logs(n) /\ Replay(putMutation(s, n, x)) = applyMutation(m, n, x)
  BY <1>4, <1>5
<1> QED BY <1>1, <1>2, <1>3, <1>6 DEF s, n, x, k, PutIsNext

LEMMA KeptByLanding ==
  ASSUME NEW l, NEW m, NEW q, NEW c, NEW p, NEW a, NEW o, NEW w,
         KeptAs(TRUE, TRUE, l, m, q, c, p, a, o), p.on, ~p.landed,
         w = [p EXCEPT !.landed = TRUE]
  PROVE  /\ KeptAs(TRUE, TRUE, putMutation(l, p.number, p.mutation), m, q, c, w, a, o)
         /\ w \in Puts
<1>0. PutIsNext(l, m, p)
  BY PutFacts
<1>1. /\ m \in States /\ m.ok /\ m.sequence \in Nat
      /\ p \in Puts /\ p.number = m.sequence + 1 /\ p.mutation \in Mutations /\ p.number \in Nat
      /\ settledOf(l, p) \in Logs(m.sequence) /\ m = Replay(settledOf(l, p))
      /\ accepts(m, p.number, p.mutation)
      /\ oneOpen(applyMutation(m, p.number, p.mutation))
      /\ applyMutation(m, p.number, p.mutation).ok
      /\ putMutation(settledOf(l, p), p.number, p.mutation) \in Logs(p.number)
      /\ Replay(putMutation(settledOf(l, p), p.number, p.mutation))
           = applyMutation(m, p.number, p.mutation)
  BY <1>0 DEF PutIsNext
<1> DEFINE k == putMutation(l, p.number, p.mutation)
<1>2. settledOf(l, p) = l
  BY DEF settledOf
<1>3. w \in Puts /\ w.on /\ w.landed /\ w.number = p.number /\ w.mutation = p.mutation
  BY <1>1 DEF Puts
<1>4. settledOf(k, w) = l
  <2>1. l \in Logs(m.sequence) /\ w.number = m.sequence + 1 /\ k = putMutation(l, w.number, p.mutation)
    BY <1>1, <1>2, <1>3
  <2> HIDE DEF k
  <2>2. settledOf(putMutation(l, w.number, p.mutation), w) = l
    BY <1>1, <1>3, <2>1, TakenOut
  <2> QED BY <2>1, <2>2
<1>5. k \in AllLogs /\ Replay(k).ok /\ oneOpen(Replay(k))
  BY <1>1, <1>2 DEF AllLogs
<1>6. PutFits(k, m, q, c, w)
  <2>1. IF c = <<>> THEN q # <<>> ELSE p.mutation = Head(c)
    BY DEF KeptAs, PutFits
  <2> HIDE DEF k
  <2>2. k = putMutation(settledOf(k, w), w.number, w.mutation)
    BY <1>3, <1>4 DEF k
  <2>3. accepts(m, w.number, w.mutation) /\ oneOpen(applyMutation(m, w.number, w.mutation))
    BY <1>1, <1>3
  <2> QED BY <1>1, <1>3, <2>1, <2>2, <2>3 DEF PutFits
<1> HIDE DEF k
<1>7. KeptAs(TRUE, TRUE, k, m, q, c, w, a, o)
  BY <1>1, <1>2, <1>3, <1>4, <1>5, <1>6 DEF KeptAs
<1> QED BY <1>3, <1>7 DEF k

\* The settled log of an instance whose put landed is all of it once the
\* mutation is applied.
LEMMA KeptByApplying ==
  ASSUME NEW l, NEW m, NEW q, NEW c, NEW p, NEW a, NEW o, NEW q1, NEW c1, NEW a1,
         KeptAs(TRUE, TRUE, l, m, q, c, p, a, o), p.on, p.landed,
         q1 \in Seq(Calls), c1 \in Seq(Mutations), a1 \in Seq(Id),
         AnsweredIn(a1, l),
         c1 # <<>> => q1 = <<>> /\ CopyGoesOn(applyMutation(m, p.number, p.mutation), c1, o)
  PROVE  /\ KeptAs(TRUE, TRUE, l, applyMutation(m, p.number, p.mutation), q1, c1, NoPut, a1, o)
         /\ applyMutation(m, p.number, p.mutation) \in States
<1> DEFINE new == applyMutation(m, p.number, p.mutation)
<1>1. /\ p.number \in Nat /\ oneOpen(new) /\ new \in States /\ new.ok /\ new.sequence = p.number
      /\ putMutation(settledOf(l, p), p.number, p.mutation) \in Logs(p.number)
      /\ Replay(putMutation(settledOf(l, p), p.number, p.mutation)) = new
  BY PutFacts DEF PutIsNext
<1>2. l = putMutation(settledOf(l, p), p.number, p.mutation) /\ l \in AllLogs
  BY DEF KeptAs, PutFits
<1> HIDE DEF new
<1>3. l \in Logs(new.sequence) /\ Replay(l) = new
  BY <1>1, <1>2
<1>4. KeptAs(TRUE, TRUE, l, new, q1, c1, NoPut, a1, o)
  BY <1>1, <1>2, <1>3, NoPutIsSettled DEF KeptAs, new
<1> QED BY <1>1, <1>4 DEF new

\* The put is answered: its id is behind those answered before it.
LEMMA AnsweredNext ==
  ASSUME NEW l, NEW m, NEW q, NEW c, NEW p, NEW a, NEW o,
         KeptAs(TRUE, TRUE, l, m, q, c, p, a, o), p.on, p.landed
  PROVE  a \o ackedBy(p.mutation) \in Seq(Id) /\ AnsweredIn(a \o ackedBy(p.mutation), l)
<1> DEFINE s == settledOf(l, p)
           n == p.number
           x == p.mutation
<1>1. /\ m.sequence \in Nat /\ n = m.sequence + 1 /\ x \in Mutations /\ s \in Logs(m.sequence)
  BY PutFacts DEF PutIsNext
<1>2. l = putMutation(s, n, x) /\ a \in Seq(Id) /\ AnsweredIn(a, s)
  BY DEF KeptAs, PutFits
<1>3. AnsweredIn(a, l)
  BY <1>2, AnsweredOnDisk
<1>4. DOMAIN s = 1..m.sequence
  BY <1>1 DEF Logs
<1> HIDE DEF s, n, x
<1>5. DOMAIN l = DOMAIN s \cup {n} /\ l[n] = x /\ \A k \in DOMAIN s : l[k] = s[k] /\ k < n
  BY <1>1, <1>2, <1>4 DEF putMutation
<1>6. CASE x.kind \in {"entry", "record"}
  <2>1. x.id \in Id
    BY <1>1, <1>6 DEF Mutations, EntryMutations, RecordMutations, LaneMutations, NameMutations, LabelMutations
  <2> DEFINE i1 == x.id
             b == Append(a, i1)
  <2>2. ackedBy(x) = <<i1>>
    BY <1>6 DEF ackedBy
  <2>3. a \o ackedBy(x) = b /\ b \in Seq(Id) /\ Len(b) = Len(a) + 1 /\ b[Len(a) + 1] = i1
        /\ Len(a) \in Nat /\ \A i \in 1..Len(a) : b[i] = a[i]
    <3>1. b = a \o <<i1>>
      BY <1>2, <2>1, AppendIsConcat
    <3> QED BY <3>1, <1>2, <2>1, <2>2, AppendProperties, LenProperties
  <2> HIDE DEF b, i1
  <2>4. ASSUME NEW i \in 1..Len(b)
        PROVE \E k \in DOMAIN l :
                /\ ackedBy(l[k]) = <<b[i]>>
                /\ \A j \in 1..(i - 1) : \E y \in DOMAIN l : y < k /\ ackedBy(l[y]) = <<b[j]>>
    <3>1. CASE i \in 1..Len(a)
      <4>1. PICK k \in DOMAIN l :
              /\ ackedBy(l[k]) = <<a[i]>>
              /\ \A j \in 1..(i - 1) : \E y \in DOMAIN l : y < k /\ ackedBy(l[y]) = <<a[j]>>
        BY <1>3, <3>1 DEF AnsweredIn
      <4>2. b[i] = a[i]
        BY <2>3, <3>1
      <4>3. ASSUME NEW j \in 1..(i - 1) PROVE b[j] = a[j]
        <5>1. Len(a) \in Nat /\ i \in 1..Len(a)
          BY <2>3, <3>1
        <5>2. j \in 1..Len(a)
          BY <5>1
        <5> QED BY <2>3, <5>2
      <4> QED BY <4>1, <4>2, <4>3
    <3>2. CASE i \notin 1..Len(a)
      <4>1. i = Len(a) + 1 /\ i - 1 = Len(a)
        BY <2>3, <3>2
      <4>2. n \in DOMAIN l /\ ackedBy(l[n]) = <<b[i]>>
        BY <1>5, <2>2, <2>3, <4>1
      <4>3. ASSUME NEW j \in 1..(i - 1) PROVE \E y \in DOMAIN l : y < n /\ ackedBy(l[y]) = <<b[j]>>
        <5>1. j \in 1..Len(a) /\ b[j] = a[j]
          BY <2>3, <4>1
        <5>2. PICK y \in DOMAIN s : ackedBy(s[y]) = <<a[j]>>
          BY <1>2, <5>1 DEF AnsweredIn
        <5> QED BY <1>5, <5>1, <5>2
      <4> QED BY <4>2, <4>3
    <3> QED BY <3>1, <3>2
  <2>5. AnsweredIn(b, l)
    BY <2>4 DEF AnsweredIn
  <2> QED BY <2>3, <2>5 DEF x
<1>7. CASE x.kind \notin {"entry", "record"}
  <2>1. ackedBy(x) = <<>>
    BY <1>7 DEF ackedBy
  <2>2. a \o <<>> = a
    BY <1>2, ConcatEmptySeq
  <2> QED BY <1>2, <1>3, <2>1, <2>2 DEF x
<1> QED BY <1>6, <1>7

\* m has the lanes o of a fork, and on each what o says.
ForkIsThere(m, o) ==
  /\ DOMAIN m.lanes = DOMAIN o
  /\ \A x \in DOMAIN o : branch(m, m.lanes[x]) = o[x]

\* A fork goes on with its next mutation.
LEMMA CopyStep ==
  ASSUME NEW l, NEW m, NEW q, NEW c, NEW p, NEW a, NEW o,
         KeptAs(TRUE, TRUE, l, m, q, c, p, a, o), c # <<>>
  PROVE  /\ Head(c) \in Mutations /\ Tail(c) \in Seq(Mutations)
         /\ accepts(m, m.sequence + 1, Head(c))
         /\ oneOpen(applyMutation(m, m.sequence + 1, Head(c)))
         /\ Tail(c) # <<>> => CopyGoesOn(applyMutation(m, m.sequence + 1, Head(c)), Tail(c), o)
         /\ Tail(c) = <<>> => ForkIsThere(applyMutation(m, m.sequence + 1, Head(c)), o)
<1>1. m \in States /\ c \in Seq(Mutations) /\ CopyGoesOn(m, c, o) /\ m.sequence \in Nat
  BY StateFacts DEF KeptAs
<1>2. PICK st \in States : \E f \in forks(st) :
        /\ o = [x \in DOMAIN f.pointers |-> branch(st, f.pointers[x])]
        /\ Copied(st, f.copied, f.pointers, m.sequence, m)
        /\ m.sequence + 1 <= Len(copyOf(st, f.copied, f.pointers))
        /\ c = SubSeq(copyOf(st, f.copied, f.pointers), m.sequence + 1,
                      Len(copyOf(st, f.copied, f.pointers)))
  BY <1>1 DEF CopyGoesOn
<1>3. PICK f \in forks(st) :
        /\ o = [x \in DOMAIN f.pointers |-> branch(st, f.pointers[x])]
        /\ Copied(st, f.copied, f.pointers, m.sequence, m)
        /\ m.sequence + 1 <= Len(copyOf(st, f.copied, f.pointers))
        /\ c = SubSeq(copyOf(st, f.copied, f.pointers), m.sequence + 1,
                      Len(copyOf(st, f.copied, f.pointers)))
  BY <1>2
<1> DEFINE C == f.copied
           P == f.pointers
           full == copyOf(st, C, P)
           k == m.sequence
           n == k + 1
           N == Len(full)
           new == applyMutation(m, n, Head(c))
<1>4. Forkable(st, C, P)
  BY EveryForkIsForkable
<1>5. full \in Seq(Mutations) /\ N \in Nat
  <2> HIDE DEF C, P
  <2>1. full \in Seq(Mutations)
    BY <1>4, CopyIsSequence
  <2> QED BY <2>1, LenProperties
<1>6. Head(c) = full[n] /\ Tail(c) = SubSeq(full, n + 1, N) /\ n \in Nat /\ n <= N
  <2> HIDE DEF full, k
  <2>1. k \in Nat /\ c = SubSeq(full, k + 1, N) /\ k + 1 <= N
    BY <1>1, <1>3 DEF full, k
  <2> QED BY <2>1, <1>5
<1>7. /\ full[n] \in Mutations /\ accepts(m, n, full[n])
      /\ Copied(st, C, P, n, applyMutation(m, n, full[n]))
  <2>1. k \in Nat /\ n \in Nat /\ n = k + 1 /\ Copied(st, C, P, k, m) /\ n <= Len(copyOf(st, C, P))
    BY <1>1, <1>3, <1>6
  <2> HIDE DEF C, P, k, n
  <2> QED BY <2>1, <1>4, CopyAccepted
<1>8. Copied(st, C, P, n, new) /\ new.open = {} /\ new.sequence = n
  BY <1>6, <1>7 DEF Copied
<1>9. Tail(c) \in Seq(Mutations)
  BY <1>1, HeadTailProperties
<1>10. oneOpen(new)
  BY <1>8 DEF oneOpen
<1>11. ASSUME Tail(c) # <<>> PROVE CopyGoesOn(new, Tail(c), o)
  <2>1. n + 1 <= N
    <3> HIDE DEF full, n
    <3> QED BY <1>5, <1>6, <1>11
  <2>2. o = [x \in DOMAIN P |-> branch(st, P[x])]
    BY <1>3
  <2>3. /\ Copied(st, C, P, new.sequence, new) /\ new.sequence + 1 <= Len(copyOf(st, C, P))
        /\ Tail(c) = SubSeq(copyOf(st, C, P), new.sequence + 1, Len(copyOf(st, C, P)))
    <3>1. Tail(c) = SubSeq(full, n + 1, N)
      BY <1>6
    <3> HIDE DEF new, n
    <3> QED BY <3>1, <2>1, <1>8
  <2> HIDE DEF new
  <2> QED BY <2>2, <2>3 DEF CopyGoesOn
<1>12. ASSUME Tail(c) = <<>>
       PROVE ForkIsThere(new, o)
  <2>1. n = N
    <3> HIDE DEF full, n
    <3>1. SubSeq(full, n + 1, N) = <<>>
      BY <1>6, <1>12
    <3>2. ASSUME n + 1 <= N PROVE FALSE
      <4>1. Len(SubSeq(full, n + 1, N)) = N - n
        BY <3>2, <1>5, <1>6
      <4>2. N - n = 0
        BY <3>1, <4>1
      <4> QED BY <3>2, <4>2, <1>5, <1>6
    <3> HIDE DEF N
    <3> QED BY <3>2, <1>5, <1>6
  <2>2. o = [x \in DOMAIN P |-> branch(st, P[x])]
    BY <1>3
  <2>3. Copied(st, C, P, Len(copyOf(st, C, P)), new)
    BY <1>8, <2>1
  <2> HIDE DEF new, C, P
  <2>4. /\ DOMAIN new.lanes = DOMAIN P
        /\ \A x \in DOMAIN P : branch(new, new.lanes[x]) = branch(st, P[x])
    BY <2>3, <1>4, AllCopied
  <2> QED BY <2>2, <2>4 DEF ForkIsThere
<1> QED BY <1>6, <1>7, <1>9, <1>10, <1>11, <1>12

\* A fork begins.
LEMMA ForkBegins ==
  ASSUME NEW st \in States, NEW f \in forks(st)
  PROVE  /\ copyOf(st, f.copied, f.pointers) \in Seq(Mutations)
         /\ CopyGoesOn(EmptyState, copyOf(st, f.copied, f.pointers),
                       [x \in DOMAIN f.pointers |-> branch(st, f.pointers[x])])
<1> DEFINE C == f.copied
           P == f.pointers
           full == copyOf(st, C, P)
<1>1. Forkable(st, C, P)
  BY EveryForkIsForkable
<1> HIDE DEF C, P
<1>2. full \in Seq(Mutations) /\ Len(full) > 0
  BY <1>1, CopyIsSequence
<1>3. Copied(st, C, P, 0, EmptyState)
  BY <1>1, NothingCopied
<1>4. EmptyState.sequence = 0
  BY DEF EmptyState
<1>5. full = SubSeq(full, 1, Len(full)) /\ Len(full) \in Nat
  <2> HIDE DEF full
  <2> QED BY <1>2, LenProperties
<1>6. /\ Copied(st, C, P, EmptyState.sequence, EmptyState)
      /\ EmptyState.sequence + 1 <= Len(full)
      /\ full = SubSeq(full, EmptyState.sequence + 1, Len(full))
  <2> HIDE DEF full
  <2> QED BY <1>2, <1>3, <1>4, <1>5
<1> DEFINE o == [x \in DOMAIN P |-> branch(st, P[x])]
<1>7. CopyGoesOn(EmptyState, full, o)
  BY <1>6 DEF CopyGoesOn, C, P
<1> QED BY <1>2, <1>7 DEF C, P

\* An instance goes, or the page is reloaded: the log on disk is as it was.
LEMMA KeptByLosing ==
  ASSUME NEW known, NEW opened, NEW l, NEW m, NEW q, NEW c, NEW p, NEW a, NEW o,
         KeptAs(known, opened, l, m, q, c, p, a, o)
  PROVE  KeptAs(known, FALSE, l, EmptyState, <<>>, <<>>, NoPut, a, o)
<1>1. /\ l \in AllLogs /\ a \in Seq(Id) /\ Replay(l).ok /\ oneOpen(Replay(l))
      /\ (~known => l = noLog /\ a = <<>>) /\ AnsweredIn(a, settledOf(l, p))
  BY DEF KeptAs
<1>2. AnsweredIn(a, l)
  BY <1>1, AnsweredOnDisk
<1>3. <<>> \in Seq(Calls) /\ <<>> \in Seq(Mutations)
  OBVIOUS
<1> QED BY <1>1, <1>2, <1>3, NoPutIsSettled, EmptyStateFits DEF KeptAs

\* An instance with nothing to do awaits no put.
LEMMA IdleHasNoPut ==
  ASSUME NEW known, NEW opened, NEW l, NEW m, NEW p, NEW a, NEW o,
         KeptAs(known, opened, l, m, <<>>, <<>>, p, a, o)
  PROVE  p = NoPut
<1>1. p \in {NoPut} \cup Puts /\ (p.on => PutFits(l, m, <<>>, <<>>, p))
  BY DEF KeptAs
<1>2. ~PutFits(l, m, <<>>, <<>>, p)
  BY DEF PutFits
<1> QED BY <1>1, <1>2 DEF Puts

\* fork creates a session.
LEMMA KeptByForking ==
  ASSUME NEW l, NEW m, NEW q, NEW c, NEW p, NEW a, NEW o,
         KeptAs(FALSE, FALSE, l, m, q, c, p, a, o),
         NEW st \in States, NEW f \in forks(st)
  PROVE  KeptAs(TRUE, TRUE, l, EmptyState, q, copyOf(st, f.copied, f.pointers), p, a,
              [x \in DOMAIN f.pointers |-> branch(st, f.pointers[x])])
<1> DEFINE full == copyOf(st, f.copied, f.pointers)
           of == [x \in DOMAIN f.pointers |-> branch(st, f.pointers[x])]
<1>1. full \in Seq(Mutations) /\ CopyGoesOn(EmptyState, full, of)
  BY ForkBegins
<1> HIDE DEF full, of
<1>2. l = noLog /\ a = <<>> /\ q = <<>> /\ p = NoPut /\ AnsweredIn(a, settledOf(l, p))
  BY DEF KeptAs
<1>3. /\ noLog \in Logs(0) /\ noLog \in AllLogs /\ Replay(noLog) = EmptyState
  BY ReplayNone DEF AllLogs
<1>4. EmptyState \in States /\ EmptyState.ok /\ EmptyState.sequence = 0 /\ oneOpen(EmptyState)
  BY EmptyStateFits DEF EmptyState, oneOpen
<1>5. <<>> \in Seq(Calls) /\ <<>> \in Seq(Id)
  OBVIOUS
<1>6. KeptAs(TRUE, TRUE, l, EmptyState, q, full, p, a, of)
  BY <1>1, <1>2, <1>3, <1>4, <1>5, NoPutIsSettled DEF KeptAs
<1> QED BY <1>6 DEF full, of

-----------------------------------------------------------------------------
\* A step of one session leaves the others as they are.
OnlyChanges(s) ==
  /\ meta' \subseteq Session /\ live' \subseteq Session
  /\ DOMAIN log' = Session /\ DOMAIN mem' = Session /\ DOMAIN tail' = Session
  /\ DOMAIN copying' = Session /\ DOMAIN pend' = Session
  /\ DOMAIN acked' = Session /\ DOMAIN origin' = Session
  /\ \A r \in Session \ {s} :
       /\ r \in meta' <=> r \in meta
       /\ r \in live' <=> r \in live
       /\ log'[r] = log[r] /\ mem'[r] = mem[r] /\ tail'[r] = tail[r]
       /\ copying'[r] = copying[r] /\ pend'[r] = pend[r]
       /\ acked'[r] = acked[r] /\ origin'[r] = origin[r]

LEMMA OthersAreKept ==
  ASSUME StorageInvariant, NEW s \in Session, OnlyChanges(s), SessionKept(s)'
  PROVE  StorageInvariant'
<1>1. ASSUME NEW r \in Session, r # s PROVE SessionKept(r)'
  <2>1. SessionKept(r)
    BY DEF StorageInvariant
  <2> QED BY <1>1, <2>1 DEF OnlyChanges, SessionKept, KeptAs
<1>2. \A r \in Session : SessionKept(r)'
  BY <1>1
<1> QED BY <1>2 DEF StorageInvariant, OnlyChanges

LEMMA KeptOf ==
  ASSUME StorageInvariant, NEW s \in Session, NEW known \in BOOLEAN, NEW opened \in BOOLEAN,
         known <=> s \in meta, opened <=> s \in live
  PROVE  KeptAs(known, opened, log[s], mem[s], tail[s], copying[s], pend[s], acked[s], origin[s])
<1>1. SessionKept(s)
  BY DEF StorageInvariant
<1> QED BY <1>1 DEF SessionKept, KeptAs

LEMMA LiveIsKept ==
  ASSUME StorageInvariant, NEW s \in Session, s \in live
  PROVE  /\ s \in meta
         /\ KeptAs(TRUE, TRUE, log[s], mem[s], tail[s], copying[s], pend[s], acked[s], origin[s])
<1>1. SessionKept(s)
  BY DEF StorageInvariant
<1>2. s \in meta
  BY <1>1 DEF SessionKept, KeptAs
<1> QED BY <1>2, KeptOf

LEMMA BusyIsLive ==
  ASSUME StorageInvariant, NEW s \in Session,
         tail[s] # <<>> \/ copying[s] # <<>> \/ pend[s].on
  PROVE  s \in live
<1>1. SessionKept(s)
  BY DEF StorageInvariant
<1> QED BY <1>1, NoPutIsSettled DEF SessionKept, KeptAs

-----------------------------------------------------------------------------
LEMMA OpenOrCreateKeeps ==
  ASSUME StorageInvariant, NEW s \in Session, OpenOrCreate(s)
  PROVE  StorageInvariant'
<1>1. OnlyChanges(s)
  BY DEF OnlyChanges, OpenOrCreate, StorageInvariant
<1> DEFINE known == s \in meta
<1>2. mem'[s] = IF known THEN Replay(log[s]) ELSE EmptyState
  BY DEF OpenOrCreate, StorageInvariant
<1>3. /\ s \in meta' /\ s \in live' /\ log'[s] = log[s] /\ tail'[s] = tail[s]
      /\ copying'[s] = copying[s] /\ pend'[s] = pend[s] /\ acked'[s] = acked[s]
      /\ origin'[s] = origin[s] /\ s \notin live
  BY DEF OpenOrCreate
<1>4. KeptAs(TRUE, TRUE, log[s], mem'[s], tail[s], copying[s], pend[s], acked[s], origin[s])
  <2>1. CASE s \in meta
    <3>1. KeptAs(TRUE, FALSE, log[s], mem[s], tail[s], copying[s], pend[s], acked[s], origin[s])
      BY <1>3, <2>1, KeptOf
    <3>2. KeptAs(TRUE, TRUE, log[s], IF TRUE THEN Replay(log[s]) ELSE EmptyState, tail[s],
               copying[s], pend[s], acked[s], origin[s])
      BY ONLY <3>1, KeptByOpening
    <3> QED BY <1>2, <2>1, <3>2
  <2>2. CASE s \notin meta
    <3>1. KeptAs(FALSE, FALSE, log[s], mem[s], tail[s], copying[s], pend[s], acked[s], origin[s])
      BY <1>3, <2>2, KeptOf
    <3>2. KeptAs(TRUE, TRUE, log[s], IF FALSE THEN Replay(log[s]) ELSE EmptyState, tail[s],
               copying[s], pend[s], acked[s], origin[s])
      BY ONLY <3>1, KeptByOpening
    <3> QED BY <1>2, <2>2, <3>2
  <2> QED BY <2>1, <2>2
<1>5. SessionKept(s)'
  BY <1>3, <1>4 DEF SessionKept, KeptAs
<1> QED BY <1>1, <1>5, OthersAreKept

LEMMA CallKeeps ==
  ASSUME StorageInvariant, NEW s \in Session, NEW call \in Calls, Call(s, call)
  PROVE  StorageInvariant'
<1>1. OnlyChanges(s)
  BY DEF OnlyChanges, Call, StorageInvariant, disk
<1>2. /\ tail'[s] = Append(tail[s], call) /\ copying[s] = <<>>
      /\ s \in live /\ s \in live' /\ (s \in meta => s \in meta') /\ log'[s] = log[s]
      /\ mem'[s] = mem[s] /\ copying'[s] = copying[s] /\ pend'[s] = pend[s]
      /\ acked'[s] = acked[s] /\ origin'[s] = origin[s]
  BY DEF Call, StorageInvariant, disk
<1>3. KeptAs(TRUE, TRUE, log[s], mem[s], tail[s], <<>>, pend[s], acked[s], origin[s]) /\ s \in meta
  BY <1>2, LiveIsKept
<1>4. KeptAs(TRUE, TRUE, log[s], mem[s], Append(tail[s], call), <<>>, pend[s], acked[s], origin[s])
  BY <1>3, KeptByCalling
<1>5. SessionKept(s)'
  BY <1>2, <1>3, <1>4 DEF SessionKept, KeptAs
<1> QED BY <1>1, <1>5, OthersAreKept

-----------------------------------------------------------------------------
(* Every step keeps what holds of every session. *)

LEMMA ExecuteKeeps ==
  ASSUME StorageInvariant, NEW s \in Session, Execute(s)
  PROVE  StorageInvariant'
<1>1. OnlyChanges(s)
  BY DEF OnlyChanges, Execute, StorageInvariant, disk
<1> DEFINE l == log[s]
           m == mem[s]
           q == tail[s]
           c == copying[s]
           p == pend[s]
           a == acked[s]
           o == origin[s]
<1>2. /\ q # <<>> /\ ~p.on /\ log'[s] = l /\ mem'[s] = m /\ copying'[s] = c
      /\ acked'[s] = a /\ origin'[s] = o /\ meta' = meta /\ live' = live
  BY DEF Execute, disk
<1>3. s \in live /\ s \in meta /\ KeptAs(TRUE, TRUE, l, m, q, c, p, a, o)
  BY <1>2, BusyIsLive, LiveIsKept
<1>4. c = <<>> /\ q \in Seq(Calls) /\ p \in {NoPut} \cup Puts /\ m \in States /\ m.ok
  BY <1>2, <1>3 DEF KeptAs
<1>5. p = NoPut
  BY <1>2, <1>4 DEF Puts
<1>6. KeptAs(TRUE, TRUE, l, m, tail'[s], c, pend'[s], a, o)
  <2>1. CASE refused(m, Head(q))
    <3>1. tail'[s] = Tail(q) /\ pend'[s] = NoPut
      BY <1>5, <2>1 DEF Execute, StorageInvariant
    <3>2. KeptAs(TRUE, TRUE, l, m, q, <<>>, NoPut, a, o)
      BY <1>3, <1>4, <1>5
    <3> HIDE DEF l, m, q, c, p, a, o
    <3>3. KeptAs(TRUE, TRUE, l, m, Tail(q), <<>>, NoPut, a, o)
      BY <1>2, <3>2, KeptByRefusing, NoPutIsSettled
    <3> QED BY <3>1, <3>3, <1>4
  <2>2. CASE ~refused(m, Head(q))
    <3> DEFINE call == Head(q)
               x == mutationOf(m, call)
               n == m.sequence + 1
    <3>1. tail'[s] = q /\ pend'[s] = newPut(m, x)
      BY <2>2 DEF Execute, StorageInvariant, newPut
    <3>2. call \in Calls
      BY <1>2, <1>4, HeadTailProperties
    <3>3. oneOpen(m)
      BY <1>2, <1>3 DEF KeptAs, settledOf
    <3>4. n \in Nat
      BY <1>4, StateFacts
    <3> HIDE DEF l, m, q, c, p, a, o, call
    <3>5. n \in Nat /\ n = m.sequence + 1 /\ ~refused(m, call)
      BY <2>2, <3>4 DEF call
    <3> HIDE DEF n
    <3>6. mutationOf(m, call) \in Mutations /\ accepts(m, n, mutationOf(m, call))
          /\ oneOpen(applyMutation(m, n, mutationOf(m, call)))
      BY <1>4, <3>2, <3>3, <3>5, NotRefused
    <3>7. x \in Mutations /\ accepts(m, m.sequence + 1, x) /\ oneOpen(applyMutation(m, m.sequence + 1, x))
      BY <3>5, <3>6
    <3> HIDE DEF x
    <3>8. IF c = <<>> THEN q # <<>> ELSE x = Head(c)
      BY <1>2, <1>4
    <3>9. KeptAs(TRUE, TRUE, l, m, q, c, newPut(m, x), a, o)
      BY <1>2, <1>3, <3>7, <3>8, KeptByPutting
    <3> QED BY <3>1, <3>9
  <2> QED BY <2>1, <2>2
<1>7. SessionKept(s)'
  <2>1. s \in meta' /\ s \in live'
    BY <1>2, <1>3
  <2> QED BY <1>2, <1>6, <2>1 DEF SessionKept, KeptAs
<1> QED BY <1>1, <1>7, OthersAreKept

LEMMA CopyNextKeeps ==
  ASSUME StorageInvariant, NEW s \in Session, CopyNext(s)
  PROVE  StorageInvariant'
<1>1. OnlyChanges(s)
  BY DEF OnlyChanges, CopyNext, StorageInvariant, disk
<1> DEFINE l == log[s]
           m == mem[s]
           q == tail[s]
           c == copying[s]
           p == pend[s]
           a == acked[s]
           o == origin[s]
           x == Head(c)
<1>2. /\ c # <<>> /\ ~p.on /\ log'[s] = l /\ mem'[s] = m /\ tail'[s] = q /\ copying'[s] = c
      /\ acked'[s] = a /\ origin'[s] = o /\ meta' = meta /\ live' = live
      /\ pend'[s] = newPut(m, x)
  BY DEF CopyNext, disk, StorageInvariant, newPut
<1>3. s \in live /\ s \in meta /\ KeptAs(TRUE, TRUE, l, m, q, c, p, a, o)
  BY <1>2, BusyIsLive, LiveIsKept
<1> HIDE DEF l, m, q, c, p, a, o
<1>4. /\ Head(c) \in Mutations /\ accepts(m, m.sequence + 1, Head(c))
      /\ oneOpen(applyMutation(m, m.sequence + 1, Head(c)))
  BY <1>2, <1>3, CopyStep
<1>5. x \in Mutations /\ accepts(m, m.sequence + 1, x) /\ oneOpen(applyMutation(m, m.sequence + 1, x))
      /\ IF c = <<>> THEN q # <<>> ELSE x = Head(c)
  BY <1>2, <1>4
<1> HIDE DEF x
<1>6. KeptAs(TRUE, TRUE, l, m, q, c, newPut(m, x), a, o)
  BY <1>2, <1>3, <1>5, KeptByPutting
<1>7. SessionKept(s)'
  BY <1>2, <1>3, <1>6 DEF SessionKept, KeptAs, l, m, q, c, p, a, o
<1> QED BY <1>1, <1>7, OthersAreKept

LEMMA LandKeeps ==
  ASSUME StorageInvariant, NEW s \in Session, Land(s)
  PROVE  StorageInvariant'
<1>1. OnlyChanges(s)
  BY DEF OnlyChanges, Land, StorageInvariant
<1> DEFINE l == log[s]
           m == mem[s]
           q == tail[s]
           c == copying[s]
           p == pend[s]
           a == acked[s]
           o == origin[s]
           w == [p EXCEPT !.landed = TRUE]
<1>2. /\ p.on /\ ~p.landed /\ mem'[s] = m /\ tail'[s] = q /\ copying'[s] = c
      /\ acked'[s] = a /\ origin'[s] = o /\ meta' = meta /\ live' = live
      /\ log'[s] = putMutation(l, p.number, p.mutation) /\ pend'[s] = w
  BY DEF Land, StorageInvariant
<1>3. s \in live /\ s \in meta /\ KeptAs(TRUE, TRUE, l, m, q, c, p, a, o)
  BY <1>2, BusyIsLive, LiveIsKept
<1>4. w = [p EXCEPT !.landed = TRUE]
  OBVIOUS
<1> HIDE DEF l, m, q, c, p, a, o, w
<1>5. KeptAs(TRUE, TRUE, putMutation(l, p.number, p.mutation), m, q, c, w, a, o)
  BY <1>2, <1>3, <1>4, KeptByLanding
<1>6. SessionKept(s)'
  BY <1>2, <1>3, <1>5 DEF SessionKept, KeptAs
<1> QED BY <1>1, <1>6, OthersAreKept

LEMMA ApplyKeeps ==
  ASSUME StorageInvariant, NEW s \in Session, Apply(s)
  PROVE  StorageInvariant'
<1>1. OnlyChanges(s)
  BY DEF OnlyChanges, Apply, StorageInvariant, disk
<1> DEFINE l == log[s]
           m == mem[s]
           q == tail[s]
           c == copying[s]
           p == pend[s]
           a == acked[s]
           o == origin[s]
           x == p.mutation
           new == applyMutation(m, p.number, x)
<1>2. /\ p.on /\ p.landed /\ log'[s] = l /\ origin'[s] = o /\ meta' = meta /\ live' = live
      /\ mem'[s] = new /\ pend'[s] = NoPut
  BY DEF Apply, StorageInvariant, disk
<1>3. s \in live /\ s \in meta /\ KeptAs(TRUE, TRUE, l, m, q, c, p, a, o)
  BY <1>2, BusyIsLive, LiveIsKept
<1>4. /\ q \in Seq(Calls) /\ c \in Seq(Mutations) /\ a \in Seq(Id) /\ PutFits(l, m, q, c, p)
      /\ AnsweredIn(a, settledOf(l, p)) /\ (c # <<>> => q = <<>>)
  BY <1>2, <1>3 DEF KeptAs
<1>5. KeptAs(TRUE, TRUE, l, new, tail'[s], copying'[s], NoPut, acked'[s], o)
  <2>1. CASE c # <<>>
    <3>1. tail'[s] = q /\ copying'[s] = Tail(c) /\ acked'[s] = a
      BY <2>1 DEF Apply, StorageInvariant
    <3> HIDE DEF l, m, q, c, p, a, o
    <3>2. /\ Tail(c) \in Seq(Mutations)
          /\ Tail(c) # <<>> => CopyGoesOn(applyMutation(m, m.sequence + 1, Head(c)), Tail(c), o)
      BY <1>3, <2>1, CopyStep
    <3>3. p.number = m.sequence + 1 /\ x = Head(c)
      BY <1>4, <2>1 DEF PutFits
    <3>4. Tail(c) # <<>> => CopyGoesOn(new, Tail(c), o)
      BY <3>2, <3>3
    <3>5. AnsweredIn(a, l)
      BY <1>4, AnsweredOnDisk
    <3>6. KeptAs(TRUE, TRUE, l, new, q, Tail(c), NoPut, a, o)
      <4> DEFINE c1 == Tail(c)
      <4>1. c1 \in Seq(Mutations) /\ (c1 # <<>> => q = <<>> /\ CopyGoesOn(applyMutation(m, p.number, p.mutation), c1, o))
        BY <2>1, <1>4, <3>2, <3>4
      <4> HIDE DEF c1
      <4>2. KeptAs(TRUE, TRUE, l, applyMutation(m, p.number, p.mutation), q, c1, NoPut, a, o)
        BY <1>2, <1>3, <1>4, <3>5, <4>1, KeptByApplying
      <4> QED BY <4>2 DEF c1
    <3> QED BY <3>1, <3>6
  <2>2. CASE c = <<>>
    <3> DEFINE q1 == Tail(q)
               a1 == a \o ackedBy(x)
    <3>1. tail'[s] = q1 /\ copying'[s] = <<>> /\ acked'[s] = a1
      BY <2>2 DEF Apply, StorageInvariant
    <3> HIDE DEF l, m, q, c, p, a, o
    <3>2. q # <<>>
      BY <1>4, <2>2 DEF PutFits
    <3>3. q1 \in Seq(Calls)
      BY <1>4, <3>2, HeadTailProperties
    <3>4. a1 \in Seq(Id) /\ AnsweredIn(a1, l)
      BY <1>2, <1>3, AnsweredNext
    <3>5. <<>> \in Seq(Mutations)
      OBVIOUS
    <3> HIDE DEF q1, a1
    <3>6. KeptAs(TRUE, TRUE, l, applyMutation(m, p.number, p.mutation), q1, <<>>, NoPut, a1, o)
      BY <1>2, <1>3, <3>3, <3>4, <3>5, KeptByApplying
    <3> QED BY <3>1, <3>6
  <2> QED BY <2>1, <2>2
<1>6. SessionKept(s)'
  <2> HIDE DEF new
  <2> QED BY <1>2, <1>3, <1>5 DEF SessionKept, KeptAs
<1> QED BY <1>1, <1>6, OthersAreKept

LEMMA PutFailsKeeps ==
  ASSUME StorageInvariant, NEW s \in Session, PutFails(s)
  PROVE  StorageInvariant'
<1>1. OnlyChanges(s)
  BY DEF OnlyChanges, PutFails, StorageInvariant, disk
<1> DEFINE l == log[s]
           m == mem[s]
           q == tail[s]
           c == copying[s]
           p == pend[s]
           a == acked[s]
           o == origin[s]
<1>2. /\ p.on /\ ~p.landed /\ log'[s] = l /\ origin'[s] = o /\ acked'[s] = a /\ meta' = meta
      /\ pend'[s] = NoPut
  BY DEF PutFails, StorageInvariant, disk
<1>3. s \in live /\ s \in meta /\ KeptAs(TRUE, TRUE, l, m, q, c, p, a, o)
  BY <1>2, BusyIsLive, LiveIsKept
<1>4. (c # <<>> => q = <<>>) /\ PutFits(l, m, q, c, p)
  BY <1>2, <1>3 DEF KeptAs
<1>5. CASE c # <<>>
  <2>1. s \notin live' /\ mem'[s] = EmptyState /\ tail'[s] = <<>> /\ copying'[s] = <<>>
    BY <1>4, <1>5 DEF PutFails, StorageInvariant
  <2>2. KeptAs(TRUE, FALSE, l, EmptyState, <<>>, <<>>, NoPut, a, o)
    <3> HIDE DEF l, m, q, c, p, a, o
    <3> QED BY <1>3, KeptByLosing
  <2> QED BY <1>2, <1>3, <1>1, <2>1, <2>2, OthersAreKept DEF SessionKept, KeptAs
<1>6. CASE c = <<>>
  <2>1. s \in live' /\ mem'[s] = m /\ tail'[s] = Tail(q) /\ copying'[s] = <<>>
    BY <1>3, <1>6 DEF PutFails, StorageInvariant
  <2>2. KeptAs(TRUE, TRUE, l, m, Tail(q), <<>>, NoPut, a, o)
    <3> HIDE DEF l, m, q, c, p, a, o
    <3>1. q # <<>>
      BY <1>4, <1>6 DEF PutFits
    <3>2. KeptAs(TRUE, TRUE, l, m, q, <<>>, p, a, o)
      BY <1>3, <1>6
    <3> QED BY <1>2, <3>1, <3>2, KeptByRefusing
  <2>3. SessionKept(s)'
    BY <1>2, <1>3, <2>1, <2>2 DEF SessionKept, KeptAs
  <2> QED BY <1>1, <2>3, OthersAreKept
<1> QED BY <1>5, <1>6

LEMMA ForkKeeps ==
  ASSUME StorageInvariant, NEW s \in Session, NEW t \in Session, Fork(s, t)
  PROVE  StorageInvariant'
<1> DEFINE st == Replay(log[s])
<1>1. st \in States
  <2>1. KeptAs(TRUE, s \in live, log[s], mem[s], tail[s], copying[s], pend[s], acked[s], origin[s])
    BY DEF Fork, StorageInvariant, SessionKept, KeptAs
  <2>2. log[s] \in AllLogs
    BY <2>1 DEF KeptAs
  <2>3. PICK n \in Nat : log[s] \in Logs(n)
    BY <2>2, AllLogsFacts
  <2> QED BY <2>3, ReplayIsState
<1>2. PICK f \in forks(st) :
        /\ copying' = [copying EXCEPT ![t] = copyOf(st, f.copied, f.pointers)]
        /\ origin' = [origin EXCEPT ![t] = [x \in DOMAIN f.pointers |-> branch(st, f.pointers[x])]]
  BY DEF Fork
<1> HIDE DEF st
<1>3. /\ t \notin meta /\ t \notin live /\ t \in meta' /\ t \in live' /\ mem'[t] = EmptyState
      /\ log'[t] = log[t] /\ tail'[t] = tail[t] /\ pend'[t] = pend[t] /\ acked'[t] = acked[t]
  BY DEF Fork, StorageInvariant
<1>4. OnlyChanges(t)
  BY <1>2 DEF OnlyChanges, Fork, StorageInvariant
<1>5. KeptAs(FALSE, FALSE, log[t], mem[t], tail[t], copying[t], pend[t], acked[t], origin[t])
  BY <1>3, KeptOf
<1>6. KeptAs(TRUE, TRUE, log[t], EmptyState, tail[t], copyOf(st, f.copied, f.pointers), pend[t],
           acked[t], [x \in DOMAIN f.pointers |-> branch(st, f.pointers[x])])
  BY <1>1, <1>5, KeptByForking
<1>7. /\ copying'[t] = copyOf(st, f.copied, f.pointers)
      /\ origin'[t] = [x \in DOMAIN f.pointers |-> branch(st, f.pointers[x])]
  BY <1>2 DEF StorageInvariant
<1>8. KeptAs(TRUE, TRUE, log'[t], mem'[t], tail'[t], copying'[t], pend'[t], acked'[t], origin'[t])
  BY <1>3, <1>6, <1>7
<1>9. SessionKept(t)'
  BY <1>3, <1>8 DEF SessionKept, KeptAs
<1> QED BY <1>4, <1>9, OthersAreKept

LEMMA DeleteSessionKeeps ==
  ASSUME StorageInvariant, NEW s \in Session, DeleteSession(s)
  PROVE  StorageInvariant'
<1>1. OnlyChanges(s)
  BY DEF OnlyChanges, DeleteSession, StorageInvariant
<1>2. /\ s \notin live /\ s \notin meta' /\ s \notin live' /\ log'[s] = noLog /\ mem'[s] = mem[s]
      /\ tail'[s] = tail[s] /\ copying'[s] = copying[s] /\ pend'[s] = pend[s]
      /\ acked'[s] = <<>> /\ origin'[s] = <<>>
  BY DEF DeleteSession, StorageInvariant
<1>3. tail[s] = <<>> /\ copying[s] = <<>> /\ pend[s] = NoPut /\ mem[s] \in States
  <2>1. SessionKept(s)
    BY DEF StorageInvariant
  <2> QED BY <1>2, <2>1 DEF SessionKept, KeptAs
<1>4. KeptAs(FALSE, FALSE, log'[s], mem'[s], tail'[s], copying'[s], pend'[s], acked'[s], origin'[s])
  <2>1. KeptAs(FALSE, FALSE, noLog, mem[s], <<>>, <<>>, NoPut, <<>>, <<>>)
    BY <1>3, KeptAtFirst
  <2> QED BY <1>2, <1>3, <2>1
<1>5. SessionKept(s)'
  BY <1>2, <1>4 DEF SessionKept, KeptAs
<1> QED BY <1>1, <1>5, OthersAreKept

LEMMA DropKeeps ==
  ASSUME StorageInvariant, NEW s \in Session, Drop(s)
  PROVE  StorageInvariant'
<1>1. OnlyChanges(s)
  BY DEF OnlyChanges, Drop, StorageInvariant, disk
<1>2. /\ s \in live /\ meta' = meta /\ s \notin live' /\ log'[s] = log[s] /\ mem'[s] = EmptyState
      /\ tail'[s] = <<>> /\ copying'[s] = <<>> /\ pend'[s] = pend[s]
      /\ acked'[s] = acked[s] /\ origin'[s] = origin[s] /\ tail[s] = <<>> /\ copying[s] = <<>>
  BY DEF Drop, StorageInvariant, disk
<1>3. /\ s \in meta
      /\ KeptAs(TRUE, TRUE, log[s], mem[s], <<>>, <<>>, pend[s], acked[s], origin[s])
  BY <1>2, LiveIsKept
<1>4. pend[s] = NoPut
  BY <1>3, IdleHasNoPut
<1>5. KeptAs(TRUE, FALSE, log[s], EmptyState, <<>>, <<>>, NoPut, acked[s], origin[s])
  BY <1>3, KeptByLosing
<1>6. KeptAs(TRUE, FALSE, log'[s], mem'[s], tail'[s], copying'[s], pend'[s], acked'[s], origin'[s])
  BY <1>2, <1>4, <1>5
<1>7. SessionKept(s)'
  BY <1>2, <1>3, <1>6 DEF SessionKept, KeptAs
<1> QED BY <1>1, <1>7, OthersAreKept

LEMMA ReloadStorageKeeps ==
  ASSUME StorageInvariant, ReloadStorage
  PROVE  StorageInvariant'
<1>1. ASSUME NEW s \in Session PROVE SessionKept(s)'
  <2>1. /\ meta' = meta /\ s \notin live' /\ log'[s] = log[s] /\ mem'[s] = EmptyState
        /\ tail'[s] = <<>> /\ copying'[s] = <<>> /\ pend'[s] = NoPut
        /\ acked'[s] = acked[s] /\ origin'[s] = origin[s]
    BY DEF ReloadStorage, disk
  <2>2. SessionKept(s)
    BY DEF StorageInvariant
  <2>3. ASSUME NEW known \in BOOLEAN, NEW opened \in BOOLEAN, known <=> s \in meta,
               opened <=> s \in live
        PROVE  KeptAs(known, FALSE, log'[s], mem'[s], tail'[s], copying'[s], pend'[s], acked'[s], origin'[s])
    <3>1. KeptAs(known, opened, log[s], mem[s], tail[s], copying[s], pend[s], acked[s], origin[s])
      BY <2>3, KeptOf
    <3>2. KeptAs(known, FALSE, log[s], EmptyState, <<>>, <<>>, NoPut, acked[s], origin[s])
      BY <3>1, KeptByLosing
    <3> QED BY <2>1, <3>2
  <2>4. CASE s \in meta
    <3>1. KeptAs(TRUE, FALSE, log'[s], mem'[s], tail'[s], copying'[s], pend'[s], acked'[s], origin'[s])
      <4>1. CASE s \in live
        BY <2>3, <2>4, <4>1
      <4>2. CASE s \notin live
        BY <2>3, <2>4, <4>2
      <4> QED BY <4>1, <4>2
    <3> QED BY <2>1, <2>4, <3>1 DEF SessionKept, KeptAs
  <2>5. CASE s \notin meta
    <3>1. s \notin live
      BY <2>2, <2>5 DEF SessionKept, KeptAs
    <3>2. KeptAs(FALSE, FALSE, log'[s], mem'[s], tail'[s], copying'[s], pend'[s], acked'[s], origin'[s])
      BY <2>3, <2>5, <3>1
    <3> QED BY <2>1, <2>5, <3>2 DEF SessionKept, KeptAs
  <2> QED BY <2>4, <2>5
<1>2. /\ meta' \subseteq Session /\ live' \subseteq Session
      /\ DOMAIN log' = Session /\ DOMAIN mem' = Session /\ DOMAIN tail' = Session
      /\ DOMAIN copying' = Session /\ DOMAIN pend' = Session
      /\ DOMAIN acked' = Session /\ DOMAIN origin' = Session
  BY DEF ReloadStorage, disk, StorageInvariant
<1> QED BY <1>1, <1>2 DEF StorageInvariant

LEMMA StorageStarts ==
  ASSUME StorageInit
  PROVE  StorageInvariant
<1>1. ASSUME NEW s \in Session PROVE SessionKept(s)
  <2>1. KeptAs(FALSE, FALSE, noLog, EmptyState, <<>>, <<>>, NoPut, <<>>, <<>>)
    BY EmptyStateFits, KeptAtFirst
  <2>2. /\ s \notin meta /\ s \notin live /\ log[s] = noLog /\ mem[s] = EmptyState
        /\ tail[s] = <<>> /\ copying[s] = <<>> /\ pend[s] = NoPut /\ acked[s] = <<>>
        /\ origin[s] = <<>>
    BY DEF StorageInit
  <2>3. KeptAs(FALSE, FALSE, log[s], mem[s], tail[s], copying[s], pend[s], acked[s], origin[s])
    BY <2>1, <2>2
  <2> QED BY <2>2, <2>3 DEF SessionKept, KeptAs
<1> QED BY <1>1 DEF StorageInit, StorageInvariant

LEMMA StorageStays ==
  ASSUME StorageInvariant, [StorageNext]_storageVars
  PROVE  StorageInvariant'
<1>1. CASE UNCHANGED storageVars
  BY <1>1 DEF storageVars, StorageInvariant, SessionKept
<1>2. ASSUME NEW s \in Session, OpenOrCreate(s) PROVE StorageInvariant'
  BY <1>2, OpenOrCreateKeeps
<1>3. ASSUME NEW s \in Session, NEW c \in Tried, Call(s, c) PROVE StorageInvariant'
  BY <1>3, CallKeeps, CallsAssumption
<1>4. ASSUME NEW s \in Session, Step(s) PROVE StorageInvariant'
  BY <1>4, ExecuteKeeps, LandKeeps, ApplyKeeps, CopyNextKeeps DEF Step
<1>5. ASSUME NEW s \in Session, PutFails(s) PROVE StorageInvariant'
  BY <1>5, PutFailsKeeps
<1>6. ASSUME NEW s \in Session, NEW t \in Session, Fork(s, t) PROVE StorageInvariant'
  BY <1>6, ForkKeeps
<1>7. ASSUME NEW s \in Session, DeleteSession(s) PROVE StorageInvariant'
  BY <1>7, DeleteSessionKeeps
<1>8. ASSUME NEW s \in Session, Drop(s) PROVE StorageInvariant'
  BY <1>8, DropKeeps
<1>9. CASE ReloadStorage
  BY <1>9, ReloadStorageKeeps
<1> QED BY <1>1, <1>2, <1>3, <1>4, <1>5, <1>6, <1>7, <1>8, <1>9 DEF StorageNext

LEMMA InvariantIsSound ==
  ASSUME StorageInvariant
  PROVE  StorageSound
<1>1. MemoryIsReplay
  <2> SUFFICES ASSUME NEW s \in live PROVE mem[s].ok /\ mem[s] = Replay(settledLog(s))
    BY DEF MemoryIsReplay
  <2>1. KeptAs(TRUE, TRUE, log[s], mem[s], tail[s], copying[s], pend[s], acked[s], origin[s])
    BY LiveIsKept DEF StorageInvariant
  <2>2. settledLog(s) = settledOf(log[s], pend[s])
    BY DEF settledLog, settledOf
  <2> QED BY <2>1, <2>2 DEF KeptAs
<1>2. ReloadSucceeds
  BY DEF ReloadSucceeds, StorageInvariant, SessionKept, KeptAs
<1>3. OneOpenOperation
  BY DEF OneOpenOperation, StorageInvariant, SessionKept, KeptAs
<1>4. AcknowledgedSurvives
  <2> SUFFICES ASSUME NEW s \in Session PROVE AnsweredIn(acked[s], log[s])
    BY DEF AcknowledgedSurvives, AnsweredIn
  <2>1. AnsweredIn(acked[s], settledOf(log[s], pend[s]))
    BY DEF StorageInvariant, SessionKept, KeptAs
  <2> QED BY <2>1, AnsweredOnDisk
<1> QED BY <1>1, <1>2, <1>3, <1>4 DEF StorageSound

\* The put of an instance is under a number its log does not have.
LEMMA LogGrows ==
  ASSUME StorageInvariant, [StorageNext]_storageVars
  PROVE  \A s \in meta : s \in meta' =>
           \A n \in DOMAIN log[s] : n \in DOMAIN log'[s] /\ log'[s][n] = log[s][n]
<1>1. CASE log' = log
  BY <1>1
<1>2. ASSUME NEW s \in Session, Land(s), NEW r \in meta, NEW n \in DOMAIN log[r]
      PROVE n \in DOMAIN log'[r] /\ log'[r][n] = log[r][n]
  <2>1. CASE r # s
    BY <1>2, <2>1 DEF Land
  <2>2. CASE r = s
    <3> DEFINE l == log[s]
               m == mem[s]
               p == pend[s]
    <3>1. p.on /\ ~p.landed /\ log'[s] = putMutation(l, p.number, p.mutation)
      BY <1>2 DEF Land, StorageInvariant
    <3>2. KeptAs(TRUE, TRUE, l, m, tail[s], copying[s], p, acked[s], origin[s])
      BY <1>2, <3>1, BusyIsLive, LiveIsKept
    <3> HIDE DEF l, m, p
    <3>3. PutIsNext(l, m, p) /\ settledOf(l, p) = l
      BY <3>1, <3>2, PutFacts DEF settledOf
    <3>4. m.sequence \in Nat /\ p.number = m.sequence + 1 /\ l \in Logs(m.sequence)
      BY <3>3 DEF PutIsNext
    <3>5. p.number \notin DOMAIN l
      BY <3>4 DEF Logs
    <3>6. n \in DOMAIN l /\ log[r] = l
      BY <1>2, <2>2 DEF l
    <3>7. n \in DOMAIN putMutation(l, p.number, p.mutation) /\ putMutation(l, p.number, p.mutation)[n] = l[n]
      BY <3>5, <3>6 DEF putMutation
    <3> QED BY <2>2, <3>1, <3>6, <3>7
  <2> QED BY <2>1, <2>2
<1>3. ASSUME NEW s \in Session, DeleteSession(s), NEW r \in meta, r \in meta', NEW n \in DOMAIN log[r]
      PROVE n \in DOMAIN log'[r] /\ log'[r][n] = log[r][n]
  <2>1. r # s
    BY <1>3 DEF DeleteSession
  <2> QED BY <1>3, <2>1 DEF DeleteSession
<1>4. CASE \A s \in Session : ~Land(s) /\ ~DeleteSession(s)
  <2>1. log' = log
    BY <1>4 DEF StorageNext, Step, storageVars, disk, OpenOrCreate, Call, Execute, Apply, CopyNext,
                PutFails, Fork, Drop, ReloadStorage
  <2> QED BY <2>1, <1>1
<1> QED BY <1>2, <1>3, <1>4

\* The last mutation of a fork completes what the fork began with.
LEMMA ForkCompletes ==
  ASSUME StorageInvariant, [StorageNext]_storageVars, NEW t \in Session,
         copying[t] # <<>>, copying'[t] = <<>>, t \in live'
  PROVE  /\ DOMAIN mem'[t].lanes = DOMAIN origin[t]
         /\ \A x \in DOMAIN origin[t] : branch(mem'[t], mem'[t].lanes[x]) = origin[t][x]
<1>1. Apply(t)
  <2>1. t \in live
    BY BusyIsLive
  <2>2. ~UNCHANGED copying
    OBVIOUS
  <2>3. ~ReloadStorage
    BY DEF ReloadStorage
  <2>4. ASSUME NEW s \in Session, Apply(s) PROVE s = t
    BY <2>4 DEF Apply, StorageInvariant
  <2>5. ASSUME NEW s \in Session, PutFails(s) PROVE FALSE
    BY <2>5 DEF PutFails, StorageInvariant
  <2>6. ASSUME NEW s \in Session, NEW u \in Session, Fork(s, u) PROVE FALSE
    <3>1. u # t
      BY <2>1, <2>6 DEF Fork
    <3> QED BY <2>6, <3>1 DEF Fork, StorageInvariant
  <2>7. PICK s \in Session :
          \/ OpenOrCreate(s) \/ (\E c \in Tried : Call(s, c)) \/ Step(s) \/ PutFails(s)
          \/ (\E u \in Session : Fork(s, u)) \/ DeleteSession(s) \/ Drop(s)
    BY <2>2, <2>3 DEF StorageNext, storageVars
  <2>8. ~(OpenOrCreate(s) \/ (\E c \in Tried : Call(s, c)) \/ Execute(s) \/ Land(s) \/ CopyNext(s)
          \/ DeleteSession(s) \/ Drop(s))
    BY <2>2 DEF OpenOrCreate, Call, Execute, Land, CopyNext, DeleteSession, Drop
  <2>9. Apply(s)
    BY <2>5, <2>6, <2>7, <2>8 DEF Step
  <2> QED BY <2>4, <2>9
<1> DEFINE l == log[t]
           m == mem[t]
           q == tail[t]
           c == copying[t]
           p == pend[t]
           a == acked[t]
           o == origin[t]
<1>2. KeptAs(TRUE, TRUE, l, m, q, c, p, a, o)
  BY BusyIsLive, LiveIsKept
<1>3. p.on /\ mem'[t] = applyMutation(m, p.number, p.mutation) /\ Tail(c) = <<>>
  BY <1>1 DEF Apply, StorageInvariant
<1>4. c # <<>>
  OBVIOUS
<1> HIDE DEF l, m, q, c, p, a, o
<1>5. p.number = m.sequence + 1 /\ p.mutation = Head(c)
  BY <1>2, <1>3, <1>4 DEF KeptAs, PutFits
<1>6. KeptAs(TRUE, TRUE, l, m, q, c, p, a, o) /\ c # <<>> /\ Tail(c) = <<>>
  BY <1>2, <1>3, <1>4
<1> DEFINE new == applyMutation(m, m.sequence + 1, Head(c))
<1>7. ForkIsThere(new, o)
  BY <1>6, CopyStep
<1>8. mem'[t] = new
  BY <1>3, <1>5
<1> HIDE DEF new
<1> QED BY <1>7, <1>8 DEF o, ForkIsThere

-----------------------------------------------------------------------------
\* What every session keeps is an invariant.
LEMMA StorageKeeps == StorageSpec => []StorageInvariant
<1>1. StorageInit => StorageInvariant
  BY StorageStarts
<1>2. StorageInvariant /\ [StorageNext]_storageVars => StorageInvariant'
  BY StorageStays
<1> QED BY <1>1, <1>2, PTL DEF StorageSpec

\* An instance's memory is the replay of its log up to the put it awaits,
\* every log on disk replays with at most one operation open on a lane, and
\* every answered append is in it in order, however the calls of several
\* sessions are queued, refused, failed, cut off by a reload, or forked.
THEOREM StorageIsSound == StorageSpec => []StorageSound
<1>1. StorageInvariant => StorageSound
  BY InvariantIsSound
<1> QED BY <1>1, StorageKeeps, PTL

\* A fork that completes holds, on each lane, the conversation of the source
\* as it was when the fork began; a put never overwrites a mutation.
THEOREM LogsStayFaithful == StorageSpec => LogsAreFaithful
<1> DEFINE Faithful(t) ==
             copying[t] # <<>> /\ copying'[t] = <<>> /\ t \in live' =>
               /\ DOMAIN mem'[t].lanes = DOMAIN origin[t]
               /\ \A l \in DOMAIN origin[t] : branch(mem'[t], mem'[t].lanes[l]) = origin[t][l]
           Grows(s) ==
             s \in meta' => \A n \in DOMAIN log[s] : n \in DOMAIN log'[s] /\ log'[s][n] = log[s][n]
<1>1. StorageInvariant /\ [StorageNext]_storageVars => [\A t \in Session : Faithful(t)]_storageVars
  BY ForkCompletes
<1>2. StorageInvariant /\ [StorageNext]_storageVars => [\A s \in meta : Grows(s)]_storageVars
  BY LogGrows
<1>3. StorageSpec => ForkIsFaithful
  BY <1>1, StorageKeeps, PTL DEF StorageSpec, ForkIsFaithful
<1>4. StorageSpec => LogOnlyGrows
  BY <1>2, StorageKeeps, PTL DEF StorageSpec, LogOnlyGrows
<1> QED BY <1>3, <1>4 DEF LogsAreFaithful

-----------------------------------------------------------------------------
(***************************************************************************)
(* Streamed answers.  A text is broken into pieces symbol by symbol, and   *)
(* lines are read one after another: so both may be cut anywhere, and the  *)
(* reader, that keeps the last piece of what it has, has read the whole    *)
(* text when nothing is left.                                              *)
(***************************************************************************)
\* What is read: symbols, the texts made of them, a text broken into pieces.
Texts == Seq(Symbols)
Broken == {ps \in Seq(Texts) : ps # <<>>}

LEMMA FrontAndLast ==
  ASSUME NEW S, NEW s \in Seq(S), s # <<>>
  PROVE  Front(s) \in Seq(S) /\ Last(s) \in S /\ s = Append(Front(s), Last(s))
<1>1. PICK t \in Seq(S), x \in S : s = Append(t, x)
  BY SequenceEmptyOrAppend
<1>2. Len(s) = Len(t) + 1 /\ s[Len(s)] = x /\ Len(t) \in Nat
  BY <1>1, AppendProperties
<1>3. Front(s) = t /\ Last(s) = x
  <2>1. Front(s) = SubSeq(s, 1, Len(t))
    BY <1>2 DEF Front
  <2>2. SubSeq(s, 1, Len(t)) = t
    BY <1>1
  <2> QED BY <2>1, <2>2, <1>2 DEF Last
<1> QED BY <1>1, <1>3

LEMMA FrontOfAppend ==
  ASSUME NEW S, NEW s \in Seq(S), NEW x \in S
  PROVE  Front(Append(s, x)) = s /\ Last(Append(s, x)) = x
<1>1. Append(s, x) \in Seq(S) /\ Append(s, x) # <<>>
  BY AppendProperties
<1> DEFINE t == Append(s, x)
<1> HIDE DEF t
<1>2. Front(t) \in Seq(S) /\ Last(t) \in S /\ t = Append(Front(t), Last(t))
  BY <1>1, FrontAndLast DEF t
<1>3. Append(s, x) = Append(Front(t), Last(t))
  BY <1>2 DEF t
<1>4. s = Front(t) /\ x = Last(t)
  BY <1>2, <1>3, AppendInjective
<1> QED BY <1>4 DEF t

LEMMA OnePiece == << <<>> >> \in Broken /\ Front(<< <<>> >>) = <<>> /\ Last(<< <<>> >>) = <<>>
<1>1. <<>> \in Texts
  BY DEF Texts
<1>2. << <<>> >> = Append(<<>>, <<>>) /\ <<>> \in Seq(Texts)
  OBVIOUS
<1>3. Append(<<>>, <<>>) \in Seq(Texts) /\ Append(<<>>, <<>>) # <<>>
  BY <1>1, <1>2, AppendProperties
<1>4. Front(Append(<<>>, <<>>)) = <<>> /\ Last(Append(<<>>, <<>>)) = <<>>
  BY <1>1, <1>2, FrontOfAppend
<1> QED BY <1>2, <1>3, <1>4 DEF Broken

\* A symbol ends the last piece or is added to it.
LEMMA SplitBreaks ==
  ASSUME NEW ps \in Broken, NEW x \in Symbols
  PROVE  split(ps, x) \in Broken
<1>1. ps \in Seq(Texts) /\ Front(ps) \in Seq(Texts) /\ Last(ps) \in Texts
  BY FrontAndLast DEF Broken
<1>2. <<>> \in Texts /\ Append(Last(ps), x) \in Texts
  BY <1>1, AppendProperties DEF Texts
<1>3. \A q \in Seq(Texts), u \in Texts : Append(q, u) \in Seq(Texts) /\ Append(q, u) # <<>>
  BY AppendProperties
<1>4. \A q \in Seq(Texts), u \in Texts : Append(q, u) \in Broken
  BY <1>3 DEF Broken
<1> QED BY <1>1, <1>2, <1>4 DEF split

LEMMA PiecesUpTo ==
  ASSUME NEW s \in Seq(Symbols)
  PROVE  /\ piecesUpTo(s) \in [0..Len(s) -> Broken]
         /\ piecesUpTo(s)[0] = << <<>> >>
         /\ \A i \in 1..Len(s) : piecesUpTo(s)[i] = split(piecesUpTo(s)[i - 1], s[i])
<1> DEFINE step == [i \in 1..Len(s) |-> [p \in Broken |-> split(p, s[i])]]
<1>1. Len(s) \in Nat /\ \A i \in 1..Len(s) : s[i] \in Symbols
  BY LenProperties, ElementOfSeq
<1>2. step \in [1..Len(s) -> [Broken -> Broken]]
  <2>1. \A i \in 1..Len(s), p \in Broken : split(p, s[i]) \in Broken
    BY <1>1, SplitBreaks
  <2> QED BY <2>1
<1>3. << <<>> >> \in Broken
  BY OnePiece
<1>4. PICK f : Steps(Len(s), Broken, << <<>> >>, step, f)
  BY <1>1, <1>2, <1>3, StepByStep
<1>5. f = [i \in 0..Len(s) |-> IF i = 0 THEN << <<>> >> ELSE split(f[i - 1], s[i])]
  <2>1. ASSUME NEW i \in 1..Len(s) PROVE step[i][f[i - 1]] = split(f[i - 1], s[i])
    <3>1. i - 1 \in 0..Len(s)
      BY <1>1
    <3>2. f[i - 1] \in Broken
      BY <3>1, <1>4 DEF Steps
    <3> QED BY <3>2
  <2> HIDE DEF step
  <2>2. \A i \in 1..Len(s) : f[i] = split(f[i - 1], s[i])
    BY <1>4, <2>1 DEF Steps
  <2>3. f = [i \in 0..Len(s) |-> f[i]] /\ f[0] = << <<>> >>
    BY <1>4 DEF Steps
  <2>4. ASSUME NEW i \in 0..Len(s) PROVE f[i] = IF i = 0 THEN << <<>> >> ELSE split(f[i - 1], s[i])
    <3>1. i = 0 \/ i \in 1..Len(s)
      BY <1>1
    <3>2. f[0] = << <<>> >> /\ ~ (0 \in 1..Len(s))
      BY <2>3, <1>1
    <3> QED BY <2>2, <3>1, <3>2
  <2> QED BY <2>3, <2>4
<1> HIDE DEF step
<1> DEFINE g == piecesUpTo(s)
<1>6. g = [i \in 0..Len(s) |-> IF i = 0 THEN << <<>> >> ELSE split(g[i - 1], s[i])]
  BY <1>5 DEF piecesUpTo
<1> HIDE DEF g
<1>7. 0 \in 0..Len(s) /\ DOMAIN g = 0..Len(s)
  BY <1>6, <1>1
<1>8. g[0] = << <<>> >>
  BY <1>6, <1>7
<1>9. ASSUME NEW i \in 1..Len(s) PROVE g[i] = split(g[i - 1], s[i])
  <2>1. i \in 0..Len(s) /\ i # 0
    BY <1>1
  <2> QED BY <1>6, <2>1
<1>10. \A i \in 0..Len(s) : g[i] \in Broken
  <2> DEFINE G == {k \in Nat : k <= Len(s) => g[k] \in Broken}
  <2>1. 0 \in G
    BY <1>8, <1>3, <1>1
  <2>2. ASSUME NEW k \in Nat, k \in G PROVE k + 1 \in G
    <3> SUFFICES ASSUME k + 1 <= Len(s) PROVE g[k + 1] \in Broken
      BY <2>2
    <3>1. k \in 0..Len(s) /\ k + 1 \in 1..Len(s) /\ g[k] \in Broken /\ (k + 1) - 1 = k
      BY <2>2, <1>1
    <3>2. g[k + 1] = split(g[k], s[k + 1])
      BY <1>9, <3>1
    <3>3. split(g[k], s[k + 1]) \in Broken
      BY <3>1, <1>1, SplitBreaks
    <3> QED BY <3>2, <3>3
  <2> HIDE DEF G
  <2>3. Nat \subseteq G
    BY <2>1, <2>2, EveryNumber
  <2> QED BY <2>3, <1>1 DEF G
<1>11. g \in [0..Len(s) -> Broken]
  BY <1>6, <1>10
<1> QED BY <1>8, <1>9, <1>11 DEF g

\* One more symbol.
LEMMA PiecesOfNext ==
  ASSUME NEW s \in Seq(Symbols), NEW x \in Symbols
  PROVE  piecesUpTo(Append(s, x))[Len(Append(s, x))] = split(piecesUpTo(s)[Len(s)], x)
<1> DEFINE t == Append(s, x)
           f == piecesUpTo(s)
           g == piecesUpTo(t)
           n == Len(s)
<1>1. /\ t \in Seq(Symbols) /\ Len(t) = n + 1 /\ n \in Nat /\ t[n + 1] = x
      /\ \A i \in 1..n : t[i] = s[i]
  BY AppendProperties, LenProperties
<1>2. f \in [0..n -> Broken] /\ f[0] = << <<>> >> /\ \A i \in 1..n : f[i] = split(f[i - 1], s[i])
  BY PiecesUpTo
<1>3. g \in [0..(n + 1) -> Broken] /\ g[0] = << <<>> >> /\ \A i \in 1..(n + 1) : g[i] = split(g[i - 1], t[i])
  <2> HIDE DEF t
  <2>1. g \in [0..Len(t) -> Broken] /\ g[0] = << <<>> >> /\ \A i \in 1..Len(t) : g[i] = split(g[i - 1], t[i])
    BY <1>1, PiecesUpTo
  <2> QED BY <2>1, <1>1
<1> HIDE DEF t, f, g, n
<1> DEFINE G == {k \in Nat : k <= n => g[k] = f[k]}
<1>4. 0 \in G
  BY <1>2, <1>3
<1>5. ASSUME NEW k \in Nat, k \in G PROVE k + 1 \in G
  <2> SUFFICES ASSUME k + 1 <= n PROVE g[k + 1] = f[k + 1]
    BY <1>5
  <2>1. k + 1 \in 1..n /\ k + 1 \in 1..(n + 1) /\ g[k] = f[k] /\ (k + 1) - 1 = k
    BY <1>1, <1>5
  <2>2. g[k + 1] = split(g[k], t[k + 1]) /\ f[k + 1] = split(f[k], s[k + 1]) /\ t[k + 1] = s[k + 1]
    BY <2>1, <1>1, <1>2, <1>3
  <2> QED BY <2>1, <2>2
<1> HIDE DEF G
<1>6. n \in G
  BY <1>1, <1>4, <1>5, EveryNumber
<1>7. g[n] = f[n]
  BY <1>1, <1>6 DEF G
<1>8. n + 1 \in 1..(n + 1) /\ (n + 1) - 1 = n
  BY <1>1
<1>9. g[n + 1] = split(f[n], x)
  BY <1>1, <1>3, <1>7, <1>8
<1>10. g[Len(t)] = split(f[Len(s)], x)
  BY <1>1, <1>9 DEF n
<1> QED BY <1>10 DEF t, f, g

\* The messages the deltas can make.
Streamed == [texts : Seq({"a", "b"}), calls : Seq(Nat), failed : BOOLEAN, deltas : Nat]

LEMMA DeltaIsApplied ==
  ASSUME NEW m \in Streamed, NEW d \in Deltas
  PROVE  applyDelta(m, d) \in Streamed /\ applyDelta(m, d).deltas = m.deltas /\ applyDelta(m, d).failed = m.failed
<1>1. m.texts \in Seq({"a", "b"}) /\ m.calls \in Seq(Nat) /\ m.failed \in BOOLEAN /\ m.deltas \in Nat
  BY DEF Streamed
<1>2. m = [texts |-> m.texts, calls |-> m.calls, failed |-> m.failed, deltas |-> m.deltas]
  BY DEF Streamed
<1>3. CASE d \in {"a", "b"}
  <2>1. Append(m.texts, d) \in Seq({"a", "b"})
    BY <1>1, <1>3, AppendProperties
  <2>2. applyDelta(m, d) = [m EXCEPT !.texts = Append(@, d)]
    BY <1>3 DEF applyDelta
  <2> QED BY <1>1, <1>2, <2>1, <2>2 DEF Streamed
<1>4. CASE d = "begin"
  <2>1. applyDelta(m, d) = [m EXCEPT !.calls = <<0>>]
    BY <1>4 DEF applyDelta
  <2>2. <<0>> \in Seq(Nat)
    OBVIOUS
  <2> QED BY <1>1, <1>2, <2>1, <2>2 DEF Streamed
<1>5. CASE d = "argument"
  <2> DEFINE more == [i \in DOMAIN m.calls |-> m.calls[i] + 1]
  <2>1. more \in Seq(Nat)
    <3>1. DOMAIN m.calls = 1..Len(m.calls) /\ Len(m.calls) \in Nat /\ \A i \in 1..Len(m.calls) : m.calls[i] \in Nat
      BY <1>1, LenProperties, ElementOfSeq
    <3> QED BY <3>1, IsASeq
  <2>2. applyDelta(m, d) = [m EXCEPT !.calls = more]
    BY <1>5 DEF applyDelta
  <2> HIDE DEF more
  <2> QED BY <1>1, <1>2, <2>1, <2>2 DEF Streamed
<1> QED BY <1>3, <1>4, <1>5 DEF Deltas

\* A line adds a delta, makes the message fail, or leaves it as it was.
LEMMA LineCounts ==
  ASSUME NEW m \in Streamed, NEW line \in Texts
  PROVE  /\ consumeLine(m, line) \in Streamed
         /\ \/ consumeLine(m, line) = m
            \/ consumeLine(m, line).failed
            \/ consumeLine(m, line).deltas = m.deltas + 1
<1>1. m.deltas \in Nat /\ m.failed \in BOOLEAN
  BY DEF Streamed
<1>2. CASE m.failed \/ Len(line) < 2
  BY <1>2 DEF consumeLine
<1>3. CASE ~ (m.failed \/ Len(line) < 2) /\ line[2] = "error"
  <2>1. consumeLine(m, line) = [m EXCEPT !.failed = TRUE]
    BY <1>3 DEF consumeLine
  <2>2. [m EXCEPT !.failed = TRUE] \in Streamed /\ [m EXCEPT !.failed = TRUE].failed
    BY DEF Streamed
  <2> QED BY <2>1, <2>2
<1>4. CASE ~ (m.failed \/ Len(line) < 2) /\ line[2] # "error" /\ line[2] \in Deltas
  <2> DEFINE p == applyDelta(m, line[2])
  <2>1. consumeLine(m, line) = [p EXCEPT !.deltas = @ + 1]
    BY <1>4 DEF consumeLine
  <2>2. p \in Streamed /\ p.deltas = m.deltas
    BY <1>4, DeltaIsApplied
  <2> HIDE DEF p
  <2>3. p = [texts |-> p.texts, calls |-> p.calls, failed |-> p.failed, deltas |-> p.deltas]
        /\ p.texts \in Seq({"a", "b"}) /\ p.calls \in Seq(Nat) /\ p.failed \in BOOLEAN /\ p.deltas + 1 \in Nat
    BY <2>2 DEF Streamed
  <2>4. [p EXCEPT !.deltas = @ + 1] \in Streamed /\ [p EXCEPT !.deltas = @ + 1].deltas = m.deltas + 1
    BY <2>2, <2>3 DEF Streamed
  <2> QED BY <2>1, <2>4
<1>5. CASE ~ (m.failed \/ Len(line) < 2) /\ line[2] # "error" /\ line[2] \notin Deltas
  BY <1>5 DEF consumeLine
<1> QED BY <1>2, <1>3, <1>4, <1>5

LEMMA LineIsConsumed ==
  ASSUME NEW m \in Streamed, NEW line \in Texts
  PROVE  consumeLine(m, line) \in Streamed
BY LineCounts

LEMMA ConsumedUpTo ==
  ASSUME NEW m \in Streamed, NEW ls \in Seq(Texts)
  PROVE  /\ consumedUpTo(m, ls) \in [0..Len(ls) -> Streamed]
         /\ consumedUpTo(m, ls)[0] = m
         /\ \A i \in 1..Len(ls) : consumedUpTo(m, ls)[i] = consumeLine(consumedUpTo(m, ls)[i - 1], ls[i])
<1> DEFINE step == [i \in 1..Len(ls) |-> [p \in Streamed |-> consumeLine(p, ls[i])]]
<1>1. Len(ls) \in Nat /\ \A i \in 1..Len(ls) : ls[i] \in Texts
  BY LenProperties, ElementOfSeq
<1>2. step \in [1..Len(ls) -> [Streamed -> Streamed]]
  <2>1. \A i \in 1..Len(ls), p \in Streamed : consumeLine(p, ls[i]) \in Streamed
    BY <1>1, LineIsConsumed
  <2> QED BY <2>1
<1>3. m \in Streamed
  BY Zenon
<1>4. PICK f : Steps(Len(ls), Streamed, m, step, f)
  BY <1>1, <1>2, <1>3, StepByStep
<1>5. f = [i \in 0..Len(ls) |-> IF i = 0 THEN m ELSE consumeLine(f[i - 1], ls[i])]
  <2>1. ASSUME NEW i \in 1..Len(ls) PROVE step[i][f[i - 1]] = consumeLine(f[i - 1], ls[i])
    <3>1. i - 1 \in 0..Len(ls)
      BY <1>1
    <3>2. f[i - 1] \in Streamed
      BY <3>1, <1>4 DEF Steps
    <3> QED BY <3>2
  <2> HIDE DEF step
  <2>2. \A i \in 1..Len(ls) : f[i] = consumeLine(f[i - 1], ls[i])
    BY <1>4, <2>1 DEF Steps
  <2>3. f = [i \in 0..Len(ls) |-> f[i]] /\ f[0] = m
    BY <1>4 DEF Steps
  <2>4. ASSUME NEW i \in 0..Len(ls) PROVE f[i] = IF i = 0 THEN m ELSE consumeLine(f[i - 1], ls[i])
    <3>1. i = 0 \/ i \in 1..Len(ls)
      BY <1>1
    <3>2. f[0] = m /\ ~ (0 \in 1..Len(ls))
      BY <2>3, <1>1
    <3> QED BY <2>2, <3>1, <3>2
  <2> QED BY <2>3, <2>4
<1> HIDE DEF step
<1> DEFINE g == consumedUpTo(m, ls)
<1>6. g = [i \in 0..Len(ls) |-> IF i = 0 THEN m ELSE consumeLine(g[i - 1], ls[i])]
  BY <1>5 DEF consumedUpTo
<1> HIDE DEF g
<1>7. 0 \in 0..Len(ls) /\ DOMAIN g = 0..Len(ls)
  BY <1>6, <1>1
<1>8. g[0] = m
  BY <1>6, <1>7
<1>9. ASSUME NEW i \in 1..Len(ls) PROVE g[i] = consumeLine(g[i - 1], ls[i])
  <2>1. i \in 0..Len(ls) /\ i # 0
    BY <1>1
  <2> QED BY <1>6, <2>1
<1>10. \A i \in 0..Len(ls) : g[i] \in Streamed
  <2> DEFINE G == {k \in Nat : k <= Len(ls) => g[k] \in Streamed}
  <2>1. 0 \in G
    BY <1>8, <1>3, <1>1
  <2>2. ASSUME NEW k \in Nat, k \in G PROVE k + 1 \in G
    <3> SUFFICES ASSUME k + 1 <= Len(ls) PROVE g[k + 1] \in Streamed
      BY <2>2
    <3>1. k \in 0..Len(ls) /\ k + 1 \in 1..Len(ls) /\ g[k] \in Streamed /\ (k + 1) - 1 = k
      BY <2>2, <1>1
    <3>2. g[k + 1] = consumeLine(g[k], ls[k + 1])
      BY <1>9, <3>1
    <3>3. consumeLine(g[k], ls[k + 1]) \in Streamed
      BY <3>1, <1>1, LineIsConsumed
    <3> QED BY <3>2, <3>3
  <2> HIDE DEF G
  <2>3. Nat \subseteq G
    BY <2>1, <2>2, EveryNumber
  <2> QED BY <2>3, <1>1 DEF G
<1>11. g \in [0..Len(ls) -> Streamed]
  BY <1>6, <1>10
<1> QED BY <1>8, <1>9, <1>11 DEF g

\* One more line.
LEMMA ConsumedNext ==
  ASSUME NEW m \in Streamed, NEW ls \in Seq(Texts), NEW x \in Texts
  PROVE  consumedUpTo(m, Append(ls, x))[Len(Append(ls, x))] = consumeLine(consumedUpTo(m, ls)[Len(ls)], x)
<1> DEFINE t == Append(ls, x)
           f == consumedUpTo(m, ls)
           g == consumedUpTo(m, t)
           n == Len(ls)
<1>1. /\ t \in Seq(Texts) /\ Len(t) = n + 1 /\ n \in Nat /\ t[n + 1] = x
      /\ \A i \in 1..n : t[i] = ls[i]
  BY AppendProperties, LenProperties
<1>2. f \in [0..n -> Streamed] /\ f[0] = m /\ \A i \in 1..n : f[i] = consumeLine(f[i - 1], ls[i])
  BY ConsumedUpTo
<1>3. g \in [0..(n + 1) -> Streamed] /\ g[0] = m /\ \A i \in 1..(n + 1) : g[i] = consumeLine(g[i - 1], t[i])
  <2> HIDE DEF t
  <2>1. g \in [0..Len(t) -> Streamed] /\ g[0] = m /\ \A i \in 1..Len(t) : g[i] = consumeLine(g[i - 1], t[i])
    BY <1>1, ConsumedUpTo
  <2> QED BY <2>1, <1>1
<1> HIDE DEF t, f, g, n
<1> DEFINE G == {k \in Nat : k <= n => g[k] = f[k]}
<1>4. 0 \in G
  BY <1>2, <1>3
<1>5. ASSUME NEW k \in Nat, k \in G PROVE k + 1 \in G
  <2> SUFFICES ASSUME k + 1 <= n PROVE g[k + 1] = f[k + 1]
    BY <1>5
  <2>1. k + 1 \in 1..n /\ k + 1 \in 1..(n + 1) /\ g[k] = f[k] /\ (k + 1) - 1 = k
    BY <1>1, <1>5
  <2>2. g[k + 1] = consumeLine(g[k], t[k + 1]) /\ f[k + 1] = consumeLine(f[k], ls[k + 1]) /\ t[k + 1] = ls[k + 1]
    BY <2>1, <1>1, <1>2, <1>3
  <2> QED BY <2>1, <2>2
<1> HIDE DEF G
<1>6. n \in G
  BY <1>1, <1>4, <1>5, EveryNumber
<1>7. g[n] = f[n]
  BY <1>1, <1>6 DEF G
<1>8. n + 1 \in 1..(n + 1) /\ (n + 1) - 1 = n
  BY <1>1
<1>9. g[n + 1] = consumeLine(f[n], x)
  BY <1>1, <1>3, <1>7, <1>8
<1>10. g[Len(t)] = consumeLine(f[Len(ls)], x)
  BY <1>1, <1>9 DEF n
<1> QED BY <1>10 DEF t, f, g

\* The pieces of a text and the message of some lines, and what one more symbol
\* or line does to them.
LEMMA PiecesAreBroken ==
  ASSUME NEW s \in Seq(Symbols)
  PROVE  Pieces(s) \in Broken
<1>1. piecesUpTo(s) \in [0..Len(s) -> Broken]
  BY PiecesUpTo
<1>2. Len(s) \in 0..Len(s)
  BY LenProperties
<1> QED BY <1>1, <1>2 DEF Pieces

LEMMA PiecesOfNone == Pieces(<<>>) = << <<>> >>
<1>1. <<>> \in Seq(Symbols) /\ Len(<<>>) = 0
  OBVIOUS
<1>2. piecesUpTo(<<>>)[0] = << <<>> >>
  BY <1>1, PiecesUpTo
<1> QED BY <1>1, <1>2 DEF Pieces

LEMMA PiecesOfAppend ==
  ASSUME NEW s \in Seq(Symbols), NEW x \in Symbols
  PROVE  Pieces(Append(s, x)) = split(Pieces(s), x)
BY PiecesOfNext DEF Pieces

LEMMA ConsumedIsStreamed ==
  ASSUME NEW m \in Streamed, NEW ls \in Seq(Texts)
  PROVE  Consumed(m, ls) \in Streamed
<1>1. consumedUpTo(m, ls) \in [0..Len(ls) -> Streamed]
  BY ConsumedUpTo
<1>2. Len(ls) \in 0..Len(ls)
  BY LenProperties
<1> QED BY <1>1, <1>2 DEF Consumed

LEMMA ConsumedNone ==
  ASSUME NEW m \in Streamed
  PROVE  Consumed(m, <<>>) = m
<1>1. <<>> \in Seq(Texts) /\ Len(<<>>) = 0
  OBVIOUS
<1>2. consumedUpTo(m, <<>>)[0] = m
  BY <1>1, ConsumedUpTo
<1> QED BY <1>1, <1>2 DEF Consumed

LEMMA ConsumedAppend ==
  ASSUME NEW m \in Streamed, NEW ls \in Seq(Texts), NEW x \in Texts
  PROVE  Consumed(m, Append(ls, x)) = consumeLine(Consumed(m, ls), x)
BY ConsumedNext DEF Consumed

\* Lines read in two parts make the message that they make at once.
LEMMA ConsumedConcat ==
  ASSUME NEW m \in Streamed, NEW ls \in Seq(Texts), NEW ks \in Seq(Texts)
  PROVE  Consumed(m, ls \o ks) = Consumed(Consumed(m, ls), ks)
<1> DEFINE q == Consumed(m, ls)
           G == {ts \in Seq(Texts) : Consumed(m, ls \o ts) = Consumed(q, ts)}
<1>0. q \in Streamed
  BY ConsumedIsStreamed
<1>1. <<>> \in G
  <2>1. ls \o <<>> = ls /\ <<>> \in Seq(Texts)
    BY ConcatEmptySeq
  <2>2. Consumed(q, <<>>) = q
    BY <1>0, ConsumedNone
  <2> QED BY <2>1, <2>2
<1> HIDE DEF q
<1>2. ASSUME NEW ts \in Seq(Texts), NEW x \in Texts, ts \in G PROVE Append(ts, x) \in G
  <2>1. Append(ts, x) \in Seq(Texts) /\ ls \o ts \in Seq(Texts)
    BY AppendProperties, ConcatProperties
  <2>2. ls \o Append(ts, x) = Append(ls \o ts, x)
    BY ConcatAppend
  <2>3. Consumed(m, Append(ls \o ts, x)) = consumeLine(Consumed(m, ls \o ts), x)
    BY <2>1, ConsumedAppend
  <2>4. Consumed(q, Append(ts, x)) = consumeLine(Consumed(q, ts), x)
    BY <1>0, ConsumedAppend
  <2> QED BY <1>2, <2>1, <2>2, <2>3, <2>4
<1>3. ks \in G
  <2> HIDE DEF G
  <2> QED BY <1>1, <1>2, EverySequence
<1> QED BY <1>3 DEF q

\* Lines that make no message fail and bring no delta change nothing.
LEMMA ConsumedCounts ==
  ASSUME NEW m \in Streamed, NEW ls \in Seq(Texts)
  PROVE  LET q == Consumed(m, ls)
         IN  q = m \/ q.failed \/ q.deltas > m.deltas
<1> DEFINE G == {ts \in Seq(Texts) : \/ Consumed(m, ts) = m
                                     \/ Consumed(m, ts).failed
                                     \/ Consumed(m, ts).deltas > m.deltas}
<1>1. <<>> \in G
  BY ConsumedNone
<1>2. ASSUME NEW ts \in Seq(Texts), NEW x \in Texts, ts \in G PROVE Append(ts, x) \in G
  <2> DEFINE q == Consumed(m, ts)
             r == consumeLine(q, x)
  <2>1. Append(ts, x) \in Seq(Texts) /\ Consumed(m, Append(ts, x)) = r
    BY AppendProperties, ConsumedAppend
  <2>2. q \in Streamed
    BY ConsumedIsStreamed
  <2>3. (q = m \/ q.failed \/ q.deltas > m.deltas) /\ q.deltas \in Nat /\ m.deltas \in Nat
    BY <1>2, <2>2 DEF Streamed
  <2>4. r = q \/ r.failed \/ r.deltas = q.deltas + 1
    BY <2>2, LineCounts
  <2>5. q.failed => r = q
    BY DEF consumeLine
  <2> HIDE DEF q, r
  <2>6. r = m \/ r.failed \/ r.deltas > m.deltas
    BY <2>3, <2>4, <2>5
  <2> QED BY <2>1, <2>6
<1>3. ls \in G
  <2> HIDE DEF G
  <2> QED BY <1>1, <1>2, EverySequence
<1> QED BY <1>3

\* What is split when the pieces before are known goes on from the last of them.
LEMMA SplitBehind ==
  ASSUME NEW ts \in Seq(Texts), NEW ps \in Broken, NEW x \in Symbols
  PROVE  split(ts \o ps, x) = ts \o split(ps, x)
<1> DEFINE f == Front(ps)
           l == Last(ps)
<1>1. ps \in Seq(Texts) /\ f \in Seq(Texts) /\ l \in Texts /\ ps = Append(f, l)
  BY FrontAndLast DEF Broken
<1> HIDE DEF f, l
<1>2. ts \o f \in Seq(Texts) /\ ts \o ps = Append(ts \o f, l)
  <2>1. ts \o Append(f, l) = Append(ts \o f, l)
    BY <1>1, ConcatAppend
  <2> QED BY <1>1, <2>1, ConcatProperties
<1>3. Front(ts \o ps) = ts \o f /\ Last(ts \o ps) = l
  <2>1. \A q \in Seq(Texts), u \in Texts : Front(Append(q, u)) = q /\ Last(Append(q, u)) = u
    BY FrontOfAppend
  <2> QED BY <1>1, <1>2, <2>1
<1>4. <<>> \in Texts /\ Append(l, x) \in Texts
  BY <1>1, AppendProperties DEF Texts
<1>10. \A q \in Seq(Texts), u \in Texts : ts \o Append(q, u) = Append(ts \o q, u)
  BY ConcatAppend
<1>5. Append(ts \o ps, <<>>) = ts \o Append(ps, <<>>)
  BY <1>1, <1>4, <1>10
<1>6. \A u \in Texts : Append(ts \o f, u) = ts \o Append(f, u)
  BY <1>1, <1>10
<1>7. Append(ts \o f, Append(l, x)) = ts \o Append(f, Append(l, x))
  BY <1>4, <1>6
<1>8. CASE x = NewLine
  BY <1>5, <1>8 DEF split
<1>9. CASE x # NewLine
  BY <1>3, <1>7, <1>9 DEF split, f, l
<1> QED BY <1>8, <1>9

\* The last piece has no line break: it is its own only piece.
LEMMA LastIsOnePiece ==
  ASSUME NEW s \in Seq(Symbols)
  PROVE  Pieces(Last(Pieces(s))) = << Last(Pieces(s)) >>
<1> DEFINE G == {t \in Seq(Symbols) : Pieces(Last(Pieces(t))) = << Last(Pieces(t)) >>}
<1>1. <<>> \in G
  BY PiecesOfNone, OnePiece
<1>2. ASSUME NEW t \in Seq(Symbols), NEW x \in Symbols, t \in G PROVE Append(t, x) \in G
  <2> DEFINE ps == Pieces(t)
             l == Last(ps)
  <2>1. ps \in Broken /\ ps \in Seq(Texts) /\ Front(ps) \in Seq(Texts) /\ l \in Texts
    BY PiecesAreBroken, FrontAndLast DEF Broken
  <2>2. Append(t, x) \in Seq(Symbols) /\ Pieces(Append(t, x)) = split(ps, x)
    BY AppendProperties, PiecesOfAppend
  <2>3. Pieces(l) = <<l>> /\ l \in Seq(Symbols)
    BY <1>2, <2>1 DEF Texts
  <2> HIDE DEF ps, l
  <2>4. CASE x = NewLine
    <3>1. Last(Append(ps, <<>>)) = <<>>
      <4>1. <<>> \in Texts
        BY DEF Texts
      <4> QED BY <2>1, <4>1, FrontOfAppend
    <3>2. split(ps, x) = Append(ps, <<>>)
      BY <2>4 DEF split
    <3> QED BY <2>2, <3>1, <3>2, PiecesOfNone
  <2>5. CASE x # NewLine
    <3>1. Append(l, x) \in Seq(Symbols) /\ Append(l, x) \in Texts
      BY <2>3, AppendProperties DEF Texts
    <3>2. split(ps, x) = Append(Front(ps), Append(l, x))
      BY <2>5 DEF split, l
    <3>3. Last(Append(Front(ps), Append(l, x))) = Append(l, x)
      <4> DEFINE u == Append(l, x)
      <4>1. u \in Texts
        BY <3>1
      <4> HIDE DEF u
      <4>2. Last(Append(Front(ps), u)) = u
        BY <2>1, <4>1, FrontOfAppend
      <4> QED BY <4>2 DEF u
    <3>4. Pieces(Append(l, x)) = split(<<l>>, x)
      BY <2>3, PiecesOfAppend
    <3>5. split(<<l>>, x) = <<Append(l, x)>>
      <4>1. <<l>> = Append(<<>>, l) /\ <<>> \in Seq(Texts)
        OBVIOUS
      <4>2. Front(<<l>>) = <<>> /\ Last(<<l>>) = l
        BY <2>1, <4>1, FrontOfAppend
      <4>3. split(<<l>>, x) = Append(Front(<<l>>), Append(Last(<<l>>), x))
        BY <2>5 DEF split
      <4>4. Append(<<>>, Append(l, x)) = <<Append(l, x)>>
        OBVIOUS
      <4> QED BY <4>2, <4>3, <4>4
    <3> QED BY <2>2, <3>2, <3>3, <3>4, <3>5
  <2> QED BY <2>4, <2>5
<1>3. s \in G
  <2> HIDE DEF G
  <2> QED BY <1>1, <1>2, EverySequence
<1> QED BY <1>3

\* A text that is cut is split as the whole is: what follows the cut is split
\* behind the piece that was last.
LEMMA PiecesConcat ==
  ASSUME NEW s \in Seq(Symbols), NEW t \in Seq(Symbols)
  PROVE  Pieces(s \o t) = Front(Pieces(s)) \o Pieces(Last(Pieces(s)) \o t)
<1> DEFINE f == Front(Pieces(s))
           l == Last(Pieces(s))
           G == {u \in Seq(Symbols) : Pieces(s \o u) = f \o Pieces(l \o u)}
<1>0. Pieces(s) \in Seq(Texts) /\ Pieces(s) # <<>> /\ f \in Seq(Texts) /\ l \in Seq(Symbols) /\ l \in Texts
      /\ Pieces(s) = Append(f, l)
  BY PiecesAreBroken, FrontAndLast DEF Broken, Texts
<1>1. <<>> \in G
  <2>1. s \o <<>> = s /\ l \o <<>> = l
    BY <1>0, ConcatEmptySeq
  <2>2. Pieces(l) = <<l>>
    BY LastIsOnePiece
  <2> HIDE DEF f, l
  <2>3. Append(f, l) = f \o <<l>>
    BY <1>0, AppendIsConcat
  <2>4. Pieces(s \o <<>>) = Append(f, l) /\ f \o Pieces(l \o <<>>) = f \o <<l>>
    BY <1>0, <2>1, <2>2 DEF l
  <2> QED BY <2>3, <2>4
<1> HIDE DEF f, l
<1>2. ASSUME NEW u \in Seq(Symbols), NEW x \in Symbols, u \in G PROVE Append(u, x) \in G
  <2>1. Append(u, x) \in Seq(Symbols) /\ s \o u \in Seq(Symbols) /\ l \o u \in Seq(Symbols)
    BY <1>0, AppendProperties, ConcatProperties
  <2>6. \A q \in Seq(Symbols) : q \o Append(u, x) = Append(q \o u, x)
    BY ConcatAppend
  <2>2. s \o Append(u, x) = Append(s \o u, x) /\ l \o Append(u, x) = Append(l \o u, x)
    BY <1>0, <2>6
  <2>3. Pieces(Append(s \o u, x)) = split(Pieces(s \o u), x)
    BY <2>1, PiecesOfAppend
  <2>4. Pieces(Append(l \o u, x)) = split(Pieces(l \o u), x)
    BY <2>1, PiecesOfAppend
  <2>5. split(f \o Pieces(l \o u), x) = f \o split(Pieces(l \o u), x)
    <3>1. Pieces(l \o u) \in Broken
      BY <2>1, PiecesAreBroken
    <3> QED BY <1>0, <3>1, SplitBehind
  <2> QED BY <1>2, <2>1, <2>2, <2>3, <2>4, <2>5
<1>3. t \in G
  <2> HIDE DEF G
  <2> QED BY <1>1, <1>2, EverySequence
<1> QED BY <1>3 DEF f, l

-----------------------------------------------------------------------------
\* What has been read is its finished lines, which made the message, and the
\* piece that waits in the buffer; an update that is due has a timer for the
\* rest of its frame; an answer that is returned is the whole one.
StreamTypes ==
    /\ reply \in Seq(Symbols) /\ sent \in 0..Len(reply) /\ buffer \in Seq(Symbols)
    /\ message \in Streamed /\ emitted \in Streamed
    /\ dirty \in BOOLEAN /\ timer \in 0..NoTimer /\ age \in 0..Frame
    /\ outcome \in {"reading", "returned", "failed"}

ReadSoFar == Pieces(SubSeq(reply, 1, sent))

ReadingIsTrue ==
    outcome = "reading" =>
        /\ message = Consumed(Blank, Front(ReadSoFar)) /\ buffer = Last(ReadSoFar)
        /\ ~ message.failed
        /\ ~ dirty => emitted = message

TimerWaits == timer # NoTimer => outcome = "reading" /\ timer = Frame - age

StreamInvariant == StreamTypes /\ ReadingIsTrue /\ TimerWaits /\ CutIsInvisible

\* What the provider may send is made of symbols.
LEMMA AnswerIsText ==
  ASSUME NEW n \in Nat, NEW ps \in [1..n -> Payloads]
  PROVE  AnswerOf(ps) \in Seq(Symbols) /\ Len(AnswerOf(ps)) = 3 * n
<1>1. ps \in Seq(Payloads) /\ Len(ps) = n
  OBVIOUS
<1>2. ASSUME NEW i \in 1..3 * n PROVE Line(ps[(i + 2) \div 3])[((i + 2) % 3) + 1] \in Symbols
  <2>1. i \in Nat /\ i >= 1 /\ i <= 3 * n
    OBVIOUS
  <2>2. (i + 2) \div 3 \in 1..n
    BY <2>1
  <2>3. ((i + 2) % 3) + 1 \in 1..3
    BY <2>1
  <2> DEFINE j == (i + 2) \div 3
             k == ((i + 2) % 3) + 1
  <2>4. ps[j] \in Payloads /\ k \in 1..3
    BY <2>2, <2>3
  <2> HIDE DEF j, k
  <2>5. Line(ps[j])[k] \in {"data", ps[j], NewLine}
    BY <2>4 DEF Line
  <2>6. Line(ps[j])[k] \in Symbols
    BY <2>4, <2>5 DEF Symbols
  <2> QED BY <2>6 DEF j, k
<1> DEFINE at == [i \in 1..3 * Len(ps) |-> Line(ps[(i + 2) \div 3])[((i + 2) % 3) + 1]]
<1>3. AnswerOf(ps) = at
  BY DEF AnswerOf
<1>4. at \in [1..3 * n -> Symbols] /\ 3 * n \in Nat
  BY <1>1, <1>2
<1> HIDE DEF at
<1>5. at \in Seq(Symbols) /\ Len(at) = 3 * n
  BY <1>4
<1> QED BY <1>3, <1>5

LEMMA BlankIsStreamed == Blank \in Streamed /\ ~ Blank.failed
<1>1. <<>> \in Seq({"a", "b"}) /\ <<>> \in Seq(Nat)
  OBVIOUS
<1> QED BY <1>1 DEF Blank, Streamed

LEMMA StreamBegins == StreamInit => StreamInvariant
<1> SUFFICES ASSUME StreamInit PROVE StreamInvariant
  OBVIOUS
<1> USE StreamAssumption
<1>0. PICK n \in 0..MaxLines, whole \in BOOLEAN :
        \E ps \in [1..n -> Payloads] :
           reply = IF whole \/ n = 0 THEN AnswerOf(ps) ELSE Front(AnswerOf(ps))
  BY DEF StreamInit
<1>1. PICK ps \in [1..n -> Payloads] :
        reply = IF whole \/ n = 0 THEN AnswerOf(ps) ELSE Front(AnswerOf(ps))
  BY <1>0
<1>2. AnswerOf(ps) \in Seq(Symbols) /\ Len(AnswerOf(ps)) = 3 * n /\ n \in Nat
  <2>1. n \in Nat
    OBVIOUS
  <2> QED BY <2>1, AnswerIsText
<1>3. reply \in Seq(Symbols)
  <2> DEFINE a == AnswerOf(ps)
  <2> HIDE DEF a
  <2>1. a \in Seq(Symbols) /\ Len(a) = 3 * n
    BY <1>2 DEF a
  <2>2. CASE whole \/ n = 0
    BY <1>1, <2>1, <2>2 DEF a
  <2>3. CASE ~ (whole \/ n = 0)
    <3>1. a # <<>>
      BY <1>2, <2>1, <2>3
    <3>2. Front(a) \in Seq(Symbols)
      BY <2>1, <3>1, FrontAndLast
    <3> QED BY <1>1, <2>3, <3>2 DEF a
  <2> QED BY <2>2, <2>3
<1>4. sent = 0 /\ buffer = <<>> /\ message = Blank /\ dirty = FALSE /\ timer = NoTimer /\ age = Frame
      /\ emitted = Blank /\ outcome = "reading"
  BY DEF StreamInit
<1>5. SubSeq(reply, 1, 0) = <<>>
  BY SubSeqEmpty
<1>6. ReadSoFar = << <<>> >> /\ Front(ReadSoFar) = <<>> /\ Last(ReadSoFar) = <<>>
  BY <1>4, <1>5, PiecesOfNone, OnePiece DEF ReadSoFar
<1>7. Consumed(Blank, <<>>) = Blank
  BY BlankIsStreamed, ConsumedNone
<1>8. NoTimer \in 0..NoTimer /\ Frame \in 0..Frame /\ 0 \in 0..Len(reply) /\ <<>> \in Seq(Symbols)
  BY <1>3 DEF NoTimer
<1>9. StreamTypes
  BY <1>3, <1>4, <1>8, BlankIsStreamed DEF StreamTypes
<1>10. ReadingIsTrue
  BY <1>4, <1>6, <1>7, BlankIsStreamed DEF ReadingIsTrue
<1>11. TimerWaits /\ CutIsInvisible
  BY <1>4 DEF TimerWaits, CutIsInvisible
<1> QED BY <1>9, <1>10, <1>11 DEF StreamInvariant

\* What a chunk adds to the text read so far, and to its pieces.
LEMMA ChunkIsSplit ==
  ASSUME StreamTypes, ReadingIsTrue, outcome = "reading", NEW n \in Nat, sent + n <= Len(reply)
  PROVE  LET text == buffer \o SubSeq(reply, sent + 1, sent + n)
             now  == Pieces(SubSeq(reply, 1, sent + n))
         IN  /\ text \in Seq(Symbols) /\ Pieces(text) \in Broken /\ finished(text) \in Seq(Texts)
             /\ unfinished(text) \in Seq(Symbols)
             /\ Consumed(message, finished(text)) \in Streamed
             /\ Consumed(Blank, Front(now)) = Consumed(message, finished(text))
             /\ Last(now) = unfinished(text)
<1> DEFINE old  == SubSeq(reply, 1, sent)
           add  == SubSeq(reply, sent + 1, sent + n)
           text == buffer \o add
           f == Front(Pieces(old))
<1>1. reply \in Seq(Symbols) /\ sent \in 0..Len(reply) /\ buffer \in Seq(Symbols) /\ message \in Streamed
      /\ message = Consumed(Blank, f) /\ buffer = Last(Pieces(old))
  BY DEF StreamTypes, ReadingIsTrue, ReadSoFar
<1>2. old \in Seq(Symbols) /\ add \in Seq(Symbols) /\ SubSeq(reply, 1, sent + n) = old \o add
  <2>0. sent \in Nat /\ Len(reply) \in Nat /\ \A i \in 1..Len(reply) : reply[i] \in Symbols
    BY <1>1, LenProperties, ElementOfSeq
  <2>1. old \in Seq(Symbols)
    <3>1. \A i \in 1..sent : reply[i] \in Symbols
      BY <2>0, <1>1
    <3> QED BY <2>0, <3>1, SubSeqProperties
  <2>2. add \in Seq(Symbols)
    <3>1. \A i \in (sent + 1)..(sent + n) : reply[i] \in Symbols
      BY <2>0, <1>1
    <3>2. sent + 1 \in Int /\ sent + n \in Int
      BY <2>0
    <3> QED BY <3>1, <3>2, SubSeqProperties
  <2>3. SubSeq(reply, 1, sent + n) = old \o add
    <3>1. 1 \in 1..Len(reply) + 1 /\ sent \in (1 - 1)..Len(reply) /\ sent + n \in sent..Len(reply)
      BY <2>0, <1>1
    <3> QED BY <1>1, <3>1, ConcatAdjacentSubSeq
  <2> QED BY <2>1, <2>2, <2>3
<1>3. Pieces(old) \in Broken /\ Pieces(old) \in Seq(Texts) /\ f \in Seq(Texts)
  <2>1. Pieces(old) \in Broken
    BY <1>2, PiecesAreBroken
  <2>2. Pieces(old) \in Seq(Texts) /\ Pieces(old) # <<>>
    BY <2>1 DEF Broken
  <2> QED BY <2>1, <2>2, FrontAndLast
<1>4. Pieces(old \o add) = f \o Pieces(buffer \o add)
  BY <1>1, <1>2, PiecesConcat
<1>5. text \in Seq(Symbols)
  BY <1>1, <1>2, ConcatProperties
<1> HIDE DEF old, add, f
<1>6. Pieces(text) \in Broken /\ Pieces(text) \in Seq(Texts) /\ Pieces(text) # <<>>
  <2> HIDE DEF text
  <2>1. Pieces(text) \in Broken
    BY <1>5, PiecesAreBroken
  <2> QED BY <2>1 DEF Broken
<1>7. finished(text) \in Seq(Texts) /\ unfinished(text) \in Texts /\ Pieces(text) = Append(finished(text), unfinished(text))
  <2> HIDE DEF text
  <2> QED BY <1>6, FrontAndLast DEF finished, unfinished
<1>8. Pieces(old \o add) = Append(f \o finished(text), unfinished(text)) /\ f \o finished(text) \in Seq(Texts)
  <2>1. Pieces(old \o add) = f \o Pieces(text)
    BY <1>4
  <2> HIDE DEF text
  <2>4. \A q \in Seq(Texts), u \in Texts : f \o Append(q, u) = Append(f \o q, u)
    BY <1>3, ConcatAppend
  <2>2. f \o Append(finished(text), unfinished(text)) = Append(f \o finished(text), unfinished(text))
    BY <1>7, <2>4
  <2>3. f \o finished(text) \in Seq(Texts)
    BY <1>3, <1>7, ConcatProperties
  <2> QED BY <2>1, <2>2, <2>3, <1>7
<1> HIDE DEF text
<1>9. Front(Pieces(old \o add)) = f \o finished(text) /\ Last(Pieces(old \o add)) = unfinished(text)
  BY <1>7, <1>8, FrontOfAppend
<1>10. Consumed(Blank, f \o finished(text)) = Consumed(message, finished(text))
  BY <1>1, <1>3, <1>7, BlankIsStreamed, ConsumedConcat
<1>11. Consumed(message, finished(text)) \in Streamed
  BY <1>1, <1>7, ConsumedIsStreamed
<1>12. unfinished(text) \in Seq(Symbols)
  BY <1>7 DEF Texts
<1> DEFINE now == Pieces(SubSeq(reply, 1, sent + n))
<1>13. now = Pieces(old \o add)
  BY <1>2
<1> HIDE DEF now
<1>14. Consumed(Blank, Front(now)) = Consumed(message, finished(text)) /\ Last(now) = unfinished(text)
  BY <1>9, <1>10, <1>13
<1> QED BY <1>5, <1>6, <1>7, <1>11, <1>12, <1>14 DEF text, now, add

LEMMA ChunkKeeps ==
  ASSUME StreamInvariant, NEW n \in 1..Len(reply), Chunk(n)
  PROVE  StreamInvariant'
<1> USE StreamAssumption
<1> DEFINE text == buffer \o SubSeq(reply, sent + 1, sent + n)
           now  == Pieces(SubSeq(reply, 1, sent + n))
           m    == Consumed(message, finished(text))
<1>1. StreamTypes /\ ReadingIsTrue /\ TimerWaits /\ outcome = "reading" /\ sent + n <= Len(reply) /\ n \in Nat
  BY DEF StreamInvariant, Chunk
<1>2. reply \in Seq(Symbols) /\ sent \in 0..Len(reply) /\ Len(reply) \in Nat /\ message \in Streamed /\ emitted \in Streamed
      /\ dirty \in BOOLEAN /\ timer \in 0..NoTimer /\ age \in 0..Frame /\ ~ message.failed /\ (~ dirty => emitted = message)
  BY <1>1, LenProperties DEF StreamTypes, ReadingIsTrue
<1>3. text \in Seq(Symbols) /\ finished(text) \in Seq(Texts) /\ unfinished(text) \in Seq(Symbols) /\ m \in Streamed
      /\ Consumed(Blank, Front(now)) = m /\ Last(now) = unfinished(text)
  BY <1>1, ChunkIsSplit
<1>4. m = message \/ m.failed \/ m.deltas > message.deltas
  BY <1>2, <1>3, ConsumedCounts
<1>5. sent' = sent + n /\ reply' = reply /\ age' = age /\ emitted' = emitted /\ ReadSoFar' = now
  BY DEF Chunk, ReadSoFar
<1>6. IF Len(text) > BufferLimit
      THEN StreamFails /\ buffer' = text /\ UNCHANGED <<message, dirty>>
      ELSE /\ buffer' = unfinished(text) /\ message' = m
           /\ IF m.failed THEN StreamFails /\ dirty' = dirty
              ELSE Schedules(m) /\ UNCHANGED outcome
  BY DEF Chunk
<1>7. sent' \in 0..Len(reply')
  BY <1>1, <1>2, <1>5
<1> HIDE DEF text, now, m
<1>8. CASE StreamFails /\ dirty' = dirty /\ buffer' \in Seq(Symbols) /\ message' \in Streamed
  <2>1. outcome' = "failed" /\ timer' = NoTimer /\ NoTimer \in 0..NoTimer
    BY <1>8 DEF StreamFails, cleared, NoTimer
  <2>2. StreamTypes'
    BY <1>2, <1>5, <1>7, <1>8, <2>1 DEF StreamTypes, NoTimer
  <2>3. ReadingIsTrue' /\ TimerWaits' /\ CutIsInvisible'
    BY <2>1 DEF ReadingIsTrue, TimerWaits, CutIsInvisible, NoTimer
  <2> QED BY <2>2, <2>3 DEF StreamInvariant
<1>9. CASE buffer' = unfinished(text) /\ message' = m /\ ~ m.failed /\ Schedules(m) /\ UNCHANGED outcome
  <2>1. /\ dirty' \in BOOLEAN /\ timer' \in 0..NoTimer /\ (timer' # NoTimer => timer' = Frame - age)
        /\ ~ dirty' => emitted = m
    <3>1. CASE m.deltas = message.deltas
      <4>1. dirty' = dirty /\ timer' = timer
        BY <1>9, <3>1 DEF Schedules
      <4>2. m = message
        BY <1>2, <1>3, <1>4, <1>9, <3>1 DEF Streamed
      <4> QED BY <1>1, <1>2, <4>1, <4>2 DEF TimerWaits
    <3>2. CASE m.deltas # message.deltas
      <4>1. dirty' = TRUE /\ timer' = IF timer = NoTimer THEN Frame - age ELSE timer
        BY <1>9, <3>2 DEF Schedules, delay
      <4>2. Frame - age \in 0..NoTimer
        BY <1>2 DEF NoTimer
      <4> QED BY <1>1, <1>2, <4>1, <4>2 DEF TimerWaits
    <3> QED BY <3>1, <3>2
  <2>2. StreamTypes'
    BY <1>1, <1>2, <1>3, <1>5, <1>7, <1>9, <2>1 DEF StreamTypes, NoTimer
  <2>3. ReadingIsTrue'
    <3>1. outcome' = "reading" /\ buffer' = Last(now) /\ message' = Consumed(Blank, Front(now))
      BY <1>1, <1>3, <1>9
    <3>2. ~ message'.failed /\ (~ dirty' => emitted' = message')
      BY <1>5, <1>9, <2>1
    <3>3. Blank' = Blank /\ Consumed(Blank, Front(now)) = Consumed(Blank, Front(ReadSoFar'))
      BY <1>5 DEF Blank
    <3> QED BY <1>5, <3>1, <3>2, <3>3 DEF ReadingIsTrue
  <2>4. TimerWaits' /\ CutIsInvisible'
    BY <1>1, <1>5, <1>9, <2>1 DEF TimerWaits, CutIsInvisible, NoTimer
  <2> QED BY <2>2, <2>3, <2>4 DEF StreamInvariant
<1>10. CASE Len(text) > BufferLimit
  <2>1. StreamFails /\ buffer' = text /\ message' = message /\ dirty' = dirty
    BY <1>6, <1>10
  <2> QED BY <1>2, <1>3, <1>8, <2>1
<1>11. CASE ~ (Len(text) > BufferLimit) /\ m.failed
  <2>1. StreamFails /\ buffer' = unfinished(text) /\ message' = m /\ dirty' = dirty
    BY <1>6, <1>11
  <2> QED BY <1>3, <1>8, <2>1
<1>12. CASE ~ (Len(text) > BufferLimit) /\ ~ m.failed
  BY <1>6, <1>9, <1>12
<1> QED BY <1>10, <1>11, <1>12

LEMMA EndKeeps ==
  ASSUME StreamInvariant, End
  PROVE  StreamInvariant'
<1> USE StreamAssumption
<1> DEFINE m   == Consumed(message, <<buffer>>)
           due == dirty \/ m.deltas # message.deltas
           ps  == Pieces(reply)
<1>1. StreamTypes /\ ReadingIsTrue /\ outcome = "reading" /\ sent = Len(reply)
  BY DEF StreamInvariant, End
<1>2. reply \in Seq(Symbols) /\ buffer \in Seq(Symbols) /\ message \in Streamed /\ emitted \in Streamed
      /\ dirty \in BOOLEAN /\ age \in 0..Frame /\ ~ message.failed /\ (~ dirty => emitted = message)
      /\ sent \in 0..Len(reply)
  BY <1>1 DEF StreamTypes, ReadingIsTrue
<1>3. ReadSoFar = ps
  <2>1. SubSeq(reply, 1, Len(reply)) = reply
    BY <1>2, SubSeqFull
  <2> QED BY <1>1, <2>1 DEF ReadSoFar
<1>4. ps \in Seq(Texts) /\ ps # <<>>
  BY <1>2, PiecesAreBroken DEF Broken
<1>5. message = Consumed(Blank, Front(ps)) /\ buffer = Last(ps)
  BY <1>1, <1>3 DEF ReadingIsTrue
<1>6. m = Whole
  <2> HIDE DEF ps
  <2>1. Front(ps) \in Seq(Texts) /\ Last(ps) \in Texts /\ ps = Append(Front(ps), Last(ps))
    BY <1>4, FrontAndLast
  <2>2. Append(Front(ps), Last(ps)) = Front(ps) \o <<Last(ps)>> /\ <<Last(ps)>> \in Seq(Texts)
    BY <2>1, AppendIsConcat
  <2>3. Consumed(Blank, Front(ps) \o <<Last(ps)>>) = Consumed(Consumed(Blank, Front(ps)), <<Last(ps)>>)
    BY <2>1, <2>2, BlankIsStreamed, ConsumedConcat
  <2>4. m = Consumed(Blank, ps)
    BY <1>5, <2>1, <2>2, <2>3
  <2> QED BY <2>4 DEF Whole, ps
<1>7. m \in Streamed /\ (m = message \/ m.failed \/ m.deltas > message.deltas)
  <2>1. <<buffer>> \in Seq(Texts)
    BY <1>2 DEF Texts
  <2>2. m \in Streamed
    BY <1>2, <2>1, ConsumedIsStreamed
  <2> QED BY <1>2, <2>1, <2>2, ConsumedCounts
<1>8. /\ message' = m /\ timer' = NoTimer
      /\ IF m.failed THEN outcome' = "failed" /\ UNCHANGED <<emitted, dirty, age>>
         ELSE /\ outcome' = "returned" /\ dirty' = FALSE
              /\ emitted' = IF due THEN m ELSE emitted
              /\ age' = IF due THEN 0 ELSE age
      /\ UNCHANGED <<reply, sent, buffer>>
  BY DEF End, cleared
<1>9. Whole' = Whole
  BY <1>8 DEF Whole, Blank
<1> HIDE DEF m, ps
<1>10. 0 \in 0..Frame /\ NoTimer \in 0..NoTimer
  BY DEF NoTimer
<1>11. CASE m.failed
  <2>1. outcome' = "failed" /\ emitted' = emitted /\ dirty' = dirty /\ age' = age
    BY <1>8, <1>11
  <2>2. StreamTypes'
    BY <1>2, <1>7, <1>8, <1>10, <2>1 DEF StreamTypes, NoTimer
  <2>3. ReadingIsTrue' /\ TimerWaits' /\ CutIsInvisible'
    BY <1>8, <2>1 DEF ReadingIsTrue, TimerWaits, CutIsInvisible, NoTimer
  <2> QED BY <2>2, <2>3 DEF StreamInvariant
<1>12. CASE ~ m.failed
  <2>1. outcome' = "returned" /\ dirty' = FALSE /\ age' = IF due THEN 0 ELSE age
    BY <1>8, <1>12
  <2>2. emitted' = m
    <3>1. CASE due
      BY <1>8, <1>12, <3>1
    <3>2. CASE ~ due
      <4>1. ~ dirty /\ m.deltas = message.deltas /\ m.deltas \in Nat /\ emitted' = emitted
        BY <1>7, <1>8, <1>12, <3>2 DEF Streamed
      <4>2. m = message
        BY <1>7, <1>12, <4>1
      <4> QED BY <1>2, <4>1, <4>2
    <3> QED BY <3>1, <3>2
  <2>3. age' \in 0..Frame
    BY <1>2, <1>10, <2>1
  <2>4. StreamTypes'
    BY <1>2, <1>7, <1>8, <1>10, <2>1, <2>2, <2>3 DEF StreamTypes, NoTimer
  <2>5. ReadingIsTrue' /\ TimerWaits'
    BY <1>8, <2>1 DEF ReadingIsTrue, TimerWaits, NoTimer
  <2>6. CutIsInvisible'
    BY <1>6, <1>8, <1>9, <2>2 DEF CutIsInvisible
  <2> QED BY <2>4, <2>5, <2>6 DEF StreamInvariant
<1> QED BY <1>11, <1>12

LEMMA BreaksKeeps ==
  ASSUME StreamInvariant, Breaks
  PROVE  StreamInvariant'
<1> USE StreamAssumption
<1>1. outcome' = "failed" /\ timer' = NoTimer
      /\ UNCHANGED <<reply, sent, buffer, message, dirty, age, emitted>>
  BY DEF Breaks, StreamFails, cleared
<1>2. StreamTypes /\ NoTimer \in 0..NoTimer
  BY DEF StreamInvariant, NoTimer
<1>3. StreamTypes'
  BY <1>1, <1>2 DEF StreamTypes, NoTimer
<1>4. ReadingIsTrue' /\ TimerWaits' /\ CutIsInvisible'
  BY <1>1 DEF ReadingIsTrue, TimerWaits, CutIsInvisible, NoTimer
<1> QED BY <1>3, <1>4 DEF StreamInvariant

LEMMA FlushFrameKeeps ==
  ASSUME StreamInvariant, FlushFrame
  PROVE  StreamInvariant'
<1> USE StreamAssumption
<1>1. /\ timer = 0 /\ timer' = NoTimer
      /\ IF dirty THEN dirty' = FALSE /\ emitted' = message /\ age' = 0
                  ELSE UNCHANGED <<dirty, emitted, age>>
      /\ UNCHANGED <<reply, sent, buffer, message, outcome>>
  BY DEF FlushFrame
<1>2. StreamTypes /\ ReadingIsTrue /\ TimerWaits /\ NoTimer \in 0..NoTimer /\ NoTimer # 0 /\ 0 \in 0..Frame
  BY DEF StreamInvariant, NoTimer
<1>3. outcome = "reading" /\ outcome' = "reading"
  BY <1>1, <1>2 DEF TimerWaits
<1>4. message = Consumed(Blank, Front(ReadSoFar)) /\ buffer = Last(ReadSoFar) /\ ~ message.failed
      /\ (~ dirty => emitted = message)
  BY <1>2, <1>3 DEF ReadingIsTrue
<1>5. /\ dirty' \in BOOLEAN /\ emitted' \in Streamed /\ age' \in 0..Frame /\ (~ dirty' => emitted' = message)
  <2>1. dirty \in BOOLEAN /\ emitted \in Streamed /\ message \in Streamed /\ age \in 0..Frame
    BY <1>2 DEF StreamTypes
  <2> QED BY <1>1, <1>2, <1>4, <2>1
<1>6. StreamTypes'
  BY <1>1, <1>2, <1>5 DEF StreamTypes, NoTimer
<1>7. ReadSoFar' = ReadSoFar
  BY <1>1 DEF ReadSoFar
<1>8. ReadingIsTrue'
  BY <1>1, <1>4, <1>5, <1>7 DEF ReadingIsTrue, Blank
<1>9. TimerWaits' /\ CutIsInvisible'
  BY <1>1, <1>3 DEF TimerWaits, CutIsInvisible, NoTimer
<1> QED BY <1>6, <1>8, <1>9 DEF StreamInvariant

LEMMA ClockTickKeeps ==
  ASSUME StreamInvariant, ClockTick
  PROVE  StreamInvariant'
<1> USE StreamAssumption
<1>1. /\ timer # 0 /\ (age < Frame \/ timer \in 1..Frame)
      /\ age' = IF age < Frame THEN age + 1 ELSE age
      /\ timer' = IF timer \in 1..Frame THEN timer - 1 ELSE timer
      /\ UNCHANGED <<reply, sent, buffer, message, dirty, emitted, outcome>>
  BY DEF ClockTick
<1>2. StreamTypes /\ ReadingIsTrue /\ TimerWaits /\ CutIsInvisible /\ timer \in 0..NoTimer /\ age \in 0..Frame
  BY DEF StreamInvariant, StreamTypes
<1>3. timer' \in 0..NoTimer /\ age' \in 0..Frame
  BY <1>1, <1>2 DEF NoTimer
<1>4. TimerWaits'
  <2>1. CASE timer = NoTimer
    <3>1. timer' = NoTimer
      BY <1>1, <2>1 DEF NoTimer
    <3> QED BY <3>1 DEF TimerWaits, NoTimer
  <2>2. CASE timer # NoTimer
    <3>1. outcome = "reading" /\ timer = Frame - age
      BY <1>2, <2>2 DEF TimerWaits
    <3>2. timer' = Frame - age'
      BY <1>1, <1>2, <3>1
    <3> QED BY <1>1, <3>1, <3>2 DEF TimerWaits
  <2> QED BY <2>1, <2>2
<1>5. StreamTypes'
  BY <1>1, <1>2, <1>3 DEF StreamTypes, NoTimer
<1>6. ReadSoFar' = ReadSoFar /\ Whole' = Whole
  BY <1>1 DEF ReadSoFar, Whole, Blank
<1>7. ReadingIsTrue' /\ CutIsInvisible'
  BY <1>1, <1>2, <1>6 DEF ReadingIsTrue, CutIsInvisible, Blank
<1> QED BY <1>4, <1>5, <1>7 DEF StreamInvariant

LEMMA StreamStepKeeps ==
  ASSUME StreamInvariant, [StreamNext]_streamVars
  PROVE  StreamInvariant'
<1>1. CASE StreamNext
  BY <1>1, ChunkKeeps, EndKeeps, BreaksKeeps, FlushFrameKeeps, ClockTickKeeps DEF StreamNext
<1>2. CASE UNCHANGED streamVars
  <2>1. UNCHANGED <<reply, sent, buffer, message, dirty, timer, age, emitted, outcome>>
    BY <1>2 DEF streamVars
  <2>2. ReadSoFar' = ReadSoFar /\ Whole' = Whole /\ Blank' = Blank /\ NoTimer' = NoTimer
    BY <2>1 DEF ReadSoFar, Whole, Blank, NoTimer
  <2>3. StreamTypes'
    BY <2>1, <2>2 DEF StreamInvariant, StreamTypes
  <2>4. ReadingIsTrue' /\ TimerWaits' /\ CutIsInvisible'
    BY <2>1, <2>2 DEF StreamInvariant, ReadingIsTrue, TimerWaits, CutIsInvisible
  <2> QED BY <2>3, <2>4 DEF StreamInvariant
<1> QED BY <1>1, <1>2

\* Only a timer shows the message while the text is read, and a timer fires
\* when its frame is over.
LEMMA FrameIsOver ==
  ASSUME StreamInvariant, [StreamNext]_streamVars, emitted' # emitted
  PROVE  outcome = "reading" /\ (outcome' = "reading" => age = Frame)
<1> USE StreamAssumption
<1>1. StreamNext
  BY DEF streamVars
<1>2. \A n \in 1..Len(reply) : ~ Chunk(n)
  BY DEF Chunk
<1>3. ~ Breaks /\ ~ ClockTick
  BY DEF Breaks, ClockTick
<1>4. CASE End
  <2>1. outcome = "reading" /\ (outcome' = "failed" \/ outcome' = "returned")
    BY <1>4 DEF End
  <2> QED BY <2>1
<1>5. CASE FlushFrame
  <2>1. timer = 0
    BY <1>5 DEF FlushFrame
  <2>2. TimerWaits /\ age \in 0..Frame /\ NoTimer # 0
    BY DEF StreamInvariant, StreamTypes, NoTimer
  <2>3. outcome = "reading" /\ 0 = Frame - age
    BY <2>1, <2>2 DEF TimerWaits
  <2> QED BY <2>2, <2>3
<1> QED BY <1>1, <1>2, <1>3, <1>4, <1>5 DEF StreamNext

\* Wherever the network cuts the text, an answer that is returned is the message
\* of the whole text and the message shown last; and updates are a frame apart.
\* (consumeChatStream)
THEOREM StreamIsSound == StreamSpec => StreamSound
<1>1. StreamInit => StreamInvariant
  BY StreamBegins
<1>2. StreamInvariant /\ [StreamNext]_streamVars => StreamInvariant'
  BY StreamStepKeeps
<1>3. StreamSpec => []StreamInvariant
  BY <1>1, <1>2, PTL DEF StreamSpec
<1>4. StreamInvariant => CutIsInvisible
  BY DEF StreamInvariant
<1>5. StreamInvariant /\ [StreamNext]_streamVars =>
        [emitted' # emitted =>
          /\ outcome = "reading"
          /\ outcome' = "reading" => age = Frame]_streamVars
  BY FrameIsOver
<1>6. StreamSpec => FramesAreKept
  BY <1>3, <1>5, PTL DEF StreamSpec, FramesAreKept
<1> QED BY <1>3, <1>4, <1>6, PTL DEF StreamSound
=============================================================================
