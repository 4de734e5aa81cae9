----------------------- MODULE CapabilityIndexingProofs -----------------------
(***************************************************************************)
(* What holds of CapabilityIndexing for every history of the sources,      *)
(* every set of failures and every batch size and cap.                     *)
(***************************************************************************)
EXTENDS CapabilityIndexing, FiniteSetTheorems, SequenceTheorems, WellFoundedInduction, TLAPS

-----------------------------------------------------------------------------
(* Induction, with sets in place of predicates.                             *)

\* Zero and successors make all naturals.
LEMMA Induct ==
  ASSUME NEW S, 0 \in S, \A n \in Nat : n \in S => n + 1 \in S
  PROVE  Nat \subseteq S
<1> DEFINE T == Nat \ S
           R == {p \in Nat \X Nat : p[1] < p[2]}
<1>1. IsWellFoundedOn(R, Nat)
  <2>1. OpToRel(<, Nat) = R BY DEF OpToRel
  <2> QED BY <2>1, NatLessThanWellFounded
<1>2. SUFFICES ASSUME T # {} PROVE FALSE OBVIOUS
<1> HIDE DEF R
<1>3. PICK m \in T : \A k \in T : <<k, m>> \notin R
  BY <1>1, <1>2, WFMin, Zenon
<1>4. m # 0 /\ m \in Nat OBVIOUS
<1>5. m - 1 \in Nat /\ m - 1 \in T BY <1>4
<1>6. <<m - 1, m>> \in R BY <1>4, <1>5 DEF R
<1> QED BY <1>3, <1>5, <1>6

\* What is so before the first step and kept by each is so after the last.
LEMMA Trace ==
  ASSUME NEW N \in Nat, NEW S, 0 \in S, \A n \in 1..N : n - 1 \in S => n \in S
  PROVE  N \in S
<1> DEFINE T == {n \in Nat : n <= N => n \in S}
<1>1. 0 \in T OBVIOUS
<1>2. ASSUME NEW n \in Nat, n \in T PROVE n + 1 \in T
  <2>1. CASE n + 1 <= N
    <3>1. n + 1 \in 1..N /\ (n + 1) - 1 = n /\ n \in S BY <1>2, <2>1
    <3> QED BY <3>1
  <2>2. CASE ~(n + 1 <= N) BY <2>2
  <2> QED BY <2>1, <2>2
<1> HIDE DEF T
<1>3. Nat \subseteq T BY <1>1, <1>2, Induct
<1> QED BY <1>3 DEF T

-----------------------------------------------------------------------------
(* Sequences.                                                               *)

\* What is a list of its own members.
List(s) == s \in Seq(ToSet(s))

\* A sequence over some set is a list of its own members.
LEMMA ListOf == ASSUME NEW S, NEW s \in Seq(S) PROVE List(s) /\ ToSet(s) \subseteq S
  BY DEF List, ToSet

\* The members of a list are what stands at its places.
LEMMA ListFacts ==
  ASSUME NEW s, List(s)
  PROVE  Len(s) \in Nat /\ DOMAIN s = 1..Len(s) /\ ToSet(s) = {s[i] : i \in 1..Len(s)}
  BY DEF List, ToSet

\* FlattenSeq puts one sequence after the other to what it has put together so far.
LEMMA Unrolled ==
  ASSUME NEW S, NEW ss \in Seq(Seq(S))
  PROVE  \E f : /\ f[0] = <<>> /\ FlattenSeq(ss) = f[Len(ss)]
                /\ \A n \in 0..Len(ss) : f[n] \in Seq(S)
                /\ \A n \in 1..Len(ss) : f[n] = f[n - 1] \o ss[n]
<1> DEFINE is(f, n) == f = [i \in 1..n |-> IF i = 1 THEN ss[i] ELSE f[i - 1] \o ss[i]]
           N == Len(ss)
           T == {n \in 0..N : \E f : is(f, n)}
<1>1. CASE N = 0
  <2>1. ss = <<>> BY <1>1
  <2>2. FlattenSeq(ss) = <<>> BY <2>1 DEF FlattenSeq
  <2> DEFINE f == [n \in 0..0 |-> <<>>]
  <2>3. f[0] = <<>> /\ \A n \in 0..N : f[n] \in Seq(S) BY <1>1
  <2>4. FlattenSeq(ss) = f[N] BY <1>1, <2>2, <2>3
  <2> HIDE DEF f
  <2> QED BY <1>1, <2>3, <2>4
<1>2. CASE N # 0
  <2>1. 0 \in T
    <3>1. is([i \in 1..0 |-> 0], 0) OBVIOUS
    <3>2. \E f : is(f, 0) BY <3>1
    <3> HIDE DEF is
    <3> QED BY <3>2
  <2>2. ASSUME NEW n \in 1..N, n - 1 \in T PROVE n \in T
    <3>1. PICK f : is(f, n - 1) BY <2>2
    <3> DEFINE v == IF n = 1 THEN ss[n] ELSE f[n - 1] \o ss[n]
               h == [i \in 1..n |-> IF i = n THEN v ELSE f[i]]
    <3>2. \A i \in 1..n - 1 : f[i] = IF i = 1 THEN ss[i] ELSE f[i - 1] \o ss[i] BY <3>1
    <3>3. ASSUME NEW i \in 1..n
          PROVE  h[i] = IF i = 1 THEN ss[i] ELSE h[i - 1] \o ss[i]
      <4>1. CASE i = n BY <4>1
      <4>2. CASE i # n
        <5>1. i \in 1..n - 1 /\ (i # 1 => i - 1 \in 1..n - 1) BY <4>2
        <5>2. h[i] = f[i] /\ (i # 1 => h[i - 1] = f[i - 1]) BY <5>1
        <5> QED BY <3>2, <5>1, <5>2
      <4> QED BY <4>1, <4>2
    <3>4. is(h, n) BY <3>3
    <3>5. \E k : is(k, n) BY <3>4
    <3> HIDE DEF is
    <3> QED BY <3>5
  <2>3. N \in T
    <3> HIDE DEF T
    <3> QED BY <2>1, <2>2, Trace
  <2> DEFINE f == CHOOSE f : is(f, N)
  <2>4. is(f, N) BY <2>3
  <2>5. FlattenSeq(ss) = f[N] BY <1>2 DEF FlattenSeq
  <2> HIDE DEF f
  <2> DEFINE g == [n \in 0..N |-> IF n = 0 THEN <<>> ELSE f[n]]
             U == {n \in 0..N : g[n] \in Seq(S)}
  <2>6. ASSUME NEW n \in 1..N PROVE g[n] = IF n = 1 THEN ss[n] ELSE g[n - 1] \o ss[n]
    <3>1. f[n] = IF n = 1 THEN ss[n] ELSE f[n - 1] \o ss[n] BY <2>4
    <3>2. g[n] = f[n] /\ (n # 1 => g[n - 1] = f[n - 1]) OBVIOUS
    <3> QED BY <3>1, <3>2
  <2>7. g[0] = <<>> /\ g[N] = f[N] BY <1>2
  <2> HIDE DEF g
  <2>8. ASSUME NEW n \in 1..N, n - 1 \in U PROVE n \in U /\ g[n] = g[n - 1] \o ss[n]
    <3>1. ss[n] \in Seq(S) /\ g[n - 1] \in Seq(S) BY <2>8
    <3>2. g[n - 1] \o ss[n] \in Seq(S) BY <3>1
    <3>3. g[n] = g[n - 1] \o ss[n]
      <4>1. CASE n = 1
        <5>1. <<>> \o ss[n] = ss[n] BY <3>1
        <5>2. g[n - 1] = <<>> BY <2>7, <4>1
        <5>3. g[n] = ss[n] BY <2>6, <4>1
        <5> QED BY <5>1, <5>2, <5>3, Zenon
      <4>2. CASE n # 1 BY <2>6, <4>2
      <4> QED BY <4>1, <4>2
    <3>4. g[n] \in Seq(S) BY <3>2, <3>3, Zenon
    <3>5. n \in 0..N OBVIOUS
    <3> QED BY <3>3, <3>4, <3>5, Zenon
  <2>9. \A n \in 0..N : n \in U
    <3>0. N \in Nat /\ <<>> \in Seq(S) OBVIOUS
    <3>1. 0 \in U
      <4>1. g[0] \in Seq(S) BY <2>7, <3>0, Zenon
      <4>2. 0 \in 0..N BY <3>0
      <4> QED BY <4>1, <4>2, Zenon
    <3> HIDE DEF U
    <3> DEFINE V == {n \in 0..N : \A m \in 0..n : m \in U}
    <3>2. 0 \in V BY <3>0, <3>1
    <3>3. ASSUME NEW n \in 1..N, n - 1 \in V PROVE n \in V
      <4>0. n \in 0..N /\ n - 1 \in 0..n - 1 BY <3>0
      <4>1. \A m \in 0..n - 1 : m \in U BY <3>3
      <4>2. n \in U BY <2>8, <4>0, <4>1
      <4>3. \A m \in 0..n : m = n \/ m \in 0..n - 1 OBVIOUS
      <4> QED BY <4>0, <4>1, <4>2, <4>3
    <3>4. N \in V
      <4> HIDE DEF V
      <4> QED BY <3>0, <3>2, <3>3, Trace
    <3> QED BY <3>4
  <2>10. \A n \in 0..N : g[n] \in Seq(S) BY <2>9
  <2>11. ASSUME NEW n \in 1..N PROVE g[n] = g[n - 1] \o ss[n]
    <3>1. n - 1 \in 0..N OBVIOUS
    <3> HIDE DEF U
    <3> QED BY <2>8, <2>9, <3>1
  <2> HIDE DEF U
  <2>12. FlattenSeq(ss) = g[Len(ss)] BY <2>5, <2>7
  <2> QED BY <2>7, <2>10, <2>11, <2>12
<1> QED BY <1>1, <1>2

\* FlattenSeq is the concatenation of sequences.
LEMMA Flattened ==
  ASSUME NEW S, NEW ss \in Seq(Seq(S))
  PROVE  FlattenSeq(ss) \in Seq(S)
<1>1. PICK f : FlattenSeq(ss) = f[Len(ss)] /\ \A n \in 0..Len(ss) : f[n] \in Seq(S)
  BY Unrolled
<1>2. Len(ss) \in 0..Len(ss) OBVIOUS
<1>3. f[Len(ss)] \in Seq(S) BY <1>1, <1>2
<1> QED BY <1>1, <1>3, Zenon

\* One member or none, as a filter takes them.
LEMMA Chosen ==
  ASSUME NEW N \in Nat, NEW s, NEW T
  PROVE  FlattenSeq([i \in 1..N |-> IF s[i] \in T THEN <<s[i]>> ELSE <<>>]) \in Seq(T)
<1> DEFINE one(i) == IF s[i] \in T THEN <<s[i]>> ELSE <<>>
           ss == [i \in 1..N |-> one(i)]
<1>1. ASSUME NEW i \in 1..N PROVE one(i) \in Seq(T)
  <2>1. CASE s[i] \in T BY <2>1
  <2>2. CASE s[i] \notin T BY <2>2
  <2> QED BY <2>1, <2>2
<1> HIDE DEF one
<1>2. ss \in Seq(Seq(T)) BY <1>1
<1> HIDE DEF ss
<1>3. FlattenSeq(ss) \in Seq(T) BY <1>2, Flattened
<1> QED BY <1>3 DEF ss, one

\* The members of a list that are in a set.
Filter(s, T) == FlattenSeq([i \in 1..Len(s) |-> IF s[i] \in T THEN <<s[i]>> ELSE <<>>])

\* What a filter keeps of a list is a list, of members that pass.
LEMMA Kept ==
  ASSUME NEW s, List(s), NEW T
  PROVE  List(Filter(s, T)) /\ ToSet(Filter(s, T)) \subseteq T
<1>1. Len(s) \in Nat BY ListFacts
<1>2. Filter(s, T) \in Seq(T) BY <1>1, Chosen DEF Filter
<1> QED BY <1>2, ListOf

\* Lists put one after the other.
LEMMA Joined ==
  ASSUME NEW N \in Nat, NEW ss, ss = [i \in 1..N |-> ss[i]],
         \A i \in 1..N : List(ss[i])
  PROVE  List(FlattenSeq(ss)) /\ ToSet(FlattenSeq(ss)) \subseteq UNION {ToSet(ss[i]) : i \in 1..N}
<1> DEFINE S == UNION {ToSet(ss[i]) : i \in 1..N}
<1>1. ASSUME NEW i \in 1..N PROVE ss[i] \in Seq(S)
  <2>1. ss[i] \in Seq(ToSet(ss[i])) /\ ToSet(ss[i]) \subseteq S BY DEF List
  <2> HIDE DEF S
  <2> QED BY <2>1
<1> HIDE DEF S
<1>2. ss \in Seq(Seq(S)) BY <1>1
<1>3. FlattenSeq(ss) \in Seq(S) BY <1>2, Flattened
<1> QED BY <1>3, ListOf DEF S

\* One entry for each member.
LEMMA Mapped ==
  ASSUME NEW N \in Nat, NEW s, s = [i \in 1..N |-> s[i]]
  PROVE  List(s) /\ Len(s) = N /\ ToSet(s) = {s[i] : i \in 1..N}
<1>1. \A i \in 1..N : s[i] \in ToSet(s) BY DEF ToSet
<1>2. s \in Seq(ToSet(s))
  <2> DEFINE S == ToSet(s)
             t == [i \in 1..N |-> s[i]]
  <2>1. \A i \in 1..N : s[i] \in S BY <1>1
  <2> HIDE DEF S
  <2>2. t \in Seq(S) BY <2>1
  <2>3. t = s OBVIOUS
  <2> HIDE DEF t
  <2> QED BY <2>2, <2>3 DEF S
<1>3. DOMAIN s = 1..N OBVIOUS
<1> QED BY <1>2, <1>3 DEF List, ToSet

-----------------------------------------------------------------------------
(* The loops of the model.  Each goes through values of which the first is  *)
(* where it starts, each further one what a step makes of the one before,   *)
(* and the last what comes of it.                                           *)

\* The graphs that the loop over the methods goes through.
LEMMA FromMethodsSteps ==
  ASSUME NEW s, List(s), NEW g
  PROVE  \E f : /\ f[0] = g /\ FromMethods(g, s) = f[Len(s)]
                /\ \A n \in 1..Len(s) : f[n] = FromMethod(s, f[n - 1], s[n])
<1> DEFINE after(f, n) == f = [i \in 0..n |-> IF i = 0 THEN g ELSE FromMethod(s, f[i - 1], s[i])]
           N == Len(s)
           T == {n \in 0..N : \E f : after(f, n)}
<1>1. N \in Nat BY ListFacts
<1>2. 0 \in T
  <2>1. after([i \in 0..0 |-> g], 0) OBVIOUS
  <2>2. \E f : after(f, 0) BY <2>1
  <2> HIDE DEF after
  <2> QED BY <1>1, <2>2
<1>3. ASSUME NEW n \in 1..N, n - 1 \in T PROVE n \in T
  <2>1. PICK f : after(f, n - 1) BY <1>3
  <2> DEFINE h == [i \in 0..n |-> IF i = n THEN FromMethod(s, f[n - 1], s[n]) ELSE f[i]]
  <2>2. \A i \in 0..n - 1 : f[i] = IF i = 0 THEN g ELSE FromMethod(s, f[i - 1], s[i]) BY <1>1, <2>1
  <2>3. ASSUME NEW i \in 0..n
        PROVE  h[i] = IF i = 0 THEN g ELSE FromMethod(s, h[i - 1], s[i])
    <3>1. CASE i = n BY <1>1, <3>1
    <3>2. CASE i # n
      <4>1. i \in 0..n - 1 /\ (i # 0 => i - 1 \in 0..n - 1) BY <1>1, <3>2
      <4>2. h[i] = f[i] /\ (i # 0 => h[i - 1] = f[i - 1]) BY <1>1, <4>1
      <4> QED BY <2>2, <4>1, <4>2
    <3> QED BY <3>1, <3>2
  <2>4. \E k : after(k, n) BY <2>3
  <2> HIDE DEF after
  <2> QED BY <2>4
<1>4. N \in T
  <2> HIDE DEF T
  <2> QED BY <1>1, <1>2, <1>3, Trace
<1> DEFINE f == CHOOSE f : after(f, N)
<1>5. after(f, N) BY <1>4
<1>6. FromMethods(g, s) = f[N] BY DEF FromMethods, Steps
<1> HIDE DEF f
<1> QED BY <1>1, <1>5, <1>6

\* And those of the loop over the deprecations.
LEMMA LinkSuccessorsSteps ==
  ASSUME NEW s, List(s), NEW g
  PROVE  \E f : /\ f[0] = g /\ LinkSuccessors(g, s) = f[Len(s)]
                /\ \A n \in 1..Len(s) : f[n] = LinkSuccessor(s, f[n - 1], s[n])
<1> DEFINE after(f, n) == f = [i \in 0..n |-> IF i = 0 THEN g ELSE LinkSuccessor(s, f[i - 1], s[i])]
           N == Len(s)
           T == {n \in 0..N : \E f : after(f, n)}
<1>1. N \in Nat BY ListFacts
<1>2. 0 \in T
  <2>1. after([i \in 0..0 |-> g], 0) OBVIOUS
  <2>2. \E f : after(f, 0) BY <2>1
  <2> HIDE DEF after
  <2> QED BY <1>1, <2>2
<1>3. ASSUME NEW n \in 1..N, n - 1 \in T PROVE n \in T
  <2>1. PICK f : after(f, n - 1) BY <1>3
  <2> DEFINE h == [i \in 0..n |-> IF i = n THEN LinkSuccessor(s, f[n - 1], s[n]) ELSE f[i]]
  <2>2. \A i \in 0..n - 1 : f[i] = IF i = 0 THEN g ELSE LinkSuccessor(s, f[i - 1], s[i]) BY <1>1, <2>1
  <2>3. ASSUME NEW i \in 0..n
        PROVE  h[i] = IF i = 0 THEN g ELSE LinkSuccessor(s, h[i - 1], s[i])
    <3>1. CASE i = n BY <1>1, <3>1
    <3>2. CASE i # n
      <4>1. i \in 0..n - 1 /\ (i # 0 => i - 1 \in 0..n - 1) BY <1>1, <3>2
      <4>2. h[i] = f[i] /\ (i # 0 => h[i - 1] = f[i - 1]) BY <1>1, <4>1
      <4> QED BY <2>2, <4>1, <4>2
    <3> QED BY <3>1, <3>2
  <2>4. \E k : after(k, n) BY <2>3
  <2> HIDE DEF after
  <2> QED BY <2>4
<1>4. N \in T
  <2> HIDE DEF T
  <2> QED BY <1>1, <1>2, <1>3, Trace
<1> DEFINE f == CHOOSE f : after(f, N)
<1>5. after(f, N) BY <1>4
<1>6. LinkSuccessors(g, s) = f[N] BY DEF LinkSuccessors, Steps
<1> HIDE DEF f
<1> QED BY <1>1, <1>5, <1>6

\* The graphs that the loop over the skills goes through.
LEMMA LinkExemplarsSteps ==
  ASSUME NEW s, List(s), NEW g
  PROVE  \E f : /\ f[0] = g /\ LinkExemplars(g, s) = f[Len(s)]
                /\ \A n \in 1..Len(s) : f[n] = LinkExemplar(s, f[n - 1], s[n])
<1> DEFINE after(f, n) == f = [i \in 0..n |-> IF i = 0 THEN g ELSE LinkExemplar(s, f[i - 1], s[i])]
           N == Len(s)
           T == {n \in 0..N : \E f : after(f, n)}
<1>1. N \in Nat BY ListFacts
<1>2. 0 \in T
  <2>1. after([i \in 0..0 |-> g], 0) OBVIOUS
  <2>2. \E f : after(f, 0) BY <2>1
  <2> HIDE DEF after
  <2> QED BY <1>1, <2>2
<1>3. ASSUME NEW n \in 1..N, n - 1 \in T PROVE n \in T
  <2>1. PICK f : after(f, n - 1) BY <1>3
  <2> DEFINE h == [i \in 0..n |-> IF i = n THEN LinkExemplar(s, f[n - 1], s[n]) ELSE f[i]]
  <2>2. \A i \in 0..n - 1 : f[i] = IF i = 0 THEN g ELSE LinkExemplar(s, f[i - 1], s[i]) BY <1>1, <2>1
  <2>3. ASSUME NEW i \in 0..n
        PROVE  h[i] = IF i = 0 THEN g ELSE LinkExemplar(s, h[i - 1], s[i])
    <3>1. CASE i = n BY <1>1, <3>1
    <3>2. CASE i # n
      <4>1. i \in 0..n - 1 /\ (i # 0 => i - 1 \in 0..n - 1) BY <1>1, <3>2
      <4>2. h[i] = f[i] /\ (i # 0 => h[i - 1] = f[i - 1]) BY <1>1, <4>1
      <4> QED BY <2>2, <4>1, <4>2
    <3> QED BY <3>1, <3>2
  <2>4. \E k : after(k, n) BY <2>3
  <2> HIDE DEF after
  <2> QED BY <2>4
<1>4. N \in T
  <2> HIDE DEF T
  <2> QED BY <1>1, <1>2, <1>3, Trace
<1> DEFINE f == CHOOSE f : after(f, N)
<1>5. after(f, N) BY <1>4
<1>6. LinkExemplars(g, s) = f[N] BY DEF LinkExemplars, Steps
<1> HIDE DEF f
<1> QED BY <1>1, <1>5, <1>6

\* The graphs that the loop over the operations goes through.
LEMMA FromOperationsSteps ==
  ASSUME NEW s, List(s), NEW g, NEW api, api.operations = s
  PROVE  \E f : /\ f[0] = g /\ BuildFromOpenApi(g, api) = f[Len(s)]
                /\ \A n \in 1..Len(s) : f[n] = FromOperation(f[n - 1], s[n])
<1> DEFINE after(f, n) == f = [i \in 0..n |-> IF i = 0 THEN g ELSE FromOperation(f[i - 1], s[i])]
           N == Len(s)
           T == {n \in 0..N : \E f : after(f, n)}
<1>1. N \in Nat BY ListFacts
<1>2. 0 \in T
  <2>1. after([i \in 0..0 |-> g], 0) OBVIOUS
  <2>2. \E f : after(f, 0) BY <2>1
  <2> HIDE DEF after
  <2> QED BY <1>1, <2>2
<1>3. ASSUME NEW n \in 1..N, n - 1 \in T PROVE n \in T
  <2>1. PICK f : after(f, n - 1) BY <1>3
  <2> DEFINE h == [i \in 0..n |-> IF i = n THEN FromOperation(f[n - 1], s[n]) ELSE f[i]]
  <2>2. \A i \in 0..n - 1 : f[i] = IF i = 0 THEN g ELSE FromOperation(f[i - 1], s[i]) BY <1>1, <2>1
  <2>3. ASSUME NEW i \in 0..n
        PROVE  h[i] = IF i = 0 THEN g ELSE FromOperation(h[i - 1], s[i])
    <3>1. CASE i = n BY <1>1, <3>1
    <3>2. CASE i # n
      <4>1. i \in 0..n - 1 /\ (i # 0 => i - 1 \in 0..n - 1) BY <1>1, <3>2
      <4>2. h[i] = f[i] /\ (i # 0 => h[i - 1] = f[i - 1]) BY <1>1, <4>1
      <4> QED BY <2>2, <4>1, <4>2
    <3> QED BY <3>1, <3>2
  <2>4. \E k : after(k, n) BY <2>3
  <2> HIDE DEF after
  <2> QED BY <2>4
<1>4. N \in T
  <2> HIDE DEF T
  <2> QED BY <1>1, <1>2, <1>3, Trace
<1> DEFINE f == CHOOSE f : after(f, N)
<1>5. after(f, N) BY <1>4
<1>6. BuildFromOpenApi(g, api) = f[N] BY DEF BuildFromOpenApi, Steps
<1> HIDE DEF f
<1> QED BY <1>1, <1>5, <1>6

\* The graphs that the loop over the extensions of a page goes through.
LEMMA EnrichAllSteps ==
  ASSUME NEW s, List(s), NEW g, NEW p
  PROVE  \E f : /\ f[0] = g /\ EnrichAll(g, p, s) = f[Len(s)]
                /\ \A n \in 1..Len(s) : f[n] = Enrich(p, f[n - 1], s[n])
<1> DEFINE after(f, n) == f = [i \in 0..n |-> IF i = 0 THEN g ELSE Enrich(p, f[i - 1], s[i])]
           N == Len(s)
           T == {n \in 0..N : \E f : after(f, n)}
<1>1. N \in Nat BY ListFacts
<1>2. 0 \in T
  <2>1. after([i \in 0..0 |-> g], 0) OBVIOUS
  <2>2. \E f : after(f, 0) BY <2>1
  <2> HIDE DEF after
  <2> QED BY <1>1, <2>2
<1>3. ASSUME NEW n \in 1..N, n - 1 \in T PROVE n \in T
  <2>1. PICK f : after(f, n - 1) BY <1>3
  <2> DEFINE h == [i \in 0..n |-> IF i = n THEN Enrich(p, f[n - 1], s[n]) ELSE f[i]]
  <2>2. \A i \in 0..n - 1 : f[i] = IF i = 0 THEN g ELSE Enrich(p, f[i - 1], s[i]) BY <1>1, <2>1
  <2>3. ASSUME NEW i \in 0..n
        PROVE  h[i] = IF i = 0 THEN g ELSE Enrich(p, h[i - 1], s[i])
    <3>1. CASE i = n BY <1>1, <3>1
    <3>2. CASE i # n
      <4>1. i \in 0..n - 1 /\ (i # 0 => i - 1 \in 0..n - 1) BY <1>1, <3>2
      <4>2. h[i] = f[i] /\ (i # 0 => h[i - 1] = f[i - 1]) BY <1>1, <4>1
      <4> QED BY <2>2, <4>1, <4>2
    <3> QED BY <3>1, <3>2
  <2>4. \E k : after(k, n) BY <2>3
  <2> HIDE DEF after
  <2> QED BY <2>4
<1>4. N \in T
  <2> HIDE DEF T
  <2> QED BY <1>1, <1>2, <1>3, Trace
<1> DEFINE f == CHOOSE f : after(f, N)
<1>5. after(f, N) BY <1>4
<1>6. EnrichAll(g, p, s) = f[N] BY DEF EnrichAll, Steps
<1> HIDE DEF f
<1> QED BY <1>1, <1>5, <1>6

\* And those of the loop over the pages.
LEMMA FromPagesSteps ==
  ASSUME NEW s, List(s), NEW g, NEW docs, docs.pages = s
  PROVE  \E f : /\ f[0] = g /\ BuildFromDocs(g, docs) = f[Len(s)]
                /\ \A n \in 1..Len(s) : f[n] = FromPage(f[n - 1], s[n])
<1> DEFINE after(f, n) == f = [i \in 0..n |-> IF i = 0 THEN g ELSE FromPage(f[i - 1], s[i])]
           N == Len(s)
           T == {n \in 0..N : \E f : after(f, n)}
<1>1. N \in Nat BY ListFacts
<1>2. 0 \in T
  <2>1. after([i \in 0..0 |-> g], 0) OBVIOUS
  <2>2. \E f : after(f, 0) BY <2>1
  <2> HIDE DEF after
  <2> QED BY <1>1, <2>2
<1>3. ASSUME NEW n \in 1..N, n - 1 \in T PROVE n \in T
  <2>1. PICK f : after(f, n - 1) BY <1>3
  <2> DEFINE h == [i \in 0..n |-> IF i = n THEN FromPage(f[n - 1], s[n]) ELSE f[i]]
  <2>2. \A i \in 0..n - 1 : f[i] = IF i = 0 THEN g ELSE FromPage(f[i - 1], s[i]) BY <1>1, <2>1
  <2>3. ASSUME NEW i \in 0..n
        PROVE  h[i] = IF i = 0 THEN g ELSE FromPage(h[i - 1], s[i])
    <3>1. CASE i = n BY <1>1, <3>1
    <3>2. CASE i # n
      <4>1. i \in 0..n - 1 /\ (i # 0 => i - 1 \in 0..n - 1) BY <1>1, <3>2
      <4>2. h[i] = f[i] /\ (i # 0 => h[i - 1] = f[i - 1]) BY <1>1, <4>1
      <4> QED BY <2>2, <4>1, <4>2
    <3> QED BY <3>1, <3>2
  <2>4. \E k : after(k, n) BY <2>3
  <2> HIDE DEF after
  <2> QED BY <2>4
<1>4. N \in T
  <2> HIDE DEF T
  <2> QED BY <1>1, <1>2, <1>3, Trace
<1> DEFINE f == CHOOSE f : after(f, N)
<1>5. after(f, N) BY <1>4
<1>6. BuildFromDocs(g, docs) = f[N] BY DEF BuildFromDocs, Steps
<1> HIDE DEF f
<1> QED BY <1>1, <1>5, <1>6

\* The graphs that the loop over the callables goes through.
LEMMA FromCallablesSteps ==
  ASSUME NEW s, List(s), NEW g, NEW labs, labs.callables = s, labs.repo # None
  PROVE  \E f : /\ f[0] = g /\ BuildFromLabs(g, labs) = f[Len(s)]
                /\ \A n \in 1..Len(s) : f[n] = FromCallable(f[n - 1], s[n])
<1> DEFINE after(f, n) == f = [i \in 0..n |-> IF i = 0 THEN g ELSE FromCallable(f[i - 1], s[i])]
           N == Len(s)
           T == {n \in 0..N : \E f : after(f, n)}
<1>1. N \in Nat BY ListFacts
<1>2. 0 \in T
  <2>1. after([i \in 0..0 |-> g], 0) OBVIOUS
  <2>2. \E f : after(f, 0) BY <2>1
  <2> HIDE DEF after
  <2> QED BY <1>1, <2>2
<1>3. ASSUME NEW n \in 1..N, n - 1 \in T PROVE n \in T
  <2>1. PICK f : after(f, n - 1) BY <1>3
  <2> DEFINE h == [i \in 0..n |-> IF i = n THEN FromCallable(f[n - 1], s[n]) ELSE f[i]]
  <2>2. \A i \in 0..n - 1 : f[i] = IF i = 0 THEN g ELSE FromCallable(f[i - 1], s[i]) BY <1>1, <2>1
  <2>3. ASSUME NEW i \in 0..n
        PROVE  h[i] = IF i = 0 THEN g ELSE FromCallable(h[i - 1], s[i])
    <3>1. CASE i = n BY <1>1, <3>1
    <3>2. CASE i # n
      <4>1. i \in 0..n - 1 /\ (i # 0 => i - 1 \in 0..n - 1) BY <1>1, <3>2
      <4>2. h[i] = f[i] /\ (i # 0 => h[i - 1] = f[i - 1]) BY <1>1, <4>1
      <4> QED BY <2>2, <4>1, <4>2
    <3> QED BY <3>1, <3>2
  <2>4. \E k : after(k, n) BY <2>3
  <2> HIDE DEF after
  <2> QED BY <2>4
<1>4. N \in T
  <2> HIDE DEF T
  <2> QED BY <1>1, <1>2, <1>3, Trace
<1> DEFINE f == CHOOSE f : after(f, N)
<1>5. after(f, N) BY <1>4
<1>6. BuildFromLabs(g, labs) = f[N] BY DEF BuildFromLabs, Steps
<1> HIDE DEF f
<1> QED BY <1>1, <1>5, <1>6

\* The requests that the loop over the entities goes through.
LEMMA DistinctSteps ==
  ASSUME NEW s, List(s)
  PROVE  \E f : /\ f[0] = <<>> /\ Distinct(s) = f[Len(s)]
                /\ \A n \in 1..Len(s) : f[n] = Request(f[n - 1], s[n])
<1> DEFINE after(f, n) == f = [i \in 0..n |-> IF i = 0 THEN <<>> ELSE Request(f[i - 1], s[i])]
           N == Len(s)
           T == {n \in 0..N : \E f : after(f, n)}
<1>1. N \in Nat BY ListFacts
<1>2. 0 \in T
  <2>1. after([i \in 0..0 |-> <<>>], 0) OBVIOUS
  <2>2. \E f : after(f, 0) BY <2>1
  <2> HIDE DEF after
  <2> QED BY <1>1, <2>2
<1>3. ASSUME NEW n \in 1..N, n - 1 \in T PROVE n \in T
  <2>1. PICK f : after(f, n - 1) BY <1>3
  <2> DEFINE h == [i \in 0..n |-> IF i = n THEN Request(f[n - 1], s[n]) ELSE f[i]]
  <2>2. \A i \in 0..n - 1 : f[i] = IF i = 0 THEN <<>> ELSE Request(f[i - 1], s[i]) BY <1>1, <2>1
  <2>3. ASSUME NEW i \in 0..n
        PROVE  h[i] = IF i = 0 THEN <<>> ELSE Request(h[i - 1], s[i])
    <3>1. CASE i = n BY <1>1, <3>1
    <3>2. CASE i # n
      <4>1. i \in 0..n - 1 /\ (i # 0 => i - 1 \in 0..n - 1) BY <1>1, <3>2
      <4>2. h[i] = f[i] /\ (i # 0 => h[i - 1] = f[i - 1]) BY <1>1, <4>1
      <4> QED BY <2>2, <4>1, <4>2
    <3> QED BY <3>1, <3>2
  <2>4. \E k : after(k, n) BY <2>3
  <2> HIDE DEF after
  <2> QED BY <2>4
<1>4. N \in T
  <2> HIDE DEF T
  <2> QED BY <1>1, <1>2, <1>3, Trace
<1> DEFINE f == CHOOSE f : after(f, N)
<1>5. after(f, N) BY <1>4
<1>6. Distinct(s) = f[N] BY DEF Distinct, Steps
<1> HIDE DEF f
<1> QED BY <1>1, <1>5, <1>6

\* The states that the scan of the requests goes through.
LEMMA ScanAllSteps ==
  ASSUME NEW s, List(s), NEW bad
  PROVE  \E f : /\ f[0] = NoBatch /\ ScanAll(s, bad) = f[Len(s)]
                /\ \A n \in 1..Len(s) : f[n] = Scan(bad, f[n - 1], s[n])
<1> DEFINE after(f, n) == f = [i \in 0..n |-> IF i = 0 THEN NoBatch ELSE Scan(bad, f[i - 1], s[i])]
           N == Len(s)
           T == {n \in 0..N : \E f : after(f, n)}
<1>1. N \in Nat BY ListFacts
<1>2. 0 \in T
  <2>1. after([i \in 0..0 |-> NoBatch], 0) OBVIOUS
  <2>2. \E f : after(f, 0) BY <2>1
  <2> HIDE DEF after
  <2> QED BY <1>1, <2>2
<1>3. ASSUME NEW n \in 1..N, n - 1 \in T PROVE n \in T
  <2>1. PICK f : after(f, n - 1) BY <1>3
  <2> DEFINE h == [i \in 0..n |-> IF i = n THEN Scan(bad, f[n - 1], s[n]) ELSE f[i]]
  <2>2. \A i \in 0..n - 1 : f[i] = IF i = 0 THEN NoBatch ELSE Scan(bad, f[i - 1], s[i]) BY <1>1, <2>1
  <2>3. ASSUME NEW i \in 0..n
        PROVE  h[i] = IF i = 0 THEN NoBatch ELSE Scan(bad, h[i - 1], s[i])
    <3>1. CASE i = n BY <1>1, <3>1
    <3>2. CASE i # n
      <4>1. i \in 0..n - 1 /\ (i # 0 => i - 1 \in 0..n - 1) BY <1>1, <3>2
      <4>2. h[i] = f[i] /\ (i # 0 => h[i - 1] = f[i - 1]) BY <1>1, <4>1
      <4> QED BY <2>2, <4>1, <4>2
    <3> QED BY <3>1, <3>2
  <2>4. \E k : after(k, n) BY <2>3
  <2> HIDE DEF after
  <2> QED BY <2>4
<1>4. N \in T
  <2> HIDE DEF T
  <2> QED BY <1>1, <1>2, <1>3, Trace
<1> DEFINE f == CHOOSE f : after(f, N)
<1>5. after(f, N) BY <1>4
<1>6. ScanAll(s, bad) = f[N] BY DEF ScanAll, Steps, NoBatch
<1> HIDE DEF f
<1> QED BY <1>1, <1>5, <1>6

-----------------------------------------------------------------------------
(* The graph under construction.                                            *)

Kinds == {"sdk", "openapi", "docs", "labs", "hand_authored"}

IsRow(r) ==
    r = [meta |-> r.meta, text |-> r.text, effect |-> r.effect, authority |-> r.authority,
         deprecatedBy |-> r.deprecatedBy, exemplar |-> r.exemplar, hash |-> r.hash]

\* What the builders pass on is a graph of rows.
Shaped(g) ==
    /\ g = [ext |-> g.ext, edges |-> g.edges, provenance |-> g.provenance,
            contributing |-> g.contributing, unlinked |-> g.unlinked]
    /\ g.ext = [e \in DOMAIN g.ext |-> g.ext[e]]
    /\ \A e \in DOMAIN g.ext : IsRow(g.ext[e])

\* A row has the authority of one of the sources the ledger names for it, and of the
\* most trusted one; the ledger names nothing else but meta-skills.
Ranked(g) ==
    /\ \A e \in DOMAIN g.ext :
        /\ Len(e) = 3 /\ g.ext[e].authority \in Nat
        /\ \E p \in g.provenance : p.entity = e /\ g.ext[e].authority = Authority[p.kind]
        /\ \A p \in g.provenance : p.entity = e => Authority[p.kind] <= g.ext[e].authority
    /\ \A p \in g.provenance :
        /\ p.kind \in Kinds
        /\ p.entity \in DOMAIN g.ext \/ Len(p.entity) = 2

\* The row's key in the index tells its text, a stub's aside.
Hashed(g) ==
    \A e \in DOMAIN g.ext : g.ext[e].hash \in {Blank, ContentHash(e, g.ext[e].text)}

Exemplifies(g) == {x \in g.edges : x.kind = "exemplifies"}

\* EdgesGrounded of a graph, where the sources list some entities.
Grounded(g, listed) ==
    /\ \A x \in g.edges :
        /\ x.kind \in {"derives", "deprecates"} => x.src \in DOMAIN g.ext
        /\ x.kind \in {"deprecates", "exemplifies"} => x.dst \in DOMAIN g.ext
        /\ x.kind = "derives" => x.dst \in listed
    /\ \A e \in DOMAIN g.ext :
        g.ext[e].deprecatedBy # None =>
            [src |-> e, dst |-> g.ext[e].deprecatedBy, kind |-> "deprecates"] \in g.edges
    /\ \A x \in Exemplifies(g) :
        g.ext[x.dst].exemplar = None
            => g.ext[x.dst].authority \in {Authority.openapi, Authority.docs, Authority.labs}

Sound(g, listed) == Shaped(g) /\ Ranked(g) /\ Hashed(g) /\ Grounded(g, listed)

\* How much each kind of source is trusted (_SOURCE_AUTHORITY).
LEMMA AuthorityFacts ==
  /\ \A k \in Kinds : Authority[k] \in Nat
  /\ Authority["sdk"] = 100 /\ Authority["openapi"] = 95 /\ Authority["docs"] = 85
  /\ Authority["labs"] = 75 /\ Authority["hand_authored"] = 0
  BY DEF Authority, Kinds

\* One row is put into a graph.
LEMMA PutFacts ==
  ASSUME NEW g, Shaped(g), NEW e, NEW row, IsRow(row)
  PROVE  LET h == Put(g, e, row) IN
         /\ Shaped(h)
         /\ h.edges = g.edges /\ h.provenance = g.provenance
         /\ DOMAIN h.ext = DOMAIN g.ext \cup {e}
         /\ h.ext[e] = row
         /\ \A x \in DOMAIN g.ext : x # e => h.ext[x] = g.ext[x]
<1> DEFINE h == Put(g, e, row)
           ext == [x \in DOMAIN g.ext \cup {e} |-> IF x = e THEN row ELSE g.ext[x]]
<1>1. h = [ext |-> ext, edges |-> g.edges, provenance |-> g.provenance,
           contributing |-> g.contributing, unlinked |-> g.unlinked]
  BY DEF Put, Shaped
<1> HIDE DEF h
<1>2. /\ h.ext = ext /\ h.edges = g.edges /\ h.provenance = g.provenance
      /\ h.contributing = g.contributing /\ h.unlinked = g.unlinked
  BY <1>1
<1>3. \A x \in DOMAIN ext : IsRow(ext[x]) BY DEF Shaped
<1>4. ext = [x \in DOMAIN ext |-> ext[x]] OBVIOUS
<1>5. Shaped(h)
  <2> HIDE DEF ext
  <2> QED BY <1>1, <1>2, <1>3, <1>4 DEF Shaped
<1> QED BY <1>2, <1>5 DEF h

\* A row that is built has the hash of its text and is neither deprecated nor linked.
LEMMA ExtensionFacts ==
  ASSUME NEW e, NEW meta, NEW text, NEW effect, NEW authority
  PROVE  LET r == Extension(e, meta, text, effect, authority) IN
         /\ IsRow(r) /\ r.authority = authority /\ r.hash = ContentHash(e, r.text)
         /\ r.deprecatedBy = None /\ r.exemplar = None
  BY DEF Extension, IsRow

\* A row is replaced by a better one only.
LEMMA UpsertFacts ==
  ASSUME NEW g, Shaped(g), NEW e, NEW meta, NEW text, NEW effect, NEW authority
  PROVE  LET h == Upsert(g, e, meta, text, effect, authority) IN
         /\ Shaped(h)
         /\ h.edges = g.edges /\ h.provenance = g.provenance
         /\ DOMAIN h.ext = DOMAIN g.ext \cup {e}
         /\ \A x \in DOMAIN g.ext : x # e => h.ext[x] = g.ext[x]
         /\ \/ /\ e \in DOMAIN g.ext /\ authority <= g.ext[e].authority
               /\ h.ext[e] = g.ext[e]
            \/ /\ e \notin DOMAIN g.ext \/ ~(authority <= g.ext[e].authority)
               /\ h.ext[e] = Extension(e, meta, text, effect, authority)
<1>1. CASE e \in DOMAIN g.ext /\ authority <= g.ext[e].authority
  <2>1. DOMAIN g.ext = DOMAIN g.ext \cup {e} BY <1>1
  <2> QED BY <1>1, <2>1 DEF Upsert
<1>2. CASE ~(e \in DOMAIN g.ext /\ authority <= g.ext[e].authority)
  <2> DEFINE row == Extension(e, meta, text, effect, authority)
  <2>1. Upsert(g, e, meta, text, effect, authority) = Put(g, e, row)
    BY <1>2 DEF Upsert
  <2>2. IsRow(row) BY ExtensionFacts
  <2> HIDE DEF row
  <2>3. LET h == Put(g, e, row) IN
        /\ Shaped(h)
        /\ h.edges = g.edges /\ h.provenance = g.provenance
        /\ DOMAIN h.ext = DOMAIN g.ext \cup {e}
        /\ h.ext[e] = row
        /\ \A x \in DOMAIN g.ext : x # e => h.ext[x] = g.ext[x]
    BY <2>2, PutFacts
  <2> QED BY <1>2, <2>1, <2>3 DEF row
<1> QED BY <1>1, <1>2

\* A source other than the skills contributes to an extension: it rewrites the row if
\* it is trusted more, and is recorded for it either way.
Contributes(g, h, e, kind, listed) ==
    /\ Shaped(h)
    /\ \E meta, text, effect : h.ext = Upsert(g, e, meta, text, effect, Authority[kind]).ext
    /\ \E ref : h.provenance = g.provenance \cup {[entity |-> e, kind |-> kind, ref |-> ref]}
    /\ g.edges \subseteq h.edges
    /\ \A x \in h.edges \ g.edges :
        \/ x.kind = "cites"
        \/ x.kind = "derives" /\ x.src = e /\ x.dst \in listed

\* A source that puts its row, and an edge to what the row derives from, keeps a graph sound.
LEMMA Contribution ==
  ASSUME NEW listed, NEW g, Sound(g, listed), NEW e, Len(e) = 3,
         NEW kind \in {"sdk", "openapi", "docs", "labs"},
         kind = "sdk" => Exemplifies(g) = {},
         NEW h, Contributes(g, h, e, kind, listed)
  PROVE  Sound(h, listed) /\ DOMAIN h.ext = DOMAIN g.ext \cup {e}
<1>a. PICK meta, text, effect : h.ext = Upsert(g, e, meta, text, effect, Authority[kind]).ext
  BY DEF Contributes
<1>b. PICK ref : h.provenance = g.provenance \cup {[entity |-> e, kind |-> kind, ref |-> ref]}
  BY DEF Contributes
<1>c. /\ Shaped(h) /\ g.edges \subseteq h.edges
      /\ \A x \in h.edges \ g.edges :
            \/ x.kind = "cites"
            \/ x.kind = "derives" /\ x.src = e /\ x.dst \in listed
  BY DEF Contributes
<1> DEFINE up == Upsert(g, e, meta, text, effect, Authority[kind])
           row == Extension(e, meta, text, effect, Authority[kind])
<1>1. /\ DOMAIN h.ext = DOMAIN g.ext \cup {e}
      /\ \A x \in DOMAIN g.ext : x # e => h.ext[x] = g.ext[x]
      /\ \/ /\ e \in DOMAIN g.ext /\ Authority[kind] <= g.ext[e].authority
            /\ h.ext[e] = g.ext[e]
         \/ /\ e \notin DOMAIN g.ext \/ ~(Authority[kind] <= g.ext[e].authority)
            /\ h.ext[e] = row
  BY <1>a, UpsertFacts DEF Sound
<1>2. /\ row.authority = Authority[kind] /\ row.hash = ContentHash(e, row.text)
      /\ row.deprecatedBy = None /\ row.exemplar = None
  BY ExtensionFacts
<1> HIDE DEF row
<1>3. kind \in Kinds /\ Authority[kind] \in Nat
      /\ \A k \in Kinds : Authority[k] \in Nat
  BY AuthorityFacts DEF Kinds
<1>4. Ranked(h)
  <2>1. ASSUME NEW x \in DOMAIN h.ext, x # e
        PROVE  /\ Len(x) = 3 /\ h.ext[x].authority \in Nat
               /\ \E p \in h.provenance : p.entity = x /\ h.ext[x].authority = Authority[p.kind]
               /\ \A p \in h.provenance :
                     p.entity = x => Authority[p.kind] <= h.ext[x].authority
    <3>1. x \in DOMAIN g.ext /\ h.ext[x] = g.ext[x] BY <1>1, <2>1
    <3>2. /\ Len(x) = 3 /\ g.ext[x].authority \in Nat
          /\ \E p \in g.provenance : p.entity = x /\ g.ext[x].authority = Authority[p.kind]
          /\ \A p \in g.provenance : p.entity = x => Authority[p.kind] <= g.ext[x].authority
      BY <3>1 DEF Sound, Ranked
    <3> QED BY <1>b, <2>1, <3>1, <3>2
  <2> DEFINE q == [entity |-> e, kind |-> kind, ref |-> ref]
  <2>2. q \in h.provenance /\ q.entity = e /\ q.kind = kind BY <1>b
  <2>3. \A p \in h.provenance : p \in g.provenance \/ (p.entity = e /\ p.kind = kind) BY <1>b
  <2> HIDE DEF q
  <2>4. /\ h.ext[e].authority \in Nat
        /\ \E p \in h.provenance : p.entity = e /\ h.ext[e].authority = Authority[p.kind]
        /\ \A p \in h.provenance : p.entity = e => Authority[p.kind] <= h.ext[e].authority
    <3>1. CASE e \in DOMAIN g.ext /\ Authority[kind] <= g.ext[e].authority
      <4>1. h.ext[e] = g.ext[e] BY <1>1, <3>1
      <4>2. /\ g.ext[e].authority \in Nat
            /\ \E p \in g.provenance : p.entity = e /\ g.ext[e].authority = Authority[p.kind]
            /\ \A p \in g.provenance : p.entity = e => Authority[p.kind] <= g.ext[e].authority
        BY <3>1 DEF Sound, Ranked
      <4>3. g.provenance \subseteq h.provenance BY <1>b
      <4> QED BY <2>3, <3>1, <4>1, <4>2, <4>3
    <3>2. CASE e \in DOMAIN g.ext /\ ~(Authority[kind] <= g.ext[e].authority)
      <4>1. h.ext[e].authority = Authority[kind] BY <1>1, <1>2, <3>2
      <4>2. /\ g.ext[e].authority \in Nat
            /\ \A p \in g.provenance : p.entity = e => Authority[p.kind] <= g.ext[e].authority
            /\ \A p \in g.provenance : p.kind \in Kinds
        BY <3>2 DEF Sound, Ranked
      <4>3. ASSUME NEW p \in h.provenance, p.entity = e
            PROVE  Authority[p.kind] <= Authority[kind]
        <5>1. CASE p \in g.provenance
          <6>1. Authority[p.kind] \in Nat /\ Authority[p.kind] <= g.ext[e].authority
            BY <1>3, <4>2, <4>3, <5>1
          <6> QED BY <1>3, <3>2, <4>2, <6>1
        <5>2. CASE p.kind = kind BY <1>3, <5>2
        <5> QED BY <2>3, <5>1, <5>2
      <4> QED BY <1>3, <2>2, <4>1, <4>3
    <3>3. CASE e \notin DOMAIN g.ext
      <4>1. h.ext[e].authority = Authority[kind] BY <1>1, <1>2, <3>3
      <4>2. ASSUME NEW p \in g.provenance PROVE p.entity # e
        <5>1. p.entity \in DOMAIN g.ext \/ Len(p.entity) = 2 BY DEF Sound, Ranked
        <5> QED BY <3>3, <5>1
      <4> QED BY <1>3, <2>2, <2>3, <4>1, <4>2
    <3> QED BY <3>1, <3>2, <3>3
  <2>5. ASSUME NEW p \in h.provenance
        PROVE  p.kind \in Kinds /\ (p.entity \in DOMAIN h.ext \/ Len(p.entity) = 2)
    BY <1>1, <1>3, <2>3 DEF Sound, Ranked
  <2> QED BY <2>1, <2>4, <2>5 DEF Ranked
<1>5. Hashed(h)
  <2> SUFFICES ASSUME NEW x \in DOMAIN h.ext
               PROVE  h.ext[x].hash \in {Blank, ContentHash(x, h.ext[x].text)}
    BY DEF Hashed
  <2> QED BY <1>1, <1>2 DEF Sound, Hashed
<1>6. Grounded(h, listed)
  <2>1. ASSUME NEW x \in h.edges
        PROVE  /\ x.kind \in {"derives", "deprecates"} => x.src \in DOMAIN h.ext
               /\ x.kind \in {"deprecates", "exemplifies"} => x.dst \in DOMAIN h.ext
               /\ x.kind = "derives" => x.dst \in listed
    <3>1. CASE x \in g.edges BY <1>1, <3>1 DEF Sound, Grounded
    <3>2. CASE x \notin g.edges
      <4>1. \/ x.kind = "cites"
            \/ x.kind = "derives" /\ x.src = e /\ x.dst \in listed
        BY <1>c, <3>2
      <4> QED BY <1>1, <4>1
    <3> QED BY <3>1, <3>2
  <2>2. ASSUME NEW x \in DOMAIN h.ext, h.ext[x].deprecatedBy # None
        PROVE  [src |-> x, dst |-> h.ext[x].deprecatedBy, kind |-> "deprecates"] \in h.edges
    <3>1. x \in DOMAIN g.ext /\ h.ext[x] = g.ext[x] BY <1>1, <1>2, <2>2
    <3> QED BY <1>c, <2>2, <3>1 DEF Sound, Grounded
  <2>3. ASSUME NEW x \in Exemplifies(h), h.ext[x.dst].exemplar = None
        PROVE  h.ext[x.dst].authority \in {Authority.openapi, Authority.docs, Authority.labs}
    <3>1. x \in Exemplifies(g) BY <1>c DEF Exemplifies
    <3>2. kind \in {"openapi", "docs", "labs"} BY <3>1
    <3>3. x.dst \in DOMAIN g.ext BY <3>1 DEF Sound, Grounded, Exemplifies
    <3>4. CASE h.ext[x.dst] = g.ext[x.dst]
      BY <2>3, <3>1, <3>4 DEF Sound, Grounded
    <3>5. CASE h.ext[x.dst] = row
      <4>1. h.ext[x.dst].authority = Authority[kind] BY <1>2, <3>5
      <4> QED BY <3>2, <4>1
    <3> QED BY <1>1, <3>3, <3>4, <3>5
  <2> QED BY <2>1, <2>2, <2>3 DEF Grounded
<1> QED BY <1>c, <1>1, <1>4, <1>5, <1>6 DEF Sound

\* An entity that defines an extension.
LEMMA Derivation ==
  ASSUME NEW listed, NEW g, Sound(g, listed), NEW e, Len(e) = 3,
         NEW kind \in {"sdk", "openapi", "labs"},
         kind = "sdk" => Exemplifies(g) = {},
         NEW meta, NEW text, NEW effect, NEW x, x.id \in listed
  PROVE  LET h == Derive(g, kind, meta, e, x, text, effect) IN
         /\ Sound(h, listed) /\ DOMAIN h.ext = DOMAIN g.ext \cup {e}
         /\ Exemplifies(h) = Exemplifies(g)
<1> DEFINE up == Upsert(g, e, meta, text, effect, Authority[kind])
           h == Derive(g, kind, meta, e, x, text, effect)
           edge == [src |-> e, dst |-> x.id, kind |-> "derives"]
           prov == [entity |-> e, kind |-> kind, ref |-> x.id]
<1>1. Shaped(up) /\ up.edges = g.edges /\ up.provenance = g.provenance
  BY UpsertFacts DEF Sound
<1>2. /\ h.ext = up.ext /\ h.edges = g.edges \cup {edge}
      /\ h.provenance = g.provenance \cup {prov}
      /\ h = [ext |-> h.ext, edges |-> h.edges, provenance |-> h.provenance,
              contributing |-> h.contributing, unlinked |-> h.unlinked]
  <2> HIDE DEF up
  <2>1. up = [ext |-> up.ext, edges |-> up.edges, provenance |-> up.provenance,
              contributing |-> up.contributing, unlinked |-> up.unlinked]
    BY <1>1 DEF Shaped
  <2>2. h = Attribute(Edge(Contribute(up, meta, kind), e, x.id, "derives"), e, kind, x.id)
    BY DEF Derive, up
  <2> QED BY <1>1, <2>1, <2>2 DEF Attribute, Edge, Contribute
<1> HIDE DEF h, up
<1>3. Shaped(h) BY <1>1, <1>2 DEF Shaped
<1>4. edge.kind = "derives" /\ edge.src = e /\ edge.dst = x.id OBVIOUS
<1>5. Sound(h, listed) /\ DOMAIN h.ext = DOMAIN g.ext \cup {e}
  <2>1. h.ext = Upsert(g, e, meta, text, effect, Authority[kind]).ext BY <1>2 DEF up
  <2>2. h.provenance = g.provenance \cup {[entity |-> e, kind |-> kind, ref |-> x.id]}
    BY <1>2
  <2>3. g.edges \subseteq h.edges BY <1>2
  <2>4. \A y \in h.edges \ g.edges :
           \/ y.kind = "cites"
           \/ y.kind = "derives" /\ y.src = e /\ y.dst \in listed
    BY <1>2, <1>4
  <2>5. kind \in {"sdk", "openapi", "docs", "labs"} OBVIOUS
  <2>6. Contributes(g, h, e, kind, listed) BY <1>3, <2>1, <2>2, <2>3, <2>4 DEF Contributes
  <2> QED BY <2>5, <2>6, Contribution
<1>6. Exemplifies(h) = Exemplifies(g) BY <1>2, <1>4 DEF Exemplifies
<1> QED BY <1>5, <1>6 DEF h

\* What the properties look at is left alone.
LEMMA Untouched ==
  ASSUME NEW listed, NEW g, Sound(g, listed), NEW h, Shaped(h),
         h.ext = g.ext, h.edges = g.edges, h.provenance = g.provenance
  PROVE  Sound(h, listed) /\ Exemplifies(h) = Exemplifies(g)
  BY DEF Sound, Ranked, Hashed, Grounded, Exemplifies

\* A skill unlinked takes its own edge away and nothing else.
LEMMA UnlinkedSound ==
  ASSUME NEW listed, NEW g, Sound(g, listed), NEW id
  PROVE  LET h == Unlinked(g, id) IN
         Sound(h, listed) /\ Exemplifies(h) = Exemplifies(g) /\ h.ext = g.ext
<1> DEFINE h == Unlinked(g, id)
<1>1. Shaped(g) BY DEF Sound
<1>2. /\ h = [ext |-> g.ext, edges |-> g.edges, provenance |-> g.provenance,
              contributing |-> g.contributing, unlinked |-> g.unlinked \cup {id}]
  BY <1>1 DEF Unlinked, Shaped
<1> HIDE DEF h
<1>3. h.ext = g.ext /\ h.edges = g.edges /\ h.provenance = g.provenance BY <1>2
<1>4. Shaped(h) BY <1>1, <1>2, <1>3 DEF Shaped
<1>5. Sound(h, listed) /\ Exemplifies(h) = Exemplifies(g) BY <1>3, <1>4, Untouched
<1> QED BY <1>3, <1>5 DEF h

\* An extension's id is a triple, so it is no skill's.
LEMMA Minted == ASSUME NEW meta, NEW slug PROVE Len(Mint(meta, slug)) = 3
  BY DEF Mint

\* The builder starts from a sound graph.
LEMMA EmptySound ==
  ASSUME NEW listed PROVE Sound(EmptyGraph, listed) /\ Exemplifies(EmptyGraph) = {}
<1>1. /\ EmptyGraph.ext = <<>> /\ EmptyGraph.edges = {} /\ EmptyGraph.provenance = {}
      /\ EmptyGraph.unlinked = {}
  BY DEF EmptyGraph
<1>2. DOMAIN EmptyGraph.ext = {} BY <1>1
<1>3. EmptyGraph.ext = [e \in DOMAIN EmptyGraph.ext |-> EmptyGraph.ext[e]] BY <1>1
<1>4. Shaped(EmptyGraph) BY <1>2, <1>3 DEF Shaped, EmptyGraph
<1> QED BY <1>1, <1>2, <1>4 DEF Sound, Ranked, Hashed, Grounded, Exemplifies

-----------------------------------------------------------------------------
(* The builders.                                                            *)

\* The entities of a source are listed.
Lists(s, listed) == List(s) /\ \A x \in ToSet(s) : x.id \in listed

\* The SDK's methods keep a graph sound, and each that is still in use has its row.
LEMMA MethodsSound ==
  ASSUME NEW listed, NEW g, Sound(g, listed), Exemplifies(g) = {},
         NEW ms, Lists(ms, listed)
  PROVE  LET h == FromMethods(g, ms) IN
         /\ Sound(h, listed) /\ Exemplifies(h) = {}
         /\ \A m \in Survivors(ms) : ExtOfMethod(m) \in DOMAIN h.ext
<1>1. PICK f : /\ f[0] = g /\ FromMethods(g, ms) = f[Len(ms)]
               /\ \A n \in 1..Len(ms) : f[n] = FromMethod(ms, f[n - 1], ms[n])
  BY FromMethodsSteps DEF Lists
<1>2. /\ Len(ms) \in Nat /\ ToSet(ms) = {ms[i] : i \in 1..Len(ms)}
      /\ \A i \in 1..Len(ms) : ms[i].id \in listed
  BY ListFacts DEF Lists
<1> DEFINE there(n) == \A i \in 1..n :
                          ms[i] \in Survivors(ms) => ExtOfMethod(ms[i]) \in DOMAIN f[n].ext
           U == {n \in 0..Len(ms) :
                   Sound(f[n], listed) /\ Exemplifies(f[n]) = {} /\ there(n)}
<1>3. 0 \in U BY <1>1, <1>2
<1>4. ASSUME NEW n \in 1..Len(ms), n - 1 \in U PROVE n \in U
  <2> DEFINE m == ms[n]
             h == f[n - 1]
  <2>1. Sound(h, listed) /\ Exemplifies(h) = {} /\ there(n - 1) BY <1>4
  <2>2. m.id \in listed /\ f[n] = FromMethod(ms, h, m) BY <1>1, <1>2
  <2>3. SUFFICES /\ Sound(f[n], listed) /\ Exemplifies(f[n]) = {}
                 /\ DOMAIN h.ext \subseteq DOMAIN f[n].ext
                 /\ m \in Survivors(ms) => ExtOfMethod(m) \in DOMAIN f[n].ext
    <3>1. ASSUME NEW i \in 1..n, ms[i] \in Survivors(ms)
          PROVE  i = n \/ (i \in 1..n - 1 /\ ExtOfMethod(ms[i]) \in DOMAIN h.ext)
      BY <1>2, <2>1, <3>1
    <3> QED BY <1>2, <2>3, <3>1
  <2> HIDE DEF m, h
  <2>4. CASE MetaOfMethod(m) = None
    <3>1. f[n] = Unlinked(h, m.id) BY <2>2, <2>4 DEF FromMethod
    <3>2. Sound(f[n], listed) /\ Exemplifies(f[n]) = {} /\ f[n].ext = h.ext
      BY <2>1, <3>1, UnlinkedSound
    <3> QED BY <2>4, <3>2 DEF Survivors
  <2>5. CASE MetaOfMethod(m) # None /\ PagesOver(ms, m)
    <3>1. f[n] = h BY <2>2, <2>5 DEF FromMethod
    <3> QED BY <2>1, <2>5, <3>1 DEF Survivors
  <2>6. CASE MetaOfMethod(m) # None /\ ~PagesOver(ms, m)
    <3> DEFINE e == ExtOfMethod(m)
               text == Text(m.name, m.text, m.text)
    <3>1. f[n] = Derive(h, "sdk", MetaOfMethod(m), e, m, text, m.effect)
      BY <2>2, <2>6 DEF FromMethod
    <3>2. Len(e) = 3 BY Minted DEF ExtOfMethod
    <3> HIDE DEF e, text
    <3>3. /\ Sound(f[n], listed) /\ DOMAIN f[n].ext = DOMAIN h.ext \cup {e}
          /\ Exemplifies(f[n]) = {}
      BY <2>1, <2>2, <3>1, <3>2, Derivation
    <3> QED BY <3>3 DEF e
  <2> QED BY <2>4, <2>5, <2>6
<1>5. Len(ms) \in U
  <2> HIDE DEF U
  <2> QED BY <1>2, <1>3, <1>4, Trace
<1>6. \A m \in Survivors(ms) : ExtOfMethod(m) \in DOMAIN f[Len(ms)].ext
  BY <1>2, <1>5 DEF Survivors
<1> QED BY <1>1, <1>5, <1>6

\* A deprecated row names the extension its edge ends at.
LEMMA LinkSuccessorSound ==
  ASSUME NEW listed, NEW g, Sound(g, listed), NEW ms, NEW m,
         \A n \in Survivors(ms) : ExtOfMethod(n) \in DOMAIN g.ext
  PROVE  LET h == LinkSuccessor(ms, g, m) IN
         /\ Sound(h, listed) /\ Exemplifies(h) = Exemplifies(g)
         /\ DOMAIN h.ext = DOMAIN g.ext
<1> DEFINE e == ExtOfMethod(m)
           dst == CHOOSE x \in Successor(ms, m) : TRUE
           h == LinkSuccessor(ms, g, m)
           edge == [src |-> e, dst |-> dst, kind |-> "deprecates"]
           row == [g.ext[e] EXCEPT !.deprecatedBy = dst]
<1>1. CASE m \notin Survivors(ms) \/ Successor(ms, m) \subseteq {e}
  BY <1>1 DEF LinkSuccessor
<1>2. CASE m \in Survivors(ms) /\ ~(Successor(ms, m) \subseteq {e})
  <2>1. e \in DOMAIN g.ext BY <1>2
  <2>2. dst \in Successor(ms, m) BY <1>2
  <2>3. dst \in DOMAIN g.ext BY <2>2 DEF Successor
  <2>4. h = Edge([g EXCEPT !.ext[e].deprecatedBy = dst], e, dst, "deprecates")
    BY <1>2 DEF LinkSuccessor
  <2>5. IsRow(g.ext[e]) BY <2>1 DEF Sound, Shaped
  <2> HIDE DEF e, dst, h
  <2>6. /\ IsRow(row) /\ row.authority = g.ext[e].authority /\ row.hash = g.ext[e].hash
        /\ row.text = g.ext[e].text /\ row.exemplar = g.ext[e].exemplar
        /\ row.deprecatedBy = dst
    BY <2>5 DEF IsRow
  <2> HIDE DEF row
  <2>7. h = [ext |-> [g.ext EXCEPT ![e] = row], edges |-> g.edges \cup {edge},
             provenance |-> g.provenance, contributing |-> g.contributing,
             unlinked |-> g.unlinked]
    BY <2>4 DEF Edge, Sound, Shaped, row
  <2>8. /\ h.ext = [g.ext EXCEPT ![e] = row] /\ h.edges = g.edges \cup {edge}
        /\ h.provenance = g.provenance
    BY <2>7
  <2>9. /\ DOMAIN h.ext = DOMAIN g.ext /\ h.ext[e] = row
        /\ \A x \in DOMAIN g.ext : x # e => h.ext[x] = g.ext[x]
    BY <2>1, <2>8 DEF Sound, Shaped
  <2>10. h.ext = [x \in DOMAIN h.ext |-> h.ext[x]] BY <2>8, <2>9
  <2>11. Shaped(h)
    <3>1. \A x \in DOMAIN h.ext : IsRow(h.ext[x]) BY <2>6, <2>9 DEF Sound, Shaped
    <3>2. h = [ext |-> h.ext, edges |-> h.edges, provenance |-> h.provenance,
               contributing |-> h.contributing, unlinked |-> h.unlinked]
      BY <2>7
    <3> QED BY <2>10, <3>1, <3>2 DEF Shaped
  <2>12. \A x \in DOMAIN g.ext : /\ h.ext[x].authority = g.ext[x].authority
                                 /\ h.ext[x].hash = g.ext[x].hash
                                 /\ h.ext[x].text = g.ext[x].text
                                 /\ h.ext[x].exemplar = g.ext[x].exemplar
    BY <2>6, <2>9
  <2>13. edge.kind = "deprecates" /\ edge.src = e /\ edge.dst = dst OBVIOUS
  <2> HIDE DEF edge
  <2>14. Exemplifies(h) = Exemplifies(g) BY <2>8, <2>13 DEF Exemplifies
  <2>15. Ranked(h) BY <2>8, <2>9, <2>12 DEF Sound, Ranked
  <2>16. Hashed(h) BY <2>9, <2>12 DEF Sound, Hashed
  <2>17. Grounded(h, listed)
    <3>1. ASSUME NEW x \in h.edges
          PROVE  /\ x.kind \in {"derives", "deprecates"} => x.src \in DOMAIN h.ext
                 /\ x.kind \in {"deprecates", "exemplifies"} => x.dst \in DOMAIN h.ext
                 /\ x.kind = "derives" => x.dst \in listed
      BY <2>1, <2>3, <2>8, <2>9, <2>13 DEF Sound, Grounded
    <3>2. ASSUME NEW x \in DOMAIN h.ext, h.ext[x].deprecatedBy # None
          PROVE  [src |-> x, dst |-> h.ext[x].deprecatedBy, kind |-> "deprecates"] \in h.edges
      <4>1. CASE x = e BY <2>6, <2>8, <2>9, <4>1 DEF edge
      <4>2. CASE x # e BY <2>8, <2>9, <3>2, <4>2 DEF Sound, Grounded
      <4> QED BY <4>1, <4>2
    <3>3. ASSUME NEW x \in Exemplifies(h), h.ext[x.dst].exemplar = None
          PROVE  h.ext[x.dst].authority \in {Authority.openapi, Authority.docs, Authority.labs}
      <4>1. x \in Exemplifies(g) BY <2>14
      <4>2. x.dst \in DOMAIN g.ext BY <4>1 DEF Sound, Grounded, Exemplifies
      <4> QED BY <2>12, <3>3, <4>1, <4>2 DEF Sound, Grounded
    <3> QED BY <3>1, <3>2, <3>3 DEF Grounded
  <2> QED BY <2>9, <2>11, <2>14, <2>15, <2>16, <2>17 DEF Sound, h
<1> QED BY <1>1, <1>2

\* _build_from_sdk keeps a graph sound, its edges between a method and its successor too.
LEMMA SdkSound ==
  ASSUME NEW listed, NEW g, Sound(g, listed), Exemplifies(g) = {},
         NEW sdk, Lists(sdk.methods, listed)
  PROVE  Sound(BuildFromSdk(g, sdk), listed)
<1> DEFINE ms == sdk.methods
           k == FromMethods(g, ms)
<1>1. /\ Sound(k, listed) /\ \A m \in Survivors(ms) : ExtOfMethod(m) \in DOMAIN k.ext
  BY MethodsSound
<1> HIDE DEF k
<1>2. List(ms) /\ Len(ms) \in Nat BY ListFacts DEF Lists
<1> HIDE DEF ms
<1>3. PICK f : /\ f[0] = k /\ LinkSuccessors(k, ms) = f[Len(ms)]
               /\ \A n \in 1..Len(ms) : f[n] = LinkSuccessor(ms, f[n - 1], ms[n])
  BY <1>2, LinkSuccessorsSteps
<1> DEFINE U == {n \in 0..Len(ms) :
                   /\ Sound(f[n], listed)
                   /\ \A m \in Survivors(ms) : ExtOfMethod(m) \in DOMAIN f[n].ext}
<1>4. 0 \in U BY <1>1, <1>2, <1>3
<1>5. ASSUME NEW n \in 1..Len(ms), n - 1 \in U PROVE n \in U
  <2>1. f[n] = LinkSuccessor(ms, f[n - 1], ms[n]) BY <1>3
  <2>2. Sound(f[n], listed) /\ DOMAIN f[n].ext = DOMAIN f[n - 1].ext
    BY <1>5, <2>1, LinkSuccessorSound
  <2> QED BY <1>2, <1>5, <2>2
<1>6. Len(ms) \in U
  <2> HIDE DEF U
  <2> QED BY <1>2, <1>4, <1>5, Trace
<1>7. BuildFromSdk(g, sdk) = f[Len(ms)] BY <1>3 DEF BuildFromSdk, k, ms
<1> QED BY <1>6, <1>7

\* A skill's pointer that is not broken is an extension id, and the skill has a name.
LEMMA LinkExemplarSound ==
  ASSUME NEW listed, NEW g, Sound(g, listed), NEW skills, NEW s,
         s \notin Broken(skills) => Len(s.ext) = 3 /\ s.id # None
  PROVE  Sound(LinkExemplar(skills, g, s), listed)
<1> DEFINE h == LinkExemplar(skills, g, s)
           e == s.ext
           old == IF e \in DOMAIN g.ext THEN g.ext[e] ELSE Stub(s)
           row == Stamp(old, s)
           put == Put(g, e, row)
           edge == [src |-> s.id, dst |-> e, kind |-> "exemplifies"]
           prov == [entity |-> e, kind |-> "hand_authored", ref |-> s.id]
<1>1. CASE s \in Broken(skills) BY <1>1 DEF LinkExemplar
<1>2. CASE s \notin Broken(skills)
  <2>1. h = Attribute(Edge(put, s.id, e, "exemplifies"), e, "hand_authored", s.id)
    BY <1>2 DEF LinkExemplar
  <2>2. /\ IsRow(Stub(s)) /\ Stub(s).authority = 0 /\ Stub(s).hash = Blank
        /\ Stub(s).deprecatedBy = None
    BY AuthorityFacts DEF Stub, Extension, IsRow, Authority
  <2>3. IsRow(old) BY <2>2 DEF Sound, Shaped
  <2> HIDE DEF old
  <2>4. /\ IsRow(row) /\ row.authority = old.authority /\ row.hash = old.hash
        /\ row.text = old.text /\ row.deprecatedBy = old.deprecatedBy
        /\ row.exemplar = s.id
    BY <2>3 DEF Stamp, IsRow
  <2> HIDE DEF row
  <2>5. /\ Shaped(put) /\ put.edges = g.edges /\ put.provenance = g.provenance
        /\ DOMAIN put.ext = DOMAIN g.ext \cup {e} /\ put.ext[e] = row
        /\ \A x \in DOMAIN g.ext : x # e => put.ext[x] = g.ext[x]
    BY <2>4, PutFacts DEF Sound
  <2> HIDE DEF put, h
  <2>6. /\ h = [ext |-> put.ext, edges |-> put.edges \cup {edge},
                provenance |-> put.provenance \cup {prov},
                contributing |-> put.contributing, unlinked |-> put.unlinked]
    BY <2>1, <2>5 DEF Attribute, Edge, Shaped
  <2>7. /\ h.ext = put.ext /\ h.edges = g.edges \cup {edge}
        /\ h.provenance = g.provenance \cup {prov}
    BY <2>5, <2>6
  <2>8. /\ edge.kind = "exemplifies" /\ edge.dst = e
        /\ prov.entity = e /\ prov.kind = "hand_authored"
    OBVIOUS
  <2> HIDE DEF edge, prov
  <2>9. Shaped(h) BY <2>5, <2>6, <2>7 DEF Shaped
  <2>10. /\ DOMAIN h.ext = DOMAIN g.ext \cup {e} /\ h.ext[e] = row
         /\ \A x \in DOMAIN g.ext : x # e => h.ext[x] = g.ext[x]
    BY <2>5, <2>7
  <2>11. Len(e) = 3 /\ s.id # None BY <1>2
  <2>12. \/ e \in DOMAIN g.ext /\ old = g.ext[e]
         \/ e \notin DOMAIN g.ext /\ old = Stub(s)
    BY DEF old
  <2>13. Ranked(h)
    <3>1. ASSUME NEW x \in DOMAIN g.ext
          PROVE  /\ Len(x) = 3 /\ h.ext[x].authority = g.ext[x].authority
                 /\ h.ext[x].authority \in Nat
                 /\ \E p \in g.provenance : p.entity = x /\ h.ext[x].authority = Authority[p.kind]
                 /\ \A p \in g.provenance : p.entity = x => Authority[p.kind] <= h.ext[x].authority
      <4>1. h.ext[x].authority = g.ext[x].authority BY <2>4, <2>10, <2>12
      <4> QED BY <4>1 DEF Sound, Ranked
    <3>2. ASSUME NEW x \in DOMAIN h.ext
          PROVE  /\ Len(x) = 3 /\ h.ext[x].authority \in Nat
                 /\ \E p \in h.provenance : p.entity = x /\ h.ext[x].authority = Authority[p.kind]
                 /\ \A p \in h.provenance : p.entity = x => Authority[p.kind] <= h.ext[x].authority
      <4>1. CASE x \in DOMAIN g.ext
        <5>1. Authority[prov.kind] = 0 BY <2>8, AuthorityFacts
        <5>2. h.ext[x].authority \in Nat BY <3>1, <4>1
        <5>3. Authority[prov.kind] <= h.ext[x].authority BY <5>1, <5>2
        <5> QED BY <2>7, <3>1, <4>1, <5>3
      <4>2. CASE x \notin DOMAIN g.ext
        <5>1. x = e /\ h.ext[x].authority = 0 BY <2>2, <2>4, <2>10, <2>12, <4>2
        <5>2. \A p \in g.provenance : p.entity # e
          BY <2>11, <4>2, <5>1 DEF Sound, Ranked
        <5>3. Authority[prov.kind] = 0 BY <2>8, AuthorityFacts
        <5> QED BY <2>7, <2>8, <2>11, <5>1, <5>2, <5>3
      <4> QED BY <4>1, <4>2
    <3>3. ASSUME NEW p \in h.provenance
          PROVE  p.kind \in Kinds /\ (p.entity \in DOMAIN h.ext \/ Len(p.entity) = 2)
      BY <2>7, <2>8, <2>10 DEF Sound, Ranked, Kinds
    <3> QED BY <3>2, <3>3 DEF Ranked
  <2>14. Hashed(h)
    <3> SUFFICES ASSUME NEW x \in DOMAIN h.ext
                 PROVE  h.ext[x].hash \in {Blank, ContentHash(x, h.ext[x].text)}
      BY DEF Hashed
    <3>1. CASE x = e BY <2>2, <2>4, <2>10, <2>12, <3>1 DEF Sound, Hashed
    <3>2. CASE x # e BY <2>10, <3>2 DEF Sound, Hashed
    <3> QED BY <3>1, <3>2
  <2>15. Grounded(h, listed)
    <3>1. ASSUME NEW x \in h.edges
          PROVE  /\ x.kind \in {"derives", "deprecates"} => x.src \in DOMAIN h.ext
                 /\ x.kind \in {"deprecates", "exemplifies"} => x.dst \in DOMAIN h.ext
                 /\ x.kind = "derives" => x.dst \in listed
      BY <2>7, <2>8, <2>10 DEF Sound, Grounded
    <3>2. ASSUME NEW x \in DOMAIN h.ext, h.ext[x].deprecatedBy # None
          PROVE  [src |-> x, dst |-> h.ext[x].deprecatedBy, kind |-> "deprecates"] \in h.edges
      <4>1. x \in DOMAIN g.ext /\ h.ext[x].deprecatedBy = g.ext[x].deprecatedBy
        BY <2>2, <2>4, <2>10, <2>12, <3>2
      <4> QED BY <2>7, <3>2, <4>1 DEF Sound, Grounded
    <3>3. ASSUME NEW x \in Exemplifies(h), h.ext[x.dst].exemplar = None
          PROVE  h.ext[x.dst].authority \in {Authority.openapi, Authority.docs, Authority.labs}
      <4>1. x.dst # e BY <2>4, <2>10, <2>11, <3>3
      <4>2. x \in Exemplifies(g) BY <2>7, <2>8, <4>1 DEF Exemplifies
      <4>3. x.dst \in DOMAIN g.ext BY <4>2 DEF Sound, Grounded, Exemplifies
      <4> QED BY <2>10, <3>3, <4>1, <4>2, <4>3 DEF Sound, Grounded
    <3> QED BY <3>1, <3>2, <3>3 DEF Grounded
  <2> QED BY <2>9, <2>13, <2>14, <2>15 DEF Sound, h
<1> QED BY <1>1, <1>2

\* What the skills of a bundle or a manifest have in common.
Pointed(skills) ==
    List(skills) /\ \A s \in ToSet(skills) : s.id # None /\ (s.ext # None => Len(s.ext) = 3)

\* _link_exemplars keeps a graph sound, stubs and skills without a pointer included.
LEMMA ExemplarsSound ==
  ASSUME NEW listed, NEW g, Sound(g, listed), NEW skills, Pointed(skills)
  PROVE  Sound(LinkExemplars(g, skills), listed)
<1>1. List(skills) /\ Len(skills) \in Nat
      /\ ToSet(skills) = {skills[i] : i \in 1..Len(skills)}
  BY ListFacts DEF Pointed
<1>2. PICK f : /\ f[0] = g /\ LinkExemplars(g, skills) = f[Len(skills)]
               /\ \A n \in 1..Len(skills) : f[n] = LinkExemplar(skills, f[n - 1], skills[n])
  BY <1>1, LinkExemplarsSteps
<1> DEFINE U == {n \in 0..Len(skills) : Sound(f[n], listed)}
<1>3. 0 \in U BY <1>1, <1>2
<1>4. ASSUME NEW n \in 1..Len(skills), n - 1 \in U PROVE n \in U
  <2> DEFINE s == skills[n]
  <2>1. s \in ToSet(skills) BY <1>1
  <2>2. s \notin Broken(skills) => Len(s.ext) = 3 /\ s.id # None
    BY <2>1 DEF Pointed, Broken
  <2>3. f[n] = LinkExemplar(skills, f[n - 1], s) BY <1>2
  <2> HIDE DEF s
  <2>4. Sound(f[n], listed) BY <1>4, <2>2, <2>3, LinkExemplarSound
  <2> QED BY <1>1, <2>4
<1>5. Len(skills) \in U
  <2> HIDE DEF U
  <2> QED BY <1>1, <1>3, <1>4, Trace
<1> QED BY <1>2, <1>5

\* The rules say which extensions a page may speak of, as a list.
LEMMA TargetsListed == ASSUME NEW p PROVE Len(DocsTargets(p)) \in Nat
<1> DEFINE about == {p.section} \cup ToSet(p.title) \cup p.slug
           ss == [i \in 1..Len(DocsRules) |->
                    IF p.section \in DocsRules[i].sections /\ DocsRules[i].words \cap about # {}
                    THEN <<DocsRules[i]>> ELSE <<>>]
           kept == FlattenSeq(ss)
<1>1. DocsTargets(p) = [i \in 1..Len(kept) |-> kept[i].ext] BY DEF DocsTargets, Keep, Each
<1> HIDE DEF about
<1>2. DocsRules \in Seq(ToSet(DocsRules)) BY RulesAssumption
<1>3. ss \in Seq(Seq(ToSet(DocsRules))) BY <1>2
<1> HIDE DEF ss
<1>4. kept \in Seq(ToSet(DocsRules)) BY <1>3, Flattened
<1> HIDE DEF kept
<1> QED BY <1>1, <1>4

\* _build_from_openapi keeps a graph sound.
LEMMA OpenApiSound ==
  ASSUME NEW listed, NEW g, Sound(g, listed), NEW api, Lists(api.operations, listed)
  PROVE  Sound(BuildFromOpenApi(g, api), listed)
<1> DEFINE os == api.operations
<1>1. /\ List(os) /\ Len(os) \in Nat /\ ToSet(os) = {os[i] : i \in 1..Len(os)}
      /\ \A i \in 1..Len(os) : os[i].id \in listed
  BY ListFacts DEF Lists
<1>2. api.operations = os OBVIOUS
<1> HIDE DEF os
<1>3. PICK f : /\ f[0] = g /\ BuildFromOpenApi(g, api) = f[Len(os)]
               /\ \A n \in 1..Len(os) : f[n] = FromOperation(f[n - 1], os[n])
  BY <1>1, <1>2, FromOperationsSteps
<1> DEFINE U == {n \in 0..Len(os) : Sound(f[n], listed)}
<1>4. 0 \in U BY <1>1, <1>3
<1>5. ASSUME NEW n \in 1..Len(os), n - 1 \in U PROVE n \in U
  <2> DEFINE o == os[n]
             h == f[n - 1]
             meta == MetaOfPath(o.path)
  <2>1. Sound(h, listed) BY <1>5
  <2>2. o.id \in listed /\ f[n] = FromOperation(h, o) BY <1>1, <1>3
  <2>3. SUFFICES Sound(f[n], listed) BY <1>1
  <2> HIDE DEF o, h
  <2>4. CASE meta = None
    <3>1. f[n] = Unlinked(h, o.id) BY <2>2, <2>4 DEF FromOperation
    <3> QED BY <2>1, <3>1, UnlinkedSound
  <2>5. CASE meta # None
    <3> DEFINE e == Mint(meta, SlugOfOperation(o))
               text == Text(o.text, o.text, o.text)
               effect == IF o.effect = None THEN "unclassified" ELSE o.effect
    <3>1. f[n] = Derive(h, "openapi", meta, e, o, text, effect)
      BY <2>2, <2>5 DEF FromOperation
    <3>2. Len(e) = 3 BY Minted
    <3> HIDE DEF e, text, effect, meta
    <3> QED BY <2>1, <2>2, <3>1, <3>2, Derivation
  <2> QED BY <2>4, <2>5
<1>6. Len(os) \in U
  <2> HIDE DEF U
  <2> QED BY <1>1, <1>4, <1>5, Trace
<1> QED BY <1>3, <1>6

\* _build_from_labs keeps a graph sound.
LEMMA LabsSound ==
  ASSUME NEW listed, NEW g, Sound(g, listed), NEW labs, Lists(labs.callables, listed)
  PROVE  Sound(BuildFromLabs(g, labs), listed)
<1> DEFINE cs == labs.callables
<1>1. /\ List(cs) /\ Len(cs) \in Nat /\ ToSet(cs) = {cs[i] : i \in 1..Len(cs)}
      /\ \A i \in 1..Len(cs) : cs[i].id \in listed
  BY ListFacts DEF Lists
<1>2. labs.callables = cs OBVIOUS
<1> HIDE DEF cs
<1>3. CASE labs.repo = None BY <1>3 DEF BuildFromLabs
<1>4. CASE labs.repo # None
  <2>1. PICK f : /\ f[0] = g /\ BuildFromLabs(g, labs) = f[Len(cs)]
                 /\ \A n \in 1..Len(cs) : f[n] = FromCallable(f[n - 1], cs[n])
    BY <1>1, <1>2, <1>4, FromCallablesSteps
  <2> DEFINE U == {n \in 0..Len(cs) : Sound(f[n], listed)}
  <2>2. 0 \in U BY <1>1, <2>1
  <2>3. ASSUME NEW n \in 1..Len(cs), n - 1 \in U PROVE n \in U
    <3> DEFINE c == cs[n]
               h == f[n - 1]
               meta == IF c.phase \in DOMAIN PhaseMeta THEN PhaseMeta[c.phase]
                       ELSE LabsDefault
               e == Mint(meta, c.name)
               text == Text(c.name, c.text, c.text)
               effect == IF c.phase = "transpile" THEN "write" ELSE "read"
    <3>1. Sound(h, listed) BY <2>3
    <3>2. c.id \in listed /\ f[n] = FromCallable(h, c) BY <1>1, <2>1
    <3> HIDE DEF c, h
    <3>3. f[n] = h \/ f[n] = Derive(h, "labs", meta, e, c, text, effect)
      BY <3>2 DEF FromCallable
    <3>4. Len(e) = 3 BY Minted
    <3> HIDE DEF e, text, effect, meta
    <3>5. Sound(f[n], listed) BY <3>1, <3>2, <3>3, <3>4, Derivation
    <3> QED BY <1>1, <3>5
  <2>4. Len(cs) \in U
    <3> HIDE DEF U
    <3> QED BY <1>1, <2>2, <2>3, Trace
  <2> QED BY <2>1, <2>4
<1> QED BY <1>3, <1>4

\* A page is cited by an entity.
LEMMA CiteFacts ==
  ASSUME NEW g, Shaped(g), NEW e, NEW p
  PROVE  LET h == Cite(g, e, p) IN
         /\ Shaped(h) /\ h.ext = g.ext
         /\ h.provenance = g.provenance \cup {[entity |-> e, kind |-> "docs", ref |-> p.id]}
         /\ g.edges \subseteq h.edges
         /\ \A x \in h.edges \ g.edges : x.kind = "cites"
<1> DEFINE h == Cite(g, e, p)
           cites == {[src |-> e, dst |-> c.id, kind |-> "cites"] : c \in ToSet(p.chunks)}
           prov == [entity |-> e, kind |-> "docs", ref |-> p.id]
<1>1. \A x \in cites : x.kind = "cites" OBVIOUS
<1>2. h = Attribute([g EXCEPT !.edges = @ \cup cites], e, "docs", p.id) BY DEF Cite
<1> HIDE DEF h, cites
<1>3. h = [ext |-> g.ext, edges |-> g.edges \cup cites, provenance |-> g.provenance \cup {prov},
           contributing |-> g.contributing, unlinked |-> g.unlinked]
  BY <1>2 DEF Attribute, Shaped
<1> HIDE DEF prov
<1>4. /\ h.ext = g.ext /\ h.edges = g.edges \cup cites
      /\ h.provenance = g.provenance \cup {prov}
  BY <1>3
<1>5. Shaped(h) BY <1>3, <1>4 DEF Shaped
<1> QED BY <1>1, <1>4, <1>5 DEF h, prov

\* A page that enriches a row keeps a graph sound and adds no row.
LEMMA EnrichSound ==
  ASSUME NEW listed, NEW g, Sound(g, listed), NEW p, NEW e \in DOMAIN g.ext
  PROVE  Sound(Enrich(p, g, e), listed) /\ DOMAIN Enrich(p, g, e).ext = DOMAIN g.ext
<1> DEFINE row == g.ext[e]
           synopsis == IF p.title # <<>> THEN p.title ELSE row.text.synopsis
           text == [row.text EXCEPT !.synopsis = synopsis]
           up == Upsert(g, e, row.meta, text, row.effect, Authority["docs"])
           h == Enrich(p, g, e)
<1>1. h = Cite(up, e, p) BY DEF Enrich
<1> HIDE DEF h, text, row
<1>2. Shaped(up) /\ up.edges = g.edges /\ up.provenance = g.provenance
  BY UpsertFacts DEF Sound
<1>3. /\ Shaped(h) /\ h.ext = up.ext
      /\ h.provenance = up.provenance \cup {[entity |-> e, kind |-> "docs", ref |-> p.id]}
      /\ up.edges \subseteq h.edges
      /\ \A x \in h.edges \ up.edges : x.kind = "cites"
  <2> HIDE DEF up
  <2> QED BY <1>1, <1>2, CiteFacts
<1>4. Contributes(g, h, e, "docs", listed) BY <1>2, <1>3 DEF Contributes
<1>5. Len(e) = 3 BY DEF Sound, Ranked
<1>6. Sound(h, listed) /\ DOMAIN h.ext = DOMAIN g.ext \cup {e}
  BY <1>4, <1>5, Contribution
<1>7. DOMAIN g.ext \cup {e} = DOMAIN g.ext OBVIOUS
<1> QED BY <1>6, <1>7 DEF h

\* A page, with all rows that its rules name, keeps a graph sound.
LEMMA PageSound ==
  ASSUME NEW listed, NEW g, Sound(g, listed), NEW p
  PROVE  Sound(FromPage(g, p), listed)
<1> DEFINE meta == SectionMeta[p.section]
           con == Contribute(g, meta, "docs")
           k == Cite(con, <<"meta", meta>>, p)
           exts == Keep(DocsTargets(p), LAMBDA e : e \in DOMAIN g.ext)
<1>1. CASE p.section \notin DOMAIN SectionMeta
  BY <1>1, UnlinkedSound DEF FromPage
<1>2. CASE p.section \in DOMAIN SectionMeta
  <2>1. FromPage(g, p) = EnrichAll(k, p, exts) BY <1>2 DEF FromPage
  <2>2. /\ Shaped(con) /\ con.ext = g.ext /\ con.edges = g.edges
        /\ con.provenance = g.provenance
    <3>1. Shaped(g) BY DEF Sound
    <3>2. con = [g EXCEPT !.contributing[meta] = @ \cup {"docs"}] BY DEF Contribute
    <3> HIDE DEF con, meta
    <3>3. /\ con.ext = g.ext /\ con.edges = g.edges /\ con.provenance = g.provenance
          /\ con = [ext |-> con.ext, edges |-> con.edges, provenance |-> con.provenance,
                    contributing |-> con.contributing, unlinked |-> con.unlinked]
      BY <3>1, <3>2 DEF Shaped
    <3> QED BY <3>1, <3>3 DEF Shaped
  <2> HIDE DEF con
  <2>3. /\ Shaped(k) /\ k.ext = g.ext
        /\ k.provenance = g.provenance
             \cup {[entity |-> <<"meta", meta>>, kind |-> "docs", ref |-> p.id]}
        /\ g.edges \subseteq k.edges
        /\ \A x \in k.edges \ g.edges : x.kind = "cites"
    BY <2>2, CiteFacts
  <2>4. Sound(k, listed)
    <3> DEFINE id == <<"meta", meta>>
               prov == [entity |-> id, kind |-> "docs", ref |-> p.id]
    <3>1. Len(id) = 2 OBVIOUS
    <3> HIDE DEF id
    <3>2. prov.entity = id /\ prov.kind = "docs" /\ k.provenance = g.provenance \cup {prov}
      BY <2>3 DEF id
    <3> HIDE DEF k, prov
    <3>3. Ranked(k)
      <4>1. ASSUME NEW x \in DOMAIN g.ext
            PROVE  /\ Len(x) = 3 /\ x # id /\ g.ext[x].authority \in Nat
                   /\ \E q \in g.provenance :
                         q.entity = x /\ g.ext[x].authority = Authority[q.kind]
                   /\ \A q \in g.provenance :
                         q.entity = x => Authority[q.kind] <= g.ext[x].authority
        BY <3>1 DEF Sound, Ranked
      <4>2. \A q \in g.provenance : /\ q.kind \in Kinds
                                    /\ q.entity \in DOMAIN g.ext \/ Len(q.entity) = 2
        BY DEF Sound, Ranked
      <4> QED BY <2>3, <3>1, <3>2, <4>1, <4>2 DEF Ranked, Kinds
    <3>4. Hashed(k) BY <2>3 DEF Sound, Hashed
    <3>5. Grounded(k, listed)
      <4>1. \A x \in k.edges : x \in g.edges \/ x.kind = "cites" BY <2>3
      <4>2. Exemplifies(k) = Exemplifies(g) BY <2>3, <4>1 DEF Exemplifies
      <4>3. \A x \in k.edges :
              /\ x.kind \in {"derives", "deprecates"} => x.src \in DOMAIN k.ext
              /\ x.kind \in {"deprecates", "exemplifies"} => x.dst \in DOMAIN k.ext
              /\ x.kind = "derives" => x.dst \in listed
        BY <2>3, <4>1 DEF Sound, Grounded
      <4> QED BY <2>3, <4>2, <4>3 DEF Sound, Grounded
    <3> QED BY <2>3, <3>3, <3>4, <3>5 DEF Sound
  <2>5. List(exts) /\ \A i \in 1..Len(exts) : exts[i] \in DOMAIN k.ext
    <3> DEFINE ts == DocsTargets(p)
               ss == [i \in 1..Len(ts) |-> IF ts[i] \in DOMAIN g.ext THEN <<ts[i]>> ELSE <<>>]
    <3>1. exts = FlattenSeq(ss) BY DEF Keep
    <3>2. Len(ts) \in Nat BY TargetsListed
    <3> HIDE DEF ts
    <3>3. exts \in Seq(DOMAIN g.ext) BY <3>1, <3>2, Chosen
    <3> HIDE DEF exts
    <3> QED BY <2>3, <3>3, ListOf
  <2> HIDE DEF exts, k
  <2>6. PICK f : /\ f[0] = k /\ EnrichAll(k, p, exts) = f[Len(exts)]
                 /\ \A n \in 1..Len(exts) : f[n] = Enrich(p, f[n - 1], exts[n])
    BY <2>5, EnrichAllSteps
  <2>7. Len(exts) \in Nat BY <2>5, ListFacts
  <2> DEFINE U == {n \in 0..Len(exts) :
                     Sound(f[n], listed) /\ DOMAIN f[n].ext = DOMAIN k.ext}
  <2>8. 0 \in U BY <2>4, <2>6, <2>7
  <2>9. ASSUME NEW n \in 1..Len(exts), n - 1 \in U PROVE n \in U
    <3>1. f[n] = Enrich(p, f[n - 1], exts[n]) /\ exts[n] \in DOMAIN f[n - 1].ext
      BY <2>5, <2>6, <2>9
    <3>2. Sound(f[n], listed) /\ DOMAIN f[n].ext = DOMAIN f[n - 1].ext
      BY <2>9, <3>1, EnrichSound
    <3> QED BY <2>7, <2>9, <3>2
  <2>10. Len(exts) \in U
    <3> HIDE DEF U
    <3> QED BY <2>7, <2>8, <2>9, Trace
  <2> QED BY <2>1, <2>6, <2>10
<1> QED BY <1>1, <1>2

\* _build_from_docs keeps a graph sound.
LEMMA DocsSound ==
  ASSUME NEW listed, NEW g, Sound(g, listed), NEW docs, List(docs.pages)
  PROVE  Sound(BuildFromDocs(g, docs), listed)
<1> DEFINE ps == docs.pages
<1>1. List(ps) /\ Len(ps) \in Nat BY ListFacts
<1>2. docs.pages = ps OBVIOUS
<1> HIDE DEF ps
<1>3. PICK f : /\ f[0] = g /\ BuildFromDocs(g, docs) = f[Len(ps)]
               /\ \A n \in 1..Len(ps) : f[n] = FromPage(f[n - 1], ps[n])
  BY <1>1, <1>2, FromPagesSteps
<1> DEFINE U == {n \in 0..Len(ps) : Sound(f[n], listed)}
<1>4. 0 \in U BY <1>1, <1>3
<1>5. ASSUME NEW n \in 1..Len(ps), n - 1 \in U PROVE n \in U
  <2>1. f[n] = FromPage(f[n - 1], ps[n]) BY <1>3
  <2>2. Sound(f[n], listed) BY <1>5, <2>1, PageSound
  <2> QED BY <1>1, <2>2
<1>6. Len(ps) \in U
  <2> HIDE DEF U
  <2> QED BY <1>1, <1>4, <1>5, Trace
<1> QED BY <1>3, <1>6

-----------------------------------------------------------------------------
(* What the adapters make of a source is lists.                             *)

\* The files of a source tree are lists of classes with lists of methods.
SdkTree(tree) ==
    /\ List(tree.files)
    /\ \A f \in ToSet(tree.files) :
        List(f.classes) /\ \A c \in ToSet(f.classes) : List(c.methods)

\* The methods that parse_sdk reports are a list.
LEMMA SdkListed ==
  ASSUME NEW tree, SdkTree(tree)
  PROVE  List(ParseSdk(tree).methods)
<1> DEFINE files == IF tree.found THEN SdkFiles(tree.files) ELSE <<>>
           good == Keep(files, LAMBDA f : f.parses)
           parsed == Each(ParseSdkFile, good)
           given == Each(LAMBDA p : p.previews, parsed)
           previews == FlattenSeq(given)
           dataclasses == UNION {p.dataclasses : p \in ToSet(parsed)}
           methods == Each(LAMBDA m : Resolve(m, previews, dataclasses), previews)
<1>1. ParseSdk(tree).methods = methods BY DEF ParseSdk
<1>2. List(files) /\ ToSet(files) \subseteq ToSet(tree.files)
  <2>1. List(<<>>) /\ ToSet(<<>>) = {} BY DEF List, ToSet
  <2>2. List(SdkFiles(tree.files)) /\ ToSet(SdkFiles(tree.files)) \subseteq ToSet(tree.files)
    <3> DEFINE s == tree.files
               is(f) == /\ {"_internal", "__pycache__"} \cap ToSet(f.path) = {}
                        /\ ~f.private \/ Last(f.path) = "__init__"
                        /\ f.path # <<"__init__">>
               T == {f \in ToSet(s) : is(f)}
               kept == FlattenSeq([i \in 1..Len(s) |-> IF is(s[i]) THEN <<s[i]>> ELSE <<>>])
    <3>1. SdkFiles(s) = kept BY DEF SdkFiles, Keep
    <3>2. List(s) BY DEF SdkTree
    <3> HIDE DEF is, s
    <3>3. \A i \in 1..Len(s) : is(s[i]) <=> s[i] \in T BY <3>2, ListFacts
    <3>4. kept = Filter(s, T) BY <3>3 DEF Filter
    <3> HIDE DEF kept
    <3>5. List(kept) /\ ToSet(kept) \subseteq T BY <3>2, <3>4, Kept
    <3> QED BY <3>1, <3>5 DEF s
  <2> QED BY <2>1, <2>2
<1> HIDE DEF files
<1>3. List(good) /\ ToSet(good) \subseteq ToSet(files)
  <2> DEFINE T == {f \in ToSet(files) : f.parses}
  <2>1. \A i \in 1..Len(files) : files[i].parses <=> files[i] \in T BY <1>2, ListFacts
  <2>2. good = Filter(files, T) BY <2>1 DEF Keep, Filter
  <2> HIDE DEF good
  <2>3. List(good) /\ ToSet(good) \subseteq T BY <1>2, <2>2, Kept
  <2> QED BY <2>3
<1> HIDE DEF good
<1>4. /\ Len(good) \in Nat /\ Len(parsed) = Len(good)
      /\ \A i \in 1..Len(good) : good[i] \in ToSet(tree.files)
                                 /\ parsed[i] = ParseSdkFile(good[i])
  BY <1>2, <1>3, ListFacts DEF Each
<1> HIDE DEF parsed
<1>5. ASSUME NEW i \in 1..Len(good) PROVE List(given[i])
  <2> DEFINE f == good[i]
             module == SdkModule(f)
             is(c) == c.api /\ ~c.dataclass
             services == Keep(f.classes, LAMBDA c : c.api /\ ~c.dataclass)
             of(c) == Each(LAMBDA fn : Preview(module, c, fn), PublicMethods(c))
             all == Each(LAMBDA c : of(c), services)
  <2>1. List(f.classes) /\ \A c \in ToSet(f.classes) : List(c.methods) BY <1>4 DEF SdkTree
  <2>2. given[i] = FlattenSeq(all)
    <3>1. given[i] = parsed[i].previews BY <1>4 DEF Each
    <3>2. parsed[i] = ParseSdkFile(f) BY <1>4
    <3>3. ParseSdkFile(f).previews = FlattenSeq(all) BY DEF ParseSdkFile
    <3> QED BY <3>1, <3>2, <3>3
  <2> HIDE DEF f, module
  <2>3. List(services) /\ ToSet(services) \subseteq ToSet(f.classes)
    <3> DEFINE s == f.classes
               T == {c \in ToSet(s) : is(c)}
    <3>1. \A k \in 1..Len(s) : is(s[k]) <=> s[k] \in T BY <2>1, ListFacts
    <3>2. services = FlattenSeq([k \in 1..Len(s) |-> IF is(s[k]) THEN <<s[k]>> ELSE <<>>])
      BY DEF Keep
    <3> HIDE DEF is
    <3>3. services = Filter(s, T) BY <3>1, <3>2 DEF Filter
    <3> HIDE DEF services, s
    <3>4. List(services) /\ ToSet(services) \subseteq T BY <2>1, <3>3, Kept DEF s
    <3> QED BY <3>4 DEF s
  <2> HIDE DEF services
  <2>4. ASSUME NEW c, List(c.methods) PROVE List(of(c))
    <3> DEFINE s == c.methods
               public(fn) == ~Private(fn.name)
               T == {fn \in ToSet(s) : public(fn)}
               kept == PublicMethods(c)
    <3>1. \A k \in 1..Len(s) : public(s[k]) <=> s[k] \in T BY <2>4, ListFacts
    <3>2. kept = FlattenSeq([k \in 1..Len(s) |-> IF public(s[k]) THEN <<s[k]>> ELSE <<>>])
      BY DEF PublicMethods, Keep
    <3> HIDE DEF public
    <3>3. kept = Filter(s, T) BY <3>1, <3>2 DEF Filter
    <3> HIDE DEF kept, s
    <3>5. List(kept) BY <2>4, <3>3, Kept DEF s
    <3>6. Len(kept) \in Nat BY <3>5, ListFacts
    <3>7. of(c) = [k \in 1..Len(kept) |-> Preview(module, c, kept[k])] BY DEF Each, kept
    <3>8. of(c) = [k \in 1..Len(kept) |-> of(c)[k]] BY <3>7
    <3> HIDE DEF of
    <3> QED BY <3>6, <3>8, Mapped
  <2>5. /\ Len(services) \in Nat
        /\ \A k \in 1..Len(services) : services[k] \in ToSet(f.classes)
    BY <2>3, ListFacts
  <2>6. all = [k \in 1..Len(services) |-> of(services[k])] BY DEF Each
  <2> HIDE DEF of, all
  <2>7. all = [k \in 1..Len(services) |-> all[k]] BY <2>6
  <2>8. \A k \in 1..Len(services) : List(all[k]) BY <2>1, <2>4, <2>5, <2>6
  <2>9. List(FlattenSeq(all)) BY <2>5, <2>7, <2>8, Joined
  <2> QED BY <2>2, <2>9
<1>6. given = [i \in 1..Len(good) |-> given[i]] BY <1>4 DEF Each
<1> HIDE DEF given
<1>7. List(previews) BY <1>4, <1>5, <1>6, Joined
<1> HIDE DEF previews
<1>8. Len(previews) \in Nat BY <1>7, ListFacts
<1>9. methods = [i \in 1..Len(previews) |-> methods[i]] BY DEF Each
<1> HIDE DEF methods
<1> QED BY <1>1, <1>8, <1>9, Mapped

-----------------------------------------------------------------------------
(* The words of a page and its chunks.                                      *)

\* What the parser knows after each of its callbacks.
LEMMA ParseHtmlSteps ==
  ASSUME NEW s, List(s)
  PROVE  \E f : /\ f[0] = NoText /\ ParseHtml(s) = f[Len(s)]
                /\ \A n \in 1..Len(s) : f[n] = Handle(f[n - 1], s[n])
<1> DEFINE after(f, n) == f = [i \in 0..n |-> IF i = 0 THEN NoText ELSE Handle(f[i - 1], s[i])]
           N == Len(s)
           T == {n \in 0..N : \E f : after(f, n)}
<1>1. N \in Nat BY ListFacts
<1>2. 0 \in T
  <2>1. after([i \in 0..0 |-> NoText], 0) OBVIOUS
  <2>2. \E f : after(f, 0) BY <2>1
  <2> HIDE DEF after
  <2> QED BY <1>1, <2>2
<1>3. ASSUME NEW n \in 1..N, n - 1 \in T PROVE n \in T
  <2>1. PICK f : after(f, n - 1) BY <1>3
  <2> DEFINE h == [i \in 0..n |-> IF i = n THEN Handle(f[n - 1], s[n]) ELSE f[i]]
  <2>2. \A i \in 0..n - 1 : f[i] = IF i = 0 THEN NoText ELSE Handle(f[i - 1], s[i]) BY <1>1, <2>1
  <2>3. ASSUME NEW i \in 0..n
        PROVE  h[i] = IF i = 0 THEN NoText ELSE Handle(h[i - 1], s[i])
    <3>1. CASE i = n BY <1>1, <3>1
    <3>2. CASE i # n
      <4>1. i \in 0..n - 1 /\ (i # 0 => i - 1 \in 0..n - 1) BY <1>1, <3>2
      <4>2. h[i] = f[i] /\ (i # 0 => h[i - 1] = f[i - 1]) BY <1>1, <4>1
      <4> QED BY <2>2, <4>1, <4>2
    <3> QED BY <3>1, <3>2
  <2>4. \E k : after(k, n) BY <2>3
  <2> HIDE DEF after
  <2> QED BY <2>4
<1>4. N \in T
  <2> HIDE DEF T
  <2> QED BY <1>1, <1>2, <1>3, Trace
<1> DEFINE f == CHOOSE f : after(f, N)
<1>5. after(f, N) BY <1>4
<1>6. ParseHtml(s) = f[N] BY DEF ParseHtml, Steps, NoText
<1> HIDE DEF f
<1> QED BY <1>1, <1>5, <1>6

\* What the parser knows of a page: its words, and where paragraphs start.
Html(x, W) ==
    /\ {"drop", "level", "heading", "inTitle", "title", "words", "breaks", "newlines",
        "headings"} \subseteq DOMAIN x
    /\ x.words \in Seq(W) /\ x.heading \in Seq(W) /\ x.breaks \in SUBSET Nat

\* Each callback leaves a page of words.
LEMMA HandleHtml ==
  ASSUME NEW W, NEW x, Html(x, W), NEW e,
         e[1] \notin {"start", "end"} => e[2] \in Seq(W)
  PROVE  Html(Handle(x, e), W)
<1> DEFINE tag == e[2]
<1>1. ASSUME NEW y, Html(y, W)
      PROVE  /\ \A v : Html([y EXCEPT !.drop = v], W)
             /\ \A v : Html([y EXCEPT !.newlines = v], W)
             /\ \A v : Html([y EXCEPT !.title = v], W)
             /\ \A v : Html([y EXCEPT !.inTitle = v], W)
             /\ \A v : Html([y EXCEPT !.headings = v], W)
             /\ \A v \in Seq(W) : Html([y EXCEPT !.heading = v], W)
             /\ \A v, w : Html([y EXCEPT !.inTitle = v, !.title = w], W)
             /\ Html([y EXCEPT !.level = 0, !.heading = <<>>], W)
             /\ \A v : Html([y EXCEPT !.level = v, !.heading = <<>>], W)
  BY <1>1 DEF Html
<1>2. ASSUME NEW y, Html(y, W), NEW words \in Seq(W) PROVE Html(Write(y, words), W)
  BY <1>2 DEF Html, Write
<1>3. ASSUME NEW y, Html(y, W), NEW n PROVE Html(NewLines(y, n), W)
  BY <1>1, <1>3 DEF NewLines
<1>4. Html(CloseHeading(x), W)
  <2>1. CASE x.level = 0 \/ x.heading = <<>>
    <3>1. CloseHeading(x) = [x EXCEPT !.level = 0, !.heading = <<>>] BY <2>1 DEF CloseHeading
    <3> QED BY <1>1, <3>1
  <2>2. CASE ~(x.level = 0 \/ x.heading = <<>>)
    <3> DEFINE h == [level |-> x.level, words |-> x.heading]
               a == [x EXCEPT !.headings = Append(@, h)]
               b == Write(NewLines(a, 2), x.heading)
               c == NewLines(b, 2)
    <3>1. CloseHeading(x) = [c EXCEPT !.level = 0, !.heading = <<>>] BY <2>2 DEF CloseHeading
    <3>2. x.heading \in Seq(W) BY DEF Html
    <3>3. Html(a, W) BY <1>1
    <3> HIDE DEF a
    <3>4. Html(b, W) BY <1>2, <1>3, <3>2, <3>3
    <3> HIDE DEF b
    <3>5. Html(c, W) BY <1>3, <3>4
    <3> HIDE DEF c
    <3> QED BY <1>1, <3>1, <3>5
  <2> QED BY <2>1, <2>2
<1>5. CASE e[1] = "start"
  <2>1. Handle(x, e) = HandleStartTag(x, tag) BY <1>5 DEF Handle
  <2> HIDE DEF tag
  <2>2. Html(HandleStartTag(x, tag), W) BY <1>1, <1>3 DEF HandleStartTag
  <2> QED BY <2>1, <2>2
<1>6. CASE e[1] = "end"
  <2>1. Handle(x, e) = HandleEndTag(x, tag) BY <1>6 DEF Handle
  <2> HIDE DEF tag
  <2>2. Html(HandleEndTag(x, tag), W) BY <1>1, <1>3, <1>4 DEF HandleEndTag
  <2> QED BY <2>1, <2>2
<1>7. CASE e[1] \notin {"start", "end"}
  <2>1. Handle(x, e) = HandleData(x, tag) /\ tag \in Seq(W) BY <1>7 DEF Handle
  <2> HIDE DEF tag
  <2>2. x.heading \o tag \in Seq(W) BY <2>1 DEF Html
  <2>3. Html(HandleData(x, tag), W) BY <1>1, <1>2, <2>1, <2>2 DEF HandleData
  <2> QED BY <2>1, <2>3
<1> QED BY <1>5, <1>6, <1>7

\* The parser's words of a page, whatever its tags.
LEMMA PageWords ==
  ASSUME NEW W, NEW html, List(html),
         \A e \in ToSet(html) : e[1] \notin {"start", "end"} => e[2] \in Seq(W)
  PROVE  Html(ParseHtml(html), W)
<1>1. PICK f : /\ f[0] = NoText /\ ParseHtml(html) = f[Len(html)]
               /\ \A n \in 1..Len(html) : f[n] = Handle(f[n - 1], html[n])
  BY ParseHtmlSteps
<1>2. Len(html) \in Nat /\ \A n \in 1..Len(html) : html[n] \in ToSet(html) BY ListFacts
<1> DEFINE U == {n \in 0..Len(html) : Html(f[n], W)}
<1>3. 0 \in U
  <2>1. Html(NoText, W) BY DEF NoText, Html
  <2> QED BY <1>1, <1>2, <2>1
<1>4. ASSUME NEW n \in 1..Len(html), n - 1 \in U PROVE n \in U
  <2>1. Html(Handle(f[n - 1], html[n]), W) BY <1>2, <1>4, HandleHtml
  <2> QED BY <1>1, <1>2, <2>1
<1>5. Len(html) \in U
  <2> HIDE DEF U
  <2> QED BY <1>2, <1>3, <1>4, Trace
<1> QED BY <1>1, <1>5

\* A chunk ends after its number of words or with the text.
Span(c, words) ==
    /\ c.from \in Nat /\ c.upto \in Nat
    /\ c.from <= c.upto /\ c.upto <= words /\ c.upto <= c.from + ChunkWords
    /\ c.upto = words \/ c.upto = c.from + ChunkWords

\* Chunks of a text of some words from some word on: they leave nothing out, each
\* starts after the one before it and repeats at least the overlap of it.
Tiles(cs, from, words) ==
    /\ List(cs)
    /\ \A k \in 1..Len(cs) : Span(cs[k], words)
    /\ from < words => Len(cs) > 0 /\ cs[1].from <= from /\ from - cs[1].from <= Tolerance
    /\ Len(cs) > 0 => cs[Len(cs)].upto = words
    /\ \A k \in 2..Len(cs) : /\ cs[k - 1].from < cs[k].from
                             /\ cs[k].from <= cs[k - 1].upto - OverlapWords

\* chunk_text returns a list of chunks that covers the text.
LEMMA ChunksTile ==
  ASSUME NEW words \in Nat, NEW breaks \in SUBSET Nat
  PROVE  Tiles(ChunkText(words, breaks), 0, words)
<1> DEFINE chunk(c) == LET from == SnapToParagraph(breaks, c)
                           end == from + ChunkWords
                       IN [from |-> from, upto |-> IF end < words THEN end ELSE words]
           next(c) == chunk(c).from + Step
           val(f, c) == IF c >= words THEN <<>>
                        ELSE IF chunk(c).upto = words THEN <<chunk(c)>>
                        ELSE <<chunk(c)>> \o f[next(c)]
           is(f, n) == f = [c \in words - n..words |-> val(f, c)]
           T == {n \in 0..words : \E f : is(f, n)}
<1>1. ChunkWords \in Nat /\ OverlapWords \in Nat /\ Tolerance \in Nat /\ Step > Tolerance
      /\ Step = ChunkWords - OverlapWords
  BY ChunkAssumption DEF Tolerance, Step
<1>2. ASSUME NEW c \in Nat
      PROVE  /\ chunk(c).from \in Nat /\ chunk(c).upto \in Nat
             /\ chunk(c).from <= c /\ c - chunk(c).from <= Tolerance
             /\ chunk(c).upto = words \/ chunk(c).upto = chunk(c).from + ChunkWords
             /\ chunk(c).upto <= words /\ chunk(c).upto <= chunk(c).from + ChunkWords
             /\ c <= words => chunk(c).from <= chunk(c).upto
  <2> DEFINE near == {b \in breaks : b <= c /\ c - b <= Tolerance}
             from == SnapToParagraph(breaks, c)
  <2>1. from \in Nat /\ from <= c /\ c - from <= Tolerance
    <3>1. CASE near = {} BY <1>1, <3>1 DEF SnapToParagraph
    <3>2. CASE near # {}
      <4>1. PICK m \in near : \A k \in near : k <= m
        <5> DEFINE far == {c - b : b \in near}
        <5>0. \A b \in near : b \in Nat /\ c - b \in Nat OBVIOUS
        <5>1. far \subseteq Nat /\ far # {}
          <6> HIDE DEF near
          <6> QED BY <3>2, <5>0
        <5> HIDE DEF far
        <5>2. PICK d \in far : \A k \in far : <<k, d>> \notin OpToRel(<, Nat)
          BY <5>1, NatLessThanWellFounded, WFMin
        <5>3. \A k \in far : ~(k < d) BY <5>1, <5>2 DEF OpToRel
        <5>4. PICK m \in near : d = c - m BY DEF far
        <5>5. ASSUME NEW k \in near PROVE k <= m
          <6>1. c - k \in far /\ k \in Nat /\ m \in Nat BY DEF far
          <6> QED BY <5>3, <5>4, <6>1
        <5> QED BY <5>5
      <4>2. from = CHOOSE b \in near : \A k \in near : k <= b BY <3>2 DEF SnapToParagraph
      <4>3. from \in near BY <4>1, <4>2
      <4> QED BY <4>3
    <3> QED BY <3>1, <3>2
  <2> HIDE DEF from
  <2>2. chunk(c) = [from |-> from,
                    upto |-> IF from + ChunkWords < words THEN from + ChunkWords ELSE words]
    BY DEF from
  <2> QED BY <1>1, <2>1, <2>2
<1>3. ASSUME NEW c \in Nat, c < words, chunk(c).upto # words
      PROVE  /\ next(c) \in c + 1..words
             /\ next(c) = chunk(c).upto - OverlapWords
             /\ next(c) > chunk(c).from + Tolerance
  BY <1>1, <1>2, <1>3
<1> HIDE DEF chunk, next
<1>4. 0 \in T
  <2>1. is([c \in words - 0..words |-> <<>>], 0) OBVIOUS
  <2>2. \E f : is(f, 0) BY <2>1
  <2> HIDE DEF is
  <2> QED BY <2>2
<1>5. ASSUME NEW n \in 1..words, n - 1 \in T PROVE n \in T
  <2>1. PICK f : is(f, n - 1) BY <1>5
  <2> DEFINE h == [c \in words - n..words |-> IF c = words - n THEN val(f, c) ELSE f[c]]
  <2>2. \A c \in words - (n - 1)..words : f[c] = val(f, c) BY <2>1
  <2>3. ASSUME NEW c \in words - n..words PROVE h[c] = val(h, c)
    <3>1. CASE c >= words
      <4>1. c \in words - (n - 1)..words /\ c # words - n BY <3>1
      <4>2. h[c] = f[c] BY <4>1
      <4>3. f[c] = val(f, c) BY <2>2, <4>1
      <4> QED BY <3>1, <4>2, <4>3
    <3>2. CASE c < words
      <4>1. chunk(c).upto # words => next(c) \in words - (n - 1)..words /\ h[next(c)] = f[next(c)]
        BY <1>3, <3>2
      <4>2. val(h, c) = val(f, c) BY <4>1
      <4>3. h[c] = val(f, c)
        <5>1. CASE c = words - n BY <5>1
        <5>2. CASE c # words - n
          <6>1. c \in words - (n - 1)..words BY <5>2
          <6>2. h[c] = f[c] BY <5>2
          <6> QED BY <2>2, <6>1, <6>2
        <5> QED BY <5>1, <5>2
      <4> QED BY <4>2, <4>3
    <3> QED BY <3>1, <3>2
  <2> HIDE DEF val
  <2>4. is(h, n) BY <2>3
  <2>5. \E k : is(k, n) BY <2>4
  <2> HIDE DEF is
  <2> QED BY <2>5
<1>6. words \in T
  <2> HIDE DEF T
  <2> QED BY <1>4, <1>5, Trace
<1> DEFINE f == CHOOSE f : is(f, words)
<1>7. is(f, words) BY <1>6
<1>8. ChunkText(words, breaks) = f[0]
  BY DEF ChunkText, chunk, next
<1> HIDE DEF f
<1>9. ASSUME NEW c \in 0..words
      PROVE  /\ c = words => f[c] = <<>>
             /\ c < words /\ chunk(c).upto = words => f[c] = <<chunk(c)>>
             /\ c < words /\ chunk(c).upto # words => f[c] = <<chunk(c)>> \o f[next(c)]
  <2>1. c \in words - words..words BY <1>9
  <2>2. f[c] = val(f, c)
    <3> HIDE DEF val
    <3> QED BY <1>7, <2>1
  <2> QED BY <2>2
<1> DEFINE U == {n \in 0..words : Tiles(f[words - n], words - n, words)}
           V == {n \in 0..words : \A m \in 0..n : m \in U}
<1>10. 0 \in V
  <2>1. words \in 0..words OBVIOUS
  <2>2. f[words] = <<>> BY <1>9, <2>1
  <2>3. Tiles(<<>>, words, words) BY DEF Tiles, List
  <2>4. words - 0 = words OBVIOUS
  <2> HIDE DEF V
  <2>5. 0 \in U BY <2>2, <2>3, <2>4
  <2> QED BY <2>5 DEF V
<1>11. ASSUME NEW n \in 1..words, n - 1 \in V PROVE n \in V
  <2> DEFINE c == words - n
             cs == f[next(c)]
  <2>1. c \in 0..words /\ c \in Nat /\ c < words OBVIOUS
  <2>2. SUFFICES Tiles(f[c], c, words) BY <1>11
  <2>3. /\ chunk(c).from \in Nat /\ chunk(c).upto \in Nat
        /\ chunk(c).from <= c /\ c - chunk(c).from <= Tolerance
        /\ Span(chunk(c), words)
    BY <1>2, <2>1 DEF Span
  <2>4. CASE chunk(c).upto = words
    <3>1. f[c] = <<chunk(c)>> BY <1>9, <2>1, <2>4
    <3> DEFINE one == <<chunk(c)>>
    <3>2. List(one) /\ Len(one) = 1 /\ one[1] = chunk(c) BY DEF List, ToSet
    <3> HIDE DEF one
    <3>3. Tiles(one, c, words) BY <2>3, <2>4, <3>2 DEF Tiles
    <3> QED BY <3>1, <3>3 DEF one
  <2>5. CASE chunk(c).upto # words
    <3>1. f[c] = <<chunk(c)>> \o cs BY <1>9, <2>1, <2>5
    <3>2. /\ next(c) \in c + 1..words
          /\ next(c) = chunk(c).upto - OverlapWords
          /\ next(c) > chunk(c).from + Tolerance
      BY <1>3, <2>1, <2>5
    <3>3. Tiles(cs, next(c), words)
      <4>1. words - next(c) \in 0..n - 1 BY <2>1, <3>2
      <4>2. words - next(c) \in U BY <1>11, <4>1
      <4>3. words - (words - next(c)) = next(c) BY <3>2
      <4> QED BY <4>2, <4>3
    <3>4. next(c) < words
      <4>1. chunk(c).upto <= words /\ chunk(c).upto \in Nat BY <1>2, <2>1
      <4>2. chunk(c).upto < words BY <2>5, <4>1
      <4> QED BY <1>1, <3>2, <4>1, <4>2
    <3> HIDE DEF cs, c
    <3> DEFINE all == <<chunk(c)>> \o cs
               S == {chunk(c)} \cup ToSet(cs)
    <3>5. cs \in Seq(S) /\ <<chunk(c)>> \in Seq(S)
      <4>1. cs \in Seq(ToSet(cs)) BY <3>3 DEF Tiles, List
      <4> QED BY <4>1
    <3>6. /\ all \in Seq(S) /\ Len(all) = Len(cs) + 1 /\ Len(cs) \in Nat
          /\ all[1] = chunk(c) /\ \A k \in 2..Len(cs) + 1 : all[k] = cs[k - 1]
      <4> HIDE DEF S
      <4> QED BY <3>5
    <3> HIDE DEF all, S
    <3>7. List(all) BY <3>6, ListOf
    <3>8. \A k \in 1..Len(all) : Span(all[k], words)
      BY <2>3, <3>3, <3>6 DEF Tiles
    <3>9. Len(cs) > 0 /\ cs[1].from <= next(c) /\ next(c) - cs[1].from <= Tolerance
          /\ cs[Len(cs)].upto = words /\ cs[1].from \in Nat
      BY <3>3, <3>4, <3>6 DEF Tiles, Span
    <3>10. ASSUME NEW k \in 2..Len(all)
           PROVE  all[k - 1].from < all[k].from /\ all[k].from <= all[k - 1].upto - OverlapWords
      <4>1. CASE k = 2
        <5>1. all[k] = cs[1] /\ all[k - 1] = chunk(c) BY <3>6, <3>9, <4>1
        <5> DEFINE at == chunk(c).from
                   nx == next(c)
                   first == cs[1].from
                   end == chunk(c).upto
        <5>2. /\ at \in Nat /\ end \in Nat /\ first \in Nat /\ nx = end - OverlapWords
              /\ nx > at + Tolerance /\ first <= nx /\ nx - first <= Tolerance
          BY <2>3, <3>2, <3>9
        <5> HIDE DEF at, nx, first, end
        <5>3. at < first /\ first <= end - OverlapWords BY <1>1, <5>2
        <5> QED BY <5>1, <5>3 DEF at, first, end
      <4>2. CASE k # 2
        <5>1. k - 1 \in 2..Len(cs) /\ all[k] = cs[k - 1] /\ all[k - 1] = cs[(k - 1) - 1]
          BY <3>6, <4>2
        <5> QED BY <3>3, <5>1 DEF Tiles
      <4> QED BY <4>1, <4>2
    <3>11. all[Len(all)].upto = words BY <3>6, <3>9
    <3>12. Tiles(all, c, words) BY <2>3, <3>6, <3>7, <3>8, <3>10, <3>11 DEF Tiles
    <3> QED BY <3>1, <3>12 DEF all
  <2> QED BY <2>4, <2>5
<1>12. words \in V
  <2> HIDE DEF V
  <2> QED BY <1>10, <1>11, Trace
<1>13. words - words = 0 /\ words \in U BY <1>12
<1> QED BY <1>8, <1>13

\* The operations that parse_openapi reports are a list, whatever pages were fetched.
LEMMA OpenApiListed ==
  ASSUME NEW pages, List(pages), NEW cloud
  PROVE  List(ParseOpenApi(Dedupe(Documents(pages, cloud))).operations)
<1> DEFINE is(p) == /\ p.cloud \in {cloud, None}
                    /\ ~p.landing
                    /\ Canonical(p) # None
           kept == Keep(pages, LAMBDA p : /\ p.cloud \in {cloud, None}
                                          /\ ~p.landing
                                          /\ Canonical(p) # None)
           T == {p \in ToSet(pages) : is(p)}
           Single(d) == List(d.operations)
           docs == Documents(pages, cloud)
           ds == Dedupe(docs)
           good == Keep(ds, LAMBDA d : ~Malformed(d))
           parsed == Each(ParseDocument, good)
           given == Each(LAMBDA p : p.operations, parsed)
<1>1. List(kept)
  <2>1. \A i \in 1..Len(pages) : is(pages[i]) <=> pages[i] \in T BY ListFacts
  <2>2. kept = FlattenSeq([i \in 1..Len(pages) |->
                             IF is(pages[i]) THEN <<pages[i]>> ELSE <<>>])
    BY DEF Keep
  <2> HIDE DEF is
  <2>3. kept = Filter(pages, T) BY <2>1, <2>2 DEF Filter
  <2> HIDE DEF kept
  <2> QED BY <2>3, Kept
<1>2. List(docs) /\ \A d \in ToSet(docs) : Single(d)
  <2> DEFINE of(p) == LET c == Canonical(p)
                      IN [url |-> p.id, version |-> c.version, wellFormed |-> TRUE,
                          versioned |-> p.versioned, named |-> p.named,
                          schemas |-> {}, schemes |-> {},
                          operations |-> <<[path |-> c.path, verb |-> c.verb,
                                            operation |-> c.operation, effect |-> None,
                                            refs |-> {}, text |-> p.text]>>]
  <2>1. docs = [i \in 1..Len(kept) |-> of(kept[i])] BY DEF Documents, Each
  <2>2. \A p : Single(of(p))
    <3>1. \A x : List(<<x>>) BY DEF List, ToSet
    <3> QED BY <3>1
  <2>3. Len(kept) \in Nat BY <1>1, ListFacts
  <2> HIDE DEF of, kept, docs, Single
  <2>4. docs = [i \in 1..Len(kept) |-> docs[i]] BY <2>1
  <2>5. List(docs) /\ ToSet(docs) = {docs[i] : i \in 1..Len(kept)} BY <2>3, <2>4, Mapped
  <2> QED BY <2>1, <2>2, <2>5
<1> HIDE DEF docs, kept
<1>3. List(ds) /\ ToSet(ds) \subseteq ToSet(docs)
  <2> DEFINE rank(d) == 2 * Preference(d)[1] + Preference(d)[2]
             best(i) == \A j \in 1..Len(docs) :
                          CanonicalKey(docs[j]) = CanonicalKey(docs[i]) =>
                             \/ rank(docs[j]) < rank(docs[i])
                             \/ rank(docs[j]) = rank(docs[i]) /\ j <= i
             one(i) == IF best(i) THEN <<docs[i]>> ELSE <<>>
             ss == [i \in 1..Len(docs) |-> one(i)]
             S == ToSet(docs)
  <2>1. ds = FlattenSeq(ss) BY DEF Dedupe
  <2>2. Len(docs) \in Nat /\ \A i \in 1..Len(docs) : docs[i] \in S BY <1>2, ListFacts
  <2> HIDE DEF best, S
  <2>3. ASSUME NEW i \in 1..Len(docs) PROVE one(i) \in Seq(S)
    <3>1. CASE best(i) BY <2>2, <3>1
    <3>2. CASE ~best(i) BY <3>2
    <3> QED BY <3>1, <3>2
  <2> HIDE DEF one
  <2>4. ss \in Seq(Seq(S)) BY <2>2, <2>3
  <2> HIDE DEF ss, ds
  <2>5. ds \in Seq(S) BY <2>1, <2>4, Flattened
  <2> QED BY <2>5, ListOf DEF S
<1> HIDE DEF ds
<1>4. List(good) /\ ToSet(good) \subseteq ToSet(ds)
  <2> DEFINE fine(d) == ~Malformed(d)
             F == {d \in ToSet(ds) : fine(d)}
  <2>1. \A i \in 1..Len(ds) : fine(ds[i]) <=> ds[i] \in F BY <1>3, ListFacts
  <2>2. good = FlattenSeq([i \in 1..Len(ds) |-> IF fine(ds[i]) THEN <<ds[i]>> ELSE <<>>])
    BY DEF Keep
  <2> HIDE DEF fine
  <2>3. good = Filter(ds, F) BY <2>1, <2>2 DEF Filter
  <2> HIDE DEF good
  <2>4. List(good) /\ ToSet(good) \subseteq F BY <1>3, <2>3, Kept
  <2> QED BY <2>4
<1>5. ParseOpenApi(ds).operations = FlattenSeq(given) BY DEF ParseOpenApi
<1> HIDE DEF good
<1>6. /\ Len(good) \in Nat /\ Len(parsed) = Len(good)
      /\ \A i \in 1..Len(good) : Single(good[i]) /\ parsed[i] = ParseDocument(good[i])
  <2> HIDE DEF Single
  <2> QED BY <1>2, <1>3, <1>4, ListFacts DEF Each
<1> HIDE DEF parsed
<1>7. ASSUME NEW i \in 1..Len(good) PROVE List(given[i])
  <2> DEFINE d == good[i]
             os == Each(LAMBDA o : ParseOperation(d, o), d.operations)
  <2>1. given[i] = parsed[i].operations BY <1>6 DEF Each
  <2>2. ParseDocument(d).operations = os BY DEF ParseDocument
  <2>3. Len(d.operations) \in Nat BY <1>6, ListFacts
  <2>4. os = [k \in 1..Len(d.operations) |-> ParseOperation(d, d.operations[k])] BY DEF Each
  <2>5. os = [k \in 1..Len(d.operations) |-> os[k]] BY <2>4
  <2> HIDE DEF os
  <2> QED BY <1>6, <2>1, <2>2, <2>3, <2>5, Mapped
<1>8. given = [i \in 1..Len(good) |-> given[i]] BY <1>6 DEF Each
<1> HIDE DEF given
<1>9. List(FlattenSeq(given)) BY <1>6, <1>7, <1>8, Joined
<1> QED BY <1>5, <1>9 DEF ds, docs

\* The public nodes of a module or of a class.
LEMMA PublicListed ==
  ASSUME NEW nodes, List(nodes)
  PROVE  List(PublicNodes(nodes)) /\ ToSet(PublicNodes(nodes)) \subseteq ToSet(nodes)
<1> DEFINE is(n) == ~Private(n.name) \/ n.name = <<"", "", "init", "", "">>
           T == {n \in ToSet(nodes) : is(n)}
           kept == PublicNodes(nodes)
<1>1. \A i \in 1..Len(nodes) : is(nodes[i]) <=> nodes[i] \in T BY ListFacts
<1>2. kept = FlattenSeq([i \in 1..Len(nodes) |-> IF is(nodes[i]) THEN <<nodes[i]>> ELSE <<>>])
  BY DEF PublicNodes, Keep
<1> HIDE DEF is
<1>3. kept = Filter(nodes, T) BY <1>1, <1>2 DEF Filter
<1> HIDE DEF kept
<1>4. List(kept) /\ ToSet(kept) \subseteq T BY <1>3, Kept
<1> QED BY <1>4 DEF kept

\* The files of the labs repository are lists of functions and of classes.
LabsTree(files) ==
    /\ List(files)
    /\ \A f \in ToSet(files) :
        /\ List(f.functions) /\ List(f.classes)
        /\ \A c \in ToSet(f.classes) : List(c.methods)

\* The callables that parse_lakebridge reports are a list.
LEMMA LabsListed ==
  ASSUME NEW files, LabsTree(files)
  PROVE  List(ParseLakebridge(files).callables)
<1> DEFINE is(f) == /\ TestDirs \cap ToSet(f.path) = {}
                    /\ f.private \cap ToSet(Front(f.path)) = {}
                    /\ ~f.test
                    /\ Last(f.path) \notin f.private \/ Last(f.path) = "__init__"
           T == {f \in ToSet(files) : is(f)}
           walked == LabsFiles(files)
           F == {f \in ToSet(walked) : f.parses}
           good == Keep(walked, LAMBDA f : f.parses)
           parsed == Each(ParseLabsFile, good)
           given == Each(LAMBDA p : p.callables, parsed)
<1>1. ParseLakebridge(files).callables = FlattenSeq(given) BY DEF ParseLakebridge
<1>2. List(walked) /\ ToSet(walked) \subseteq ToSet(files)
  <2>1. List(files) BY DEF LabsTree
  <2>2. \A i \in 1..Len(files) : is(files[i]) <=> files[i] \in T BY <2>1, ListFacts
  <2>3. walked = FlattenSeq([i \in 1..Len(files) |->
                               IF is(files[i]) THEN <<files[i]>> ELSE <<>>])
    BY DEF LabsFiles, Keep
  <2> HIDE DEF is
  <2>4. walked = Filter(files, T) BY <2>2, <2>3 DEF Filter
  <2> HIDE DEF walked
  <2>5. List(walked) /\ ToSet(walked) \subseteq T BY <2>1, <2>4, Kept
  <2> QED BY <2>5
<1> HIDE DEF walked
<1>3. List(good) /\ ToSet(good) \subseteq ToSet(walked)
  <2>1. \A i \in 1..Len(walked) : walked[i].parses <=> walked[i] \in F BY <1>2, ListFacts
  <2>2. good = Filter(walked, F) BY <2>1 DEF Keep, Filter
  <2> HIDE DEF good
  <2>3. List(good) /\ ToSet(good) \subseteq F BY <1>2, <2>2, Kept
  <2> QED BY <2>3
<1> HIDE DEF good
<1>4. /\ Len(good) \in Nat /\ Len(parsed) = Len(good)
      /\ \A i \in 1..Len(good) : good[i] \in ToSet(files) /\ parsed[i] = ParseLabsFile(good[i])
  BY <1>2, <1>3, ListFacts DEF Each
<1> HIDE DEF parsed
<1>5. ASSUME NEW i \in 1..Len(good) PROVE List(given[i])
  <2> DEFINE f == good[i]
             module == LabsModule(f)
             functions == PublicNodes(f.functions)
             classes == PublicNodes(f.classes)
             own == Each(LAMBDA fn : Callable(module, None, fn), functions)
             theirs == Each(LAMBDA c : MethodsOf(module, c), classes)
  <2>1. /\ List(f.functions) /\ List(f.classes)
        /\ \A c \in ToSet(f.classes) : List(c.methods)
    BY <1>4 DEF LabsTree
  <2>2. given[i] = own \o FlattenSeq(theirs)
    <3>1. given[i] = parsed[i].callables /\ parsed[i] = ParseLabsFile(f) BY <1>4 DEF Each
    <3>2. ParseLabsFile(f).callables = own \o FlattenSeq(theirs) BY DEF ParseLabsFile
    <3> QED BY <3>1, <3>2
  <2>3. /\ Len(functions) \in Nat /\ Len(classes) \in Nat
        /\ \A k \in 1..Len(classes) : List(classes[k].methods)
    BY <2>1, PublicListed, ListFacts
  <2> HIDE DEF f, module, functions, classes
  <2>4. List(own)
    <3>1. own = [k \in 1..Len(functions) |-> own[k]] BY DEF Each
    <3> HIDE DEF own
    <3> QED BY <2>3, <3>1, Mapped
  <2>5. ASSUME NEW k \in 1..Len(classes) PROVE List(theirs[k])
    <3> DEFINE c == classes[k]
               ns == PublicNodes(c.methods)
               ms == MethodsOf(module, c)
    <3>1. theirs[k] = ms BY DEF Each
    <3>2. Len(ns) \in Nat BY <2>3, PublicListed, ListFacts
    <3>3. ms = [n \in 1..Len(ns) |-> Callable(module, c.name, ns[n])] BY DEF MethodsOf, Each
    <3>4. ms = [n \in 1..Len(ns) |-> ms[n]] BY <3>3
    <3> HIDE DEF ms, ns
    <3> QED BY <3>1, <3>2, <3>4, Mapped
  <2>6. theirs = [k \in 1..Len(classes) |-> theirs[k]] BY DEF Each
  <2> HIDE DEF theirs, own
  <2>7. List(FlattenSeq(theirs)) BY <2>3, <2>5, <2>6, Joined
  <2>8. ASSUME NEW a, NEW b, List(a), List(b) PROVE List(a \o b)
    <3> DEFINE S == ToSet(a) \cup ToSet(b)
    <3>1. a \in Seq(S) /\ b \in Seq(S) BY <2>8 DEF List
    <3> HIDE DEF S
    <3>2. a \o b \in Seq(S) BY <3>1
    <3> QED BY <3>2, ListOf
  <2> QED BY <2>2, <2>4, <2>7, <2>8
<1>6. given = [i \in 1..Len(good) |-> given[i]] BY <1>4 DEF Each
<1> HIDE DEF given
<1>7. List(FlattenSeq(given)) BY <1>4, <1>5, <1>6, Joined
<1> QED BY <1>1, <1>7

\* Fetched pages are lists of what the parser calls back with; data is words.
HtmlPages(pages) ==
    /\ List(pages)
    /\ \A p \in ToSet(pages) :
        /\ List(p.html)
        /\ \A e \in ToSet(p.html) : e[1] \notin {"start", "end"} => List(e[2])

\* The chunks of a page are a list, cover its words, and their hashes tell their words.
Chunked(p) ==
    /\ \E words \in Nat : Tiles(p.chunks, 0, words)
    /\ \A c \in ToSet(p.chunks) : \E id, i : c.hash = <<"chunk", id, i, c.text>>

\* A page is cut into chunks of the words that the parser reads.
LEMMA PageTiles ==
  ASSUME NEW p, List(p.html),
         \A e \in ToSet(p.html) : e[1] \notin {"start", "end"} => List(e[2])
  PROVE  LET words == ParseHtml(p.html).words
             cs == ParsePage(p).chunks
         IN /\ List(words) /\ Tiles(cs, 0, Len(words))
            /\ \A i \in 1..Len(cs) :
                /\ cs[i].text = SubSeq(words, cs[i].from + 1, cs[i].upto)
                /\ \E id : cs[i].hash = <<"chunk", id, i, cs[i].text>>
<1> DEFINE W == UNION {ToSet(e[2]) : e \in {e \in ToSet(p.html) : e[1] \notin {"start", "end"}}}
           x == ParseHtml(p.html)
           n == Len(x.words)
           cut == ChunkText(n, x.breaks \cup {0})
           id == <<"page", CorpusCloud(p.url), p.url.path>>
           text(i) == SubSeq(x.words, cut[i].from + 1, cut[i].upto)
           chunk(i) == [id |-> <<"chunk", id, i>>, text |-> text(i), from |-> cut[i].from,
                        upto |-> cut[i].upto, hash |-> <<"chunk", id, i, text(i)>>,
                        path |-> HeadingPath(x.words, x.headings, cut[i].from)]
           cs == [i \in 1..Len(cut) |-> chunk(i)]
<1>1. ParsePage(p).chunks = cs BY DEF ParsePage
<1>2. ASSUME NEW e \in ToSet(p.html), e[1] \notin {"start", "end"} PROVE e[2] \in Seq(W)
  <2>1. e[2] \in Seq(ToSet(e[2])) /\ ToSet(e[2]) \subseteq W BY <1>2 DEF List
  <2> HIDE DEF W
  <2> QED BY <2>1
<1> HIDE DEF W
<1>3. Html(x, W) BY <1>2, PageWords
<1> HIDE DEF x
<1>4. n \in Nat /\ x.breaks \cup {0} \in SUBSET Nat BY <1>3 DEF Html
<1> HIDE DEF n
<1>5. Tiles(cut, 0, n) BY <1>4, ChunksTile
<1> HIDE DEF cut, id
<1>6. Len(cut) \in Nat BY <1>5, ListFacts DEF Tiles
<1>7. \A i \in 1..Len(cut) : /\ cs[i].from = cut[i].from /\ cs[i].upto = cut[i].upto
                             /\ cs[i].text = text(i)
                             /\ cs[i].hash = <<"chunk", id, i, cs[i].text>>
  <2> HIDE DEF text
  <2> QED OBVIOUS
<1>8. cs = [i \in 1..Len(cut) |-> cs[i]] OBVIOUS
<1> HIDE DEF cs
<1>9. List(cs) /\ Len(cs) = Len(cut) /\ ToSet(cs) = {cs[i] : i \in 1..Len(cut)}
  BY <1>6, <1>8, Mapped
<1>10. Tiles(cs, 0, n)
  <2>1. \A i \in 1..Len(cs) : cs[i].from = cut[i].from /\ cs[i].upto = cut[i].upto
    BY <1>7, <1>9
  <2>2. Len(cs) > 0 => 1 \in 1..Len(cs) /\ Len(cs) \in 1..Len(cs) BY <1>6, <1>9
  <2>3. \A k \in 1..Len(cs) : Span(cs[k], n)
    BY <1>5, <1>9, <2>1 DEF Tiles, Span
  <2>4. 0 < n => Len(cs) > 0 /\ cs[1].from <= 0 /\ 0 - cs[1].from <= Tolerance
    BY <1>5, <1>9, <2>1, <2>2 DEF Tiles
  <2>5. Len(cs) > 0 => cs[Len(cs)].upto = n BY <1>5, <1>9, <2>1, <2>2 DEF Tiles
  <2>6. ASSUME NEW k \in 2..Len(cs)
        PROVE  cs[k - 1].from < cs[k].from /\ cs[k].from <= cs[k - 1].upto - OverlapWords
    <3>1. k \in 1..Len(cs) /\ k - 1 \in 1..Len(cs) BY <1>6, <1>9
    <3> QED BY <1>5, <1>9, <2>1, <3>1 DEF Tiles
  <2> QED BY <1>9, <2>3, <2>4, <2>5, <2>6 DEF Tiles
<1>11. \A i \in 1..Len(cs) : /\ cs[i].text = SubSeq(x.words, cs[i].from + 1, cs[i].upto)
                             /\ \E k : cs[i].hash = <<"chunk", k, i, cs[i].text>>
  BY <1>7, <1>9
<1>12. List(x.words) BY <1>3, ListOf DEF Html
<1> QED BY <1>1, <1>10, <1>11, <1>12 DEF n, x

\* What parse_docs reports of a page is chunked.
LEMMA PageChunked ==
  ASSUME NEW p, List(p.html),
         \A e \in ToSet(p.html) : e[1] \notin {"start", "end"} => List(e[2])
  PROVE  Chunked(ParsePage(p))
<1> DEFINE words == ParseHtml(p.html).words
           cs == ParsePage(p).chunks
<1>1. /\ List(words) /\ Tiles(cs, 0, Len(words))
      /\ \A i \in 1..Len(cs) : \E id : cs[i].hash = <<"chunk", id, i, cs[i].text>>
  BY PageTiles
<1> HIDE DEF words
<1>2. Len(words) \in Nat BY <1>1, ListFacts
<1> HIDE DEF cs
<1>3. ToSet(cs) = {cs[i] : i \in 1..Len(cs)} BY <1>1, ListFacts DEF Tiles
<1>4. \A c \in ToSet(cs) : \E k, i : c.hash = <<"chunk", k, i, c.text>> BY <1>1, <1>3
<1> QED BY <1>1, <1>2, <1>4 DEF Chunked, cs

\* The pages that parse_docs reports are a list of chunked pages.
LEMMA DocsListed ==
  ASSUME NEW pages, HtmlPages(pages)
  PROVE  LET ps == ParseDocs(pages).pages
         IN List(ps) /\ \A p \in ToSet(ps) : Chunked(p)
<1> DEFINE is(p) == IsSkillBearing(p.url)
           T == {p \in ToSet(pages) : is(p)}
           kept == Keep(pages, LAMBDA p : IsSkillBearing(p.url))
           ps == Each(ParsePage, kept)
<1>1. ParseDocs(pages).pages = ps BY DEF ParseDocs
<1>2. List(kept) /\ ToSet(kept) \subseteq ToSet(pages)
  <2>1. List(pages) BY DEF HtmlPages
  <2>2. \A i \in 1..Len(pages) : is(pages[i]) <=> pages[i] \in T BY <2>1, ListFacts
  <2>3. kept = FlattenSeq([i \in 1..Len(pages) |->
                             IF is(pages[i]) THEN <<pages[i]>> ELSE <<>>])
    BY DEF Keep
  <2> HIDE DEF is
  <2>4. kept = Filter(pages, T) BY <2>2, <2>3 DEF Filter
  <2> HIDE DEF kept
  <2>5. List(kept) /\ ToSet(kept) \subseteq T BY <2>1, <2>4, Kept
  <2> QED BY <2>5
<1> HIDE DEF kept
<1>3. Len(kept) \in Nat /\ \A i \in 1..Len(kept) : kept[i] \in ToSet(pages) BY <1>2, ListFacts
<1>4. ps = [i \in 1..Len(kept) |-> ParsePage(kept[i])] BY DEF Each
<1>5. \A i \in 1..Len(kept) : Chunked(ParsePage(kept[i]))
  BY <1>3, PageChunked DEF HtmlPages
<1> HIDE DEF ps
<1>6. ps = [i \in 1..Len(kept) |-> ps[i]] BY <1>4
<1>7. List(ps) /\ ToSet(ps) = {ps[i] : i \in 1..Len(kept)} BY <1>3, <1>6, Mapped
<1> QED BY <1>1, <1>4, <1>5, <1>7

\* The artifact g has the rows, edges and ledger of the merged sources m.
Keeps(g, m) == g.ext = m.ext /\ g.edges = m.edges /\ g.provenance = m.provenance

\* The graph of sound sources is sound.
LEMMA BuildSound ==
  ASSUME NEW listed, NEW sdk, NEW skills, NEW openapi, NEW docs, NEW labs,
         sdk # None => Lists(sdk.methods, listed),
         Pointed(skills),
         openapi # None => Lists(openapi.operations, listed),
         docs # None => List(docs.pages),
         labs # None => Lists(labs.callables, listed)
  PROVE  \E m : Sound(m, listed) /\ Keeps(BuildGraph(sdk, skills, openapi, docs, labs), m)
<1> DEFINE m1 == IF sdk = None THEN EmptyGraph ELSE BuildFromSdk(EmptyGraph, sdk)
           m2 == LinkExemplars(m1, skills)
           m3 == IF openapi = None THEN m2 ELSE BuildFromOpenApi(m2, openapi)
           m4 == IF docs = None THEN m3 ELSE BuildFromDocs(m3, docs)
           m5 == IF labs = None THEN m4 ELSE BuildFromLabs(m4, labs)
           g == BuildGraph(sdk, skills, openapi, docs, labs)
<1>1. Sound(m1, listed) BY EmptySound, SdkSound
<1>2. Keeps(g, m5) BY DEF BuildGraph, Keeps
<1> HIDE DEF g, m1
<1>3. Sound(m2, listed) BY <1>1, ExemplarsSound
<1> HIDE DEF m2
<1>4. Sound(m3, listed) BY <1>3, OpenApiSound
<1> HIDE DEF m3
<1>5. Sound(m4, listed) BY <1>4, DocsSound
<1> HIDE DEF m4
<1>6. Sound(m5, listed) BY <1>5, LabsSound
<1> HIDE DEF m5
<1> QED BY <1>2, <1>6 DEF g

-----------------------------------------------------------------------------
(* The job: what is staged and what is built.                               *)

\* What an extraction task leaves of a source.
Parsed(source, a) ==
    /\ source = "sdk" => List(a.methods)
    /\ source = "openapi" => List(a.operations)
    /\ source = "docs" => List(a.pages) /\ \A p \in ToSet(a.pages) : Chunked(p)
    /\ source = "labs" => List(a.callables)

\* The variables that say where the job is.
Placed ==
    /\ day \in 1..Len(Days) /\ settled \in BOOLEAN
    /\ phase \in {"idle", "extract", "embed", "upsert", "promote"}
    /\ plan \in SUBSET Sources /\ DOMAIN staged = Sources

Staged == \A s \in Sources : staged[s] # None => Parsed(s, staged[s])

\* From the graph builder on the run has a graph that is sound for its sources.
Built ==
    phase \in {"embed", "upsert", "promote"} =>
        \E m : Sound(m, Listed) /\ Keeps(graph, m)

\* A page less leaves a list of pages.
LEMMA Removed ==
  ASSUME NEW s, List(s), NEW i \in DOMAIN s
  PROVE  List(RemoveAt(s, i)) /\ ToSet(RemoveAt(s, i)) \subseteq ToSet(s)
<1> DEFINE S == ToSet(s)
<1>1. s \in Seq(S) /\ i \in 1..Len(s) BY DEF List
<1> HIDE DEF S
<1>2. SubSeq(s, 1, i - 1) \in Seq(S)
  <2>1. \A k \in 1..i - 1 : s[k] \in S BY <1>1
  <2> QED BY <1>1, <2>1
<1>3. SubSeq(s, i + 1, Len(s)) \in Seq(S)
  <2>1. \A k \in i + 1..Len(s) : s[k] \in S BY <1>1
  <2> QED BY <1>1, <2>1
<1>4. RemoveAt(s, i) \in Seq(S) BY <1>2, <1>3 DEF RemoveAt
<1> QED BY <1>4, ListOf DEF S

\* What becomes of a source, on any day and whichever page is missing.
LEMMA Extracted ==
  ASSUME NEW d \in 1..Len(Days), NEW s \in Sources
  PROVE  Parsed(s, Artifact[d][s]) /\ \A rest \in Remains[d][s] : Parsed(s, rest)
<1> DEFINE w == World[Days[d]]
<1>1. Days[d] \in DOMAIN World BY IndexingAssumption
<1>2. /\ SdkTree(w.sdk) /\ List(w.openapi) /\ HtmlPages(w.docs) /\ LabsTree(w.labs)
  BY <1>1, WorldAssumption DEF SdkTree, HtmlPages, LabsTree, List
<1>3. /\ Artifact[d][s] = Parse(s, w[s])
      /\ Remains[d][s] = {Parse(s, c) : c \in Fetched(s, w[s])}
  BY DEF Artifact, Remains
<1>4. w.sdk = w["sdk"] /\ w.openapi = w["openapi"] /\ w.docs = w["docs"] /\ w.labs = w["labs"]
  OBVIOUS
<1> HIDE DEF w
<1>5. CASE s = "sdk"
  <2>1. Parse(s, w[s]) = ParseSdk(w.sdk) /\ Fetched(s, w[s]) = {} BY <1>5 DEF Parse, Fetched
  <2>2. List(ParseSdk(w.sdk).methods) BY <1>2, SdkListed
  <2> QED BY <1>3, <1>5, <2>1, <2>2 DEF Parsed
<1>6. CASE s = "labs"
  <2>1. Parse(s, w[s]) = ParseLakebridge(w.labs) /\ Fetched(s, w[s]) = {}
    BY <1>6 DEF Parse, Fetched
  <2>2. List(ParseLakebridge(w.labs).callables) BY <1>2, LabsListed
  <2> QED BY <1>3, <1>6, <2>1, <2>2 DEF Parsed
<1>7. List(<<>>) /\ ToSet(<<>>) = {} BY DEF List, ToSet
<1>8. CASE s = "openapi"
  <2>1. ASSUME NEW c, List(c) PROVE Parsed(s, Parse(s, c))
    <3>1. Parse(s, c) = ParseOpenApi(Dedupe(Documents(c, "aws"))) BY <1>8 DEF Parse
    <3>2. List(ParseOpenApi(Dedupe(Documents(c, "aws"))).operations) BY <2>1, OpenApiListed
    <3> QED BY <1>8, <3>1, <3>2 DEF Parsed
  <2>2. \A c \in Fetched(s, w[s]) : List(c)
    BY <1>2, <1>4, <1>7, <1>8, Removed DEF Fetched
  <2> QED BY <1>2, <1>3, <1>4, <1>8, <2>1, <2>2
<1>9. CASE s = "docs"
  <2>1. ASSUME NEW c, HtmlPages(c) PROVE Parsed(s, Parse(s, c))
    <3>1. Parse(s, c) = ParseDocs(c) BY <1>9 DEF Parse
    <3>2. List(ParseDocs(c).pages) /\ \A p \in ToSet(ParseDocs(c).pages) : Chunked(p)
      BY <2>1, DocsListed
    <3> QED BY <1>9, <3>1, <3>2 DEF Parsed
  <2>2. \A i \in DOMAIN w.docs : HtmlPages(RemoveAt(w.docs, i)) BY <1>2, Removed DEF HtmlPages
  <2>3. HtmlPages(<<>>) BY <1>7 DEF HtmlPages
  <2>4. \A c \in Fetched(s, w[s]) : HtmlPages(c) BY <1>4, <1>9, <2>2, <2>3 DEF Fetched
  <2> QED BY <1>2, <1>3, <1>4, <1>9, <2>1, <2>4
<1> QED BY <1>5, <1>6, <1>8, <1>9 DEF Sources

\* The skills that the builder is given have well-formed pointers or none.
LEMMA SkillsPointed ==
  ASSUME NEW setting \in SkillSettings, HandAuthored(setting) # None
  PROVE  Pointed(HandAuthored(setting))
<1> DEFINE is(x) == x # <<>>
           found == Keep(setting.dirs, LAMBDA x : x # <<>>)
           T == {x \in ToSet(setting.dirs) : is(x)}
<1>1. List(setting.dirs) BY SkillsAssumption DEF List
<1>2. \A skills \in ToSet(setting.dirs) \cup {setting.manifest} :
        skills # None => Pointed(skills)
  BY SkillsAssumption DEF Pointed, List
<1>3. List(found) /\ ToSet(found) \subseteq ToSet(setting.dirs)
  <2>1. \A i \in 1..Len(setting.dirs) : is(setting.dirs[i]) <=> setting.dirs[i] \in T
    BY <1>1, ListFacts
  <2>2. found = FlattenSeq([i \in 1..Len(setting.dirs) |->
                             IF is(setting.dirs[i]) THEN <<setting.dirs[i]>> ELSE <<>>])
    BY DEF Keep
  <2> HIDE DEF is
  <2>3. found = Filter(setting.dirs, T) BY <2>1, <2>2 DEF Filter
  <2> HIDE DEF found
  <2>4. List(found) /\ ToSet(found) \subseteq T BY <1>1, <2>3, Kept
  <2> QED BY <2>4
<1>4. \/ HandAuthored(setting) = setting.manifest
      \/ found # <<>> /\ HandAuthored(setting) = found[1]
  BY DEF HandAuthored
<1> HIDE DEF found
<1>5. CASE HandAuthored(setting) = setting.manifest BY <1>2, <1>5
<1>6. CASE found # <<>> /\ HandAuthored(setting) = found[1]
  <2>1. found \in Seq(ToSet(found)) BY <1>3 DEF List
  <2>2. found[1] \in ToSet(found) BY <1>6, <2>1
  <2> QED BY <1>2, <1>3, <1>6, <2>2
<1> QED BY <1>4, <1>5, <1>6

-----------------------------------------------------------------------------
(* Steps of the job.                                                        *)

\* Only the sources themselves change what they hold.
LEMMA WorldStands == ASSUME Task \/ ExtractFails PROVE day' = day /\ settled' = settled
<1>1. Fault \/ NoFault \/ (\E w : FaultUnless(w)) => day' = day /\ settled' = settled
  BY DEF Fault, NoFault, FaultUnless, worldVars
<1> QED
  BY <1>1 DEF Task, ExtractFails, Plan, Extract, Build, Embed, VsUpsert, Promote

\* A failed task is tried again, or the run ends.
LEMMA FailsFacts ==
  ASSUME Fails
  PROVE  \/ UNCHANGED <<phase, plan, staged, graph, embedded>>
         \/ EndRun
  BY DEF Fails

\* What a step does to the run.
LEMMA Moves ==
  ASSUME Placed, [Next]_vars
  PROVE  \/ EndRun
         \/ UNCHANGED <<phase, plan, staged, graph, embedded>>
         \/ Plan
         \/ \E s \in Sources : Extract(s)
         \/ /\ Build /\ phase = "extract" /\ phase' = "embed"
            /\ UNCHANGED <<plan, staged, embedded>>
         \/ /\ Embed /\ phase = "embed" /\ phase' = "upsert" /\ UNCHANGED <<plan, staged, graph>>
         \/ /\ VsUpsert /\ phase = "upsert" /\ phase' = "promote"
            /\ UNCHANGED <<plan, staged, graph, embedded>>
<1>1. CASE Plan BY <1>1
<1>2. CASE \E s \in Sources : Extract(s) BY <1>2
<1>3. CASE Build
  <2>1. \/ /\ phase = "extract" /\ phase' = "embed" /\ UNCHANGED <<plan, staged, embedded>>
        \/ Fails
    BY <1>3 DEF Build, Goto
  <2> QED BY <1>3, <2>1, FailsFacts
<1>4. CASE Embed
  <2>1. \/ /\ phase = "embed" /\ phase' = "upsert" /\ UNCHANGED <<plan, staged, graph>>
        \/ Fails
    BY <1>4 DEF Embed, Goto
  <2> QED BY <1>4, <2>1, FailsFacts
<1>5. CASE VsUpsert
  <2>1. \/ /\ phase = "upsert" /\ phase' = "promote"
           /\ UNCHANGED <<plan, staged, graph, embedded>>
        \/ EndRun
        \/ Fails
    BY <1>5 DEF VsUpsert, Goto
  <2> QED BY <1>5, <2>1, FailsFacts
<1>6. CASE Promote BY <1>6 DEF Promote
<1>7. CASE ExtractFails BY <1>7 DEF ExtractFails
<1>8. CASE Change \/ Settle BY <1>8 DEF Change, Settle, runVars
<1>9. CASE UNCHANGED vars BY <1>9 DEF vars, runVars
<1> QED BY <1>1, <1>2, <1>3, <1>4, <1>5, <1>6, <1>7, <1>8, <1>9 DEF Next, Task

\* The variables keep to their domains.
LEMMA PlacedInit == Init => Placed
<1>1. Len(Days) \in Nat /\ Len(Days) # 0 BY IndexingAssumption
<1>2. 1 \in 1..Len(Days) BY <1>1
<1> QED BY <1>2 DEF Init, Placed

\* Each step keeps the variables to their domains.
LEMMA PlacedStep == Placed /\ [Next]_vars => Placed'
<1> SUFFICES ASSUME Placed, [Next]_vars PROVE Placed' OBVIOUS
<1>1. day' \in 1..Len(Days) /\ settled' \in BOOLEAN
  <2>1. CASE Task \/ ExtractFails BY <2>1, WorldStands DEF Placed
  <2>2. CASE Change
    <3>1. Len(Days) \in Nat BY IndexingAssumption
    <3> QED BY <2>2, <3>1 DEF Change, Placed
  <2>3. CASE Settle BY <2>3 DEF Settle, Placed
  <2>4. CASE UNCHANGED vars BY <2>4 DEF vars, worldVars, Placed
  <2> QED BY <2>1, <2>2, <2>3, <2>4 DEF Next
<1>2. /\ phase' \in {"idle", "extract", "embed", "upsert", "promote"}
      /\ plan' \in SUBSET Sources /\ DOMAIN staged' = Sources
  <2>1. CASE EndRun BY <2>1 DEF EndRun, Goto
  <2>2. CASE Plan BY <2>2 DEF Plan, Goto, Placed
  <2>3. CASE \E s \in Sources : Extract(s) BY <2>3 DEF Extract, Placed
  <2> QED BY <2>1, <2>2, <2>3, Moves DEF Placed
<1> QED BY <1>1, <1>2 DEF Placed

\* What is staged has the lists that the builder goes through.
LEMMA StagedStep == Placed /\ Staged /\ [Next]_vars => Staged'
<1> SUFFICES ASSUME Placed, Staged, [Next]_vars PROVE Staged' OBVIOUS
<1>1. CASE EndRun BY <1>1 DEF EndRun, Staged
<1>2. CASE Plan BY <1>2 DEF Plan, Staged
<1>3. CASE \E s \in Sources : Extract(s)
  <2>1. PICK s \in Sources : Extract(s) BY <1>3
  <2>2. PICK a : staged' = [staged EXCEPT ![s] = a] /\ Parsed(s, a)
    <3>1. day \in 1..Len(Days) BY DEF Placed
    <3> QED BY <2>1, <3>1, Extracted DEF Extract
  <2> QED BY <2>2 DEF Staged, Placed
<1> QED BY <1>1, <1>2, <1>3, Moves DEF Staged

\* The graph that the run goes on with is sound.
LEMMA BuiltStep == Placed /\ Staged /\ Built /\ [Next]_vars => Built'
<1> SUFFICES ASSUME Placed, Staged, Built, [Next]_vars PROVE Built' OBVIOUS
<1>1. CASE EndRun BY <1>1 DEF EndRun, Goto, Built
<1>2. CASE Plan BY <1>2 DEF Plan, Goto, Built
<1>3. CASE \E s \in Sources : Extract(s) BY <1>3 DEF Extract, Built
<1>4. CASE /\ Build /\ phase = "extract" /\ phase' = "embed" /\ UNCHANGED <<plan, staged, embedded>>
  <2>1. PICK setting \in SkillSettings :
           /\ HandAuthored(setting) # None
           /\ graph' = BuildGraph(Loaded("sdk"), HandAuthored(setting), Loaded("openapi"),
                                  Loaded("docs"), Loaded("labs"))
    <3>1. ~Fails
      <4>1. phase' = "embed" /\ phase = "extract" BY <1>4
      <4> QED BY <4>1, FailsFacts DEF EndRun, Goto
    <3> QED BY <1>4, <3>1 DEF Build
  <2>2. \A s \in Sources : staged[s] # None BY <1>4 DEF Build
  <2>3. Pointed(HandAuthored(setting)) BY <2>1, SkillsPointed
  <2>4. Loaded("sdk") # None => Lists(Loaded("sdk").methods, Listed)
    <3> SUFFICES ASSUME Loaded("sdk") # None PROVE Lists(Loaded("sdk").methods, Listed)
      OBVIOUS
    <3>1. "sdk" \in plan /\ Loaded("sdk") = staged["sdk"] BY DEF Loaded
    <3>2. List(staged["sdk"].methods) BY <2>2 DEF Staged, Parsed, Sources
    <3>3. \A x \in ToSet(staged["sdk"].methods) : x.id \in Listed BY <3>1 DEF Listed
    <3> QED BY <3>1, <3>2, <3>3 DEF Lists
  <2>5. Loaded("openapi") # None => Lists(Loaded("openapi").operations, Listed)
    <3> SUFFICES ASSUME Loaded("openapi") # None
                 PROVE  Lists(Loaded("openapi").operations, Listed)
      OBVIOUS
    <3>1. "openapi" \in plan /\ Loaded("openapi") = staged["openapi"] BY DEF Loaded
    <3>2. List(staged["openapi"].operations) BY <2>2 DEF Staged, Parsed, Sources
    <3>3. \A x \in ToSet(staged["openapi"].operations) : x.id \in Listed BY <3>1 DEF Listed
    <3> QED BY <3>1, <3>2, <3>3 DEF Lists
  <2>6. Loaded("labs") # None => Lists(Loaded("labs").callables, Listed)
    <3> SUFFICES ASSUME Loaded("labs") # None PROVE Lists(Loaded("labs").callables, Listed)
      OBVIOUS
    <3>1. "labs" \in plan /\ Loaded("labs") = staged["labs"] BY DEF Loaded
    <3>2. List(staged["labs"].callables) BY <2>2 DEF Staged, Parsed, Sources
    <3>3. \A x \in ToSet(staged["labs"].callables) : x.id \in Listed BY <3>1 DEF Listed
    <3> QED BY <3>1, <3>2, <3>3 DEF Lists
  <2>7. Loaded("docs") # None => List(Loaded("docs").pages)
    BY <2>2 DEF Loaded, Staged, Parsed, Sources
  <2>8. \E m : Sound(m, Listed) /\ Keeps(graph', m)
    <3> DEFINE sdk == Loaded("sdk")
               openapi == Loaded("openapi")
               docs == Loaded("docs")
               labs == Loaded("labs")
               skills == HandAuthored(setting)
               listed == Listed
               g == BuildGraph(sdk, skills, openapi, docs, labs)
    <3>1. graph' = g BY <2>1
    <3>2. /\ sdk # None => Lists(sdk.methods, listed)
          /\ openapi # None => Lists(openapi.operations, listed)
          /\ docs # None => List(docs.pages)
          /\ labs # None => Lists(labs.callables, listed)
      BY <2>3, <2>4, <2>5, <2>6, <2>7
    <3>3. Pointed(skills) BY <2>3
    <3> HIDE DEF sdk, openapi, docs, labs, skills, listed
    <3>4. \E m : Sound(m, listed) /\ Keeps(g, m) BY <3>2, <3>3, BuildSound
    <3> QED BY <3>1, <3>4 DEF listed
  <2>9. Listed' = Listed BY <1>4 DEF Listed
  <2> QED BY <2>8, <2>9 DEF Built
<1>5. CASE /\ phase \in {"embed", "upsert", "promote"}
           /\ UNCHANGED <<plan, staged, graph>>
  <2>1. Listed' = Listed BY <1>5 DEF Listed
  <2> QED BY <1>5, <2>1 DEF Built
<1>6. CASE UNCHANGED <<phase, plan, staged, graph, embedded>>
  <2>1. Listed' = Listed BY <1>6 DEF Listed
  <2> QED BY <1>6, <2>1 DEF Built
<1> QED BY <1>1, <1>2, <1>3, <1>4, <1>5, <1>6, Moves

\* The graph holds together and its rows are of the best source, in every run.
LEMMA RunsSound == Spec => [](Placed /\ Staged /\ Built)
<1>1. Init => Staged /\ Built BY DEF Init, Staged, Built
<1> QED BY <1>1, PlacedInit, PlacedStep, StagedStep, BuiltStep, PTL DEF Spec

\* Whatever the order the sources are merged in, the most trusted source of an
\* extension has written its row.
THEOREM RowsOfBestSource == Spec => []BestSourceWins
<1>1. Built => BestSourceWins
  <2> SUFFICES ASSUME Built, phase = "embed", NEW e \in DOMAIN graph.ext
               PROVE  LET kinds == {p.kind : p \in {p \in graph.provenance : p.entity = e}}
                      IN /\ \E k \in kinds : graph.ext[e].authority = Authority[k]
                         /\ \A k \in kinds : graph.ext[e].authority >= Authority[k]
    BY DEF BestSourceWins
  <2>1. PICK m : Sound(m, Listed) /\ Keeps(graph, m) BY DEF Built
  <2>2. /\ graph.ext[e].authority \in Nat
        /\ \E p \in graph.provenance : p.entity = e /\ graph.ext[e].authority = Authority[p.kind]
        /\ \A p \in graph.provenance :
              /\ p.kind \in Kinds
              /\ p.entity = e => Authority[p.kind] <= graph.ext[e].authority
    BY <2>1 DEF Sound, Ranked, Keeps
  <2>3. \A k \in Kinds : Authority[k] \in Nat BY AuthorityFacts
  <2> QED BY <2>2, <2>3
<1> QED BY <1>1, RunsSound, PTL

\* Every edge of a built graph ends at what is there, and rows and edges agree.
THEOREM EdgesHold == Spec => []EdgesGrounded
<1>1. Built => EdgesGrounded
  <2> SUFFICES ASSUME Built, phase = "embed" PROVE EdgesGrounded BY DEF EdgesGrounded
  <2>1. PICK m : Sound(m, Listed) /\ Keeps(graph, m) BY DEF Built
  <2> QED BY <2>1 DEF EdgesGrounded, Sound, Grounded, Exemplifies, Keeps
<1> QED BY <1>1, RunsSound, PTL

-----------------------------------------------------------------------------
(* The texts of a run.                                                      *)

\* One list after the other, and one member more.
LEMMA Concatenated ==
  ASSUME NEW a, NEW b, List(a), List(b)
  PROVE  /\ List(a \o b) /\ Len(a \o b) = Len(a) + Len(b)
         /\ ToSet(a \o b) = ToSet(a) \cup ToSet(b)
         /\ \A i \in 1..Len(a) : (a \o b)[i] = a[i]
         /\ \A i \in 1..Len(b) : (a \o b)[Len(a) + i] = b[i]
<1> DEFINE S == ToSet(a) \cup ToSet(b)
           c == a \o b
<1>1. a \in Seq(S) /\ b \in Seq(S) BY DEF List
<1>2. /\ ToSet(a) = {a[i] : i \in 1..Len(a)} /\ ToSet(b) = {b[i] : i \in 1..Len(b)}
      /\ Len(a) \in Nat /\ Len(b) \in Nat
  BY ListFacts
<1>3. /\ c \in Seq(S) /\ Len(c) = Len(a) + Len(b)
      /\ \A i \in 1..Len(a) : c[i] = a[i]
      /\ \A i \in 1..Len(b) : c[Len(a) + i] = b[i]
  <2> HIDE DEF S
  <2> QED BY <1>1
<1> HIDE DEF c
<1>4. List(c) /\ ToSet(c) \subseteq S BY <1>3, ListOf
<1>5. ToSet(c) = {c[i] : i \in 1..Len(c)} BY <1>4, ListFacts
<1>6. S \subseteq ToSet(c)
  <2>1. \A i \in 1..Len(a) : a[i] \in ToSet(c) BY <1>2, <1>3, <1>5
  <2>2. ASSUME NEW i \in 1..Len(b) PROVE b[i] \in ToSet(c)
    <3>1. Len(a) + i \in 1..Len(c) BY <1>2, <1>3
    <3> QED BY <1>3, <1>5, <3>1
  <2> QED BY <1>2, <2>1, <2>2
<1> QED BY <1>3, <1>4, <1>6 DEF c

\* A list with one more member is a list.
LEMMA Appended ==
  ASSUME NEW a, List(a), NEW x
  PROVE  /\ List(Append(a, x)) /\ Len(Append(a, x)) = Len(a) + 1
         /\ ToSet(Append(a, x)) = ToSet(a) \cup {x}
         /\ \A i \in 1..Len(a) : Append(a, x)[i] = a[i]
         /\ Append(a, x)[Len(a) + 1] = x
<1> DEFINE S == ToSet(a) \cup {x}
           c == Append(a, x)
<1>1. a \in Seq(S) /\ x \in S BY DEF List
<1>2. ToSet(a) = {a[i] : i \in 1..Len(a)} /\ Len(a) \in Nat BY ListFacts
<1>3. /\ c \in Seq(S) /\ Len(c) = Len(a) + 1
      /\ \A i \in 1..Len(a) : c[i] = a[i]
      /\ c[Len(a) + 1] = x
  <2> HIDE DEF S
  <2> QED BY <1>1
<1> HIDE DEF c
<1>4. List(c) /\ ToSet(c) \subseteq S BY <1>3, ListOf
<1>5. ToSet(c) = {c[i] : i \in 1..Len(c)} BY <1>4, ListFacts
<1>6. x \in ToSet(c)
  <2>1. Len(a) + 1 \in 1..Len(c) BY <1>2, <1>3
  <2> QED BY <1>3, <1>5, <2>1
<1>7. \A i \in 1..Len(a) : i \in 1..Len(c) /\ a[i] = c[i] BY <1>2, <1>3
<1>8. ToSet(a) \subseteq ToSet(c) BY <1>2, <1>5, <1>7
<1>9. c[Len(a) + 1] = x BY <1>1 DEF c
<1> QED BY <1>3, <1>4, <1>6, <1>8, <1>9 DEF c

\* A key of the index tells the text it stands for; the stubs' key does not.
Encodes(h, t) ==
    h # Blank => \/ Len(h) = 4 /\ t = h[4]
                 \/ Len(h) = 2 /\ t = Prose(h[2])

\* Requests whose hashes tell their texts, and no hash twice.
Telling(rs) ==
    /\ List(rs)
    /\ \A r \in ToSet(rs) : Encodes(r.hash, r.text)
    /\ \A i, j \in 1..Len(rs) : rs[i].hash = rs[j].hash => i = j

\* The docs of a run are chunked pages or none.
Pages(docs) == docs # None => List(docs.pages) /\ \A p \in ToSet(docs.pages) : Chunked(p)

\* The chunks that are to be embedded are a list, hashed with their texts.
LEMMA ChunksListed ==
  ASSUME NEW docs, Pages(docs)
  PROVE  /\ List(Chunks(docs))
         /\ \A c \in ToSet(Chunks(docs)) : \E id, i : c.hash = <<"chunk", id, i, c.text>>
<1>1. CASE docs = None
  <2>1. List(<<>>) /\ ToSet(<<>>) = {} BY DEF List, ToSet
  <2> QED BY <1>1, <2>1 DEF Chunks
<1>2. CASE docs # None
  <2> DEFINE ps == docs.pages
             given == Each(LAMBDA p : p.chunks, ps)
  <2>1. List(ps) /\ \A p \in ToSet(ps) : Chunked(p) BY <1>2 DEF Pages
  <2>2. Chunks(docs) = FlattenSeq(given) BY <1>2 DEF Chunks, ChunksOf
  <2> HIDE DEF ps
  <2>3. Len(ps) \in Nat /\ \A i \in 1..Len(ps) : Chunked(ps[i]) BY <2>1, ListFacts
  <2>4. given = [i \in 1..Len(ps) |-> given[i]] /\ \A i \in 1..Len(ps) : given[i] = ps[i].chunks
    BY DEF Each
  <2> HIDE DEF given
  <2>5. \A i \in 1..Len(ps) : List(given[i]) BY <2>3, <2>4 DEF Chunked, Tiles
  <2>6. /\ List(FlattenSeq(given))
        /\ ToSet(FlattenSeq(given)) \subseteq UNION {ToSet(given[i]) : i \in 1..Len(ps)}
    BY <2>3, <2>4, <2>5, Joined
  <2>7. ASSUME NEW c \in ToSet(FlattenSeq(given))
        PROVE  \E id, i : c.hash = <<"chunk", id, i, c.text>>
    <3>1. PICK i \in 1..Len(ps) : c \in ToSet(given[i]) BY <2>6
    <3> QED BY <2>3, <2>4, <3>1 DEF Chunked
  <2> QED BY <2>2, <2>6, <2>7
<1> QED BY <1>1, <1>2

\* The rows that are to be embedded are a list of rows of the graph.
LEMMA ExtensionsListed ==
  ASSUME NEW g
  PROVE  List(Extensions(g)) /\ \A e \in ToSet(Extensions(g)) : e \in DOMAIN g.ext
<1> DEFINE T == {e \in ToSet(ExtensionOrder) : e \in DOMAIN g.ext}
<1>1. List(ExtensionOrder) BY IndexingAssumption DEF List
<1>2. \A i \in 1..Len(ExtensionOrder) :
        ExtensionOrder[i] \in DOMAIN g.ext <=> ExtensionOrder[i] \in T
  BY <1>1, ListFacts
<1>3. Extensions(g) = Filter(ExtensionOrder, T) BY <1>2 DEF Extensions, Keep, Filter
<1>4. List(Extensions(g)) /\ ToSet(Extensions(g)) \subseteq T BY <1>1, <1>3, Kept
<1> QED BY <1>4

\* The requests are what the loop over the entities keeps of them: one for each hash.
LEMMA DistinctFacts ==
  ASSUME NEW s, List(s)
  PROVE  LET rs == Distinct(s) IN
         /\ List(rs) /\ ToSet(rs) \subseteq ToSet(s)
         /\ \A i, j \in 1..Len(rs) : rs[i].hash = rs[j].hash => i = j
<1>1. PICK f : /\ f[0] = <<>> /\ Distinct(s) = f[Len(s)]
               /\ \A n \in 1..Len(s) : f[n] = Request(f[n - 1], s[n])
  BY DistinctSteps
<1>2. Len(s) \in Nat /\ \A n \in 1..Len(s) : s[n] \in ToSet(s) BY ListFacts
<1> DEFINE ok(rs) == /\ List(rs) /\ ToSet(rs) \subseteq ToSet(s)
                     /\ \A i, j \in 1..Len(rs) : rs[i].hash = rs[j].hash => i = j
           U == {n \in 0..Len(s) : ok(f[n])}
<1>3. 0 \in U
  <2>1. ok(<<>>) BY DEF List, ToSet
  <2> HIDE DEF ok
  <2> QED BY <1>1, <1>2, <2>1
<1>4. ASSUME NEW n \in 1..Len(s), n - 1 \in U PROVE n \in U
  <2> DEFINE rs == f[n - 1]
             r == s[n]
  <2>1. ok(rs) /\ f[n] = Request(rs, r) BY <1>1, <1>4
  <2>2. r \in ToSet(s) BY <1>2
  <2> HIDE DEF rs, r
  <2>3. ok(Request(rs, r))
    <3>1. CASE \E q \in ToSet(rs) : q.hash = r.hash BY <2>1, <3>1 DEF Request
    <3>2. CASE ~(\E q \in ToSet(rs) : q.hash = r.hash)
      <4> DEFINE qs == Append(rs, r)
      <4>1. Request(rs, r) = qs BY <3>2 DEF Request
      <4>2. /\ List(qs) /\ Len(qs) = Len(rs) + 1 /\ ToSet(qs) = ToSet(rs) \cup {r}
            /\ \A i \in 1..Len(rs) : qs[i] = rs[i]
            /\ qs[Len(rs) + 1] = r
        BY <2>1, Appended
      <4>3. /\ Len(rs) \in Nat /\ \A i \in 1..Len(rs) : rs[i].hash # r.hash
            /\ qs[Len(rs) + 1] = r
        BY <2>1, <3>2, ListFacts, Appended
      <4> HIDE DEF qs
      <4>4. ASSUME NEW i \in 1..Len(qs), NEW j \in 1..Len(qs), qs[i].hash = qs[j].hash
            PROVE  i = j
        <5>1. i \in 1..Len(rs) \/ i = Len(rs) + 1 BY <4>2, <4>3
        <5>2. j \in 1..Len(rs) \/ j = Len(rs) + 1 BY <4>2, <4>3
        <5> QED BY <2>1, <4>2, <4>3, <4>4, <5>1, <5>2
      <4> QED BY <2>1, <2>2, <4>1, <4>2, <4>4
    <3> QED BY <3>1, <3>2
  <2> HIDE DEF ok
  <2> QED BY <1>2, <2>1, <2>3
<1>5. Len(s) \in U
  <2> HIDE DEF U
  <2> QED BY <1>2, <1>3, <1>4, Trace
<1> QED BY <1>1, <1>5

\* The requests of a run tell their texts, and the index knows their entities.
LEMMA RequestsFacts ==
  ASSUME NEW g, Hashed(g), NEW docs, Pages(docs)
  PROVE  /\ Telling(Requests(g, docs))
         /\ \A r \in ToSet(Requests(g, docs)) : r.hash \in DOMAIN EntityMetadata(g, docs)
<1> DEFINE chunk(c) == [hash |-> c.hash, text |-> c.text]
           extension(e) == [hash |-> g.ext[e].hash, text |-> Prose(g.ext[e].text)]
           cs == Chunks(docs)
           es == Extensions(g)
           a == Each(chunk, cs)
           b == Each(extension, es)
           rs == Requests(g, docs)
<1>1. /\ List(cs) /\ Len(cs) \in Nat /\ ToSet(cs) = {cs[i] : i \in 1..Len(cs)}
      /\ \A c \in ToSet(cs) : \E id, i : c.hash = <<"chunk", id, i, c.text>>
  BY ChunksListed, ListFacts
<1>2. /\ List(es) /\ Len(es) \in Nat /\ ToSet(es) = {es[i] : i \in 1..Len(es)}
      /\ \A e \in ToSet(es) : e \in DOMAIN g.ext
  BY ExtensionsListed, ListFacts
<1>3. rs = Distinct(a \o b) BY DEF Requests
<1>4. DOMAIN EntityMetadata(g, docs)
        = {c.hash : c \in ToSet(cs)} \cup {g.ext[es[i]].hash : i \in 1..Len(es)}
  BY DEF EntityMetadata
<1>a. \A i \in 1..Len(cs) : chunk(cs[i]).hash = cs[i].hash /\ chunk(cs[i]).text = cs[i].text
  OBVIOUS
<1>b. \A i \in 1..Len(es) : /\ extension(es[i]).hash = g.ext[es[i]].hash
                            /\ extension(es[i]).text = Prose(g.ext[es[i]].text)
  OBVIOUS
<1> HIDE DEF cs, es
<1>5. /\ List(a) /\ ToSet(a) = {a[i] : i \in 1..Len(cs)}
      /\ \A i \in 1..Len(cs) : a[i] = chunk(cs[i])
  <2>1. a = [i \in 1..Len(cs) |-> a[i]] /\ \A i \in 1..Len(cs) : a[i] = chunk(cs[i])
    BY DEF Each
  <2> HIDE DEF a, chunk
  <2> QED BY <1>1, <2>1, Mapped
<1>6. List(b) /\ ToSet(b) = {b[i] : i \in 1..Len(es)}
      /\ \A i \in 1..Len(es) : b[i] = extension(es[i])
  <2>1. b = [i \in 1..Len(es) |-> b[i]] /\ \A i \in 1..Len(es) : b[i] = extension(es[i])
    BY DEF Each
  <2> HIDE DEF b, extension
  <2> QED BY <1>2, <2>1, Mapped
<1> HIDE DEF a, b, rs, chunk, extension
<1>7. List(a \o b) /\ ToSet(a \o b) = ToSet(a) \cup ToSet(b) BY <1>5, <1>6, Concatenated
<1>8. /\ List(rs) /\ ToSet(rs) \subseteq ToSet(a) \cup ToSet(b)
      /\ \A i, j \in 1..Len(rs) : rs[i].hash = rs[j].hash => i = j
  BY <1>3, <1>7, DistinctFacts
<1>9. ASSUME NEW i \in 1..Len(cs)
      PROVE  /\ Encodes(a[i].hash, a[i].text)
             /\ a[i].hash \in DOMAIN EntityMetadata(g, docs)
  <2>1. a[i].hash = cs[i].hash /\ a[i].text = cs[i].text /\ cs[i] \in ToSet(cs) BY <1>1, <1>5, <1>a
  <2>2. PICK id, k : cs[i].hash = <<"chunk", id, k, cs[i].text>> BY <1>1, <2>1
  <2>3. Len(cs[i].hash) = 4 /\ cs[i].hash[4] = cs[i].text BY <2>2
  <2> QED BY <1>4, <2>1, <2>3 DEF Encodes
<1>10. ASSUME NEW i \in 1..Len(es)
       PROVE  /\ Encodes(b[i].hash, b[i].text)
              /\ b[i].hash \in DOMAIN EntityMetadata(g, docs)
  <2> DEFINE row == g.ext[es[i]]
  <2>1. b[i].hash = row.hash /\ b[i].text = Prose(row.text) /\ es[i] \in DOMAIN g.ext
    BY <1>2, <1>6, <1>b
  <2>2. row.hash \in {Blank, <<es[i], row.text>>} BY <2>1 DEF Hashed, ContentHash
  <2>3. row.hash # Blank => Len(row.hash) = 2 /\ row.hash[2] = row.text BY <2>2
  <2>4. row.hash \in DOMAIN EntityMetadata(g, docs) BY <1>4
  <2> HIDE DEF row
  <2> QED BY <2>1, <2>3, <2>4 DEF Encodes
<1> QED BY <1>5, <1>6, <1>8, <1>9, <1>10 DEF Telling, rs

\* The index is told of texts under hashes that tell them.
LEMMA MetadataFacts ==
  ASSUME NEW g, Hashed(g), NEW docs, Pages(docs)
  PROVE  LET em == EntityMetadata(g, docs)
         IN \A h \in DOMAIN em : Encodes(h, em[h].text)
<1> DEFINE chunks == ToSet(Chunks(docs))
           exts == Extensions(g)
           hash(i) == g.ext[exts[i]].hash
           is(h, i) == hash(i) = h /\ \A j \in i + 1..Len(exts) : hash(j) # h
           latest(h) == exts[CHOOSE i \in 1..Len(exts) : is(h, i)]
           em == EntityMetadata(g, docs)
<1>1. \A c \in chunks : \E id, i : c.hash = <<"chunk", id, i, c.text>> BY ChunksListed
<1>2. /\ Len(exts) \in Nat /\ \A i \in 1..Len(exts) : exts[i] \in DOMAIN g.ext
  BY ExtensionsListed, ListFacts
<1>3. em = [h \in {c.hash : c \in chunks} \cup {hash(i) : i \in 1..Len(exts)} |->
             IF \E c \in chunks : c.hash = h
             THEN LET c == CHOOSE c \in chunks : c.hash = h
                  IN [entity |-> c.id, text |-> c.text]
             ELSE [entity |-> latest(h), text |-> Prose(g.ext[latest(h)].text)]]
  BY DEF EntityMetadata
<1> HIDE DEF em, exts, chunks
<1>4. SUFFICES ASSUME NEW h \in DOMAIN em PROVE Encodes(h, em[h].text) BY DEF em
<1>5. CASE \E c \in chunks : c.hash = h
  <2> DEFINE c == CHOOSE c \in chunks : c.hash = h
  <2>1. c \in chunks /\ c.hash = h BY <1>5
  <2>2. em[h].text = c.text BY <1>3, <1>5
  <2> HIDE DEF c
  <2>3. PICK id, i : h = <<"chunk", id, i, c.text>> BY <1>1, <2>1
  <2>4. Len(h) = 4 /\ h[4] = c.text BY <2>3
  <2> QED BY <2>2, <2>4 DEF Encodes
<1>6. CASE ~(\E c \in chunks : c.hash = h)
  <2>1. em[h].text = Prose(g.ext[latest(h)].text) BY <1>3, <1>6
  <2>2. \E i \in 1..Len(exts) : hash(i) = h BY <1>3, <1>6
  <2>3. \E i \in 1..Len(exts) : is(h, i)
    <3> DEFINE far == {Len(exts) - i : i \in {i \in 1..Len(exts) : hash(i) = h}}
    <3>1. \A i \in 1..Len(exts) : i \in Nat /\ Len(exts) - i \in Nat BY <1>2
    <3>2. far \subseteq Nat /\ far # {}
      <4> HIDE DEF hash
      <4> QED BY <2>2, <3>1
    <3> HIDE DEF far
    <3>3. PICK d \in far : \A k \in far : <<k, d>> \notin OpToRel(<, Nat)
      BY <3>2, NatLessThanWellFounded, WFMin
    <3>4. \A k \in far : ~(k < d) BY <3>2, <3>3 DEF OpToRel
    <3>5. PICK i \in 1..Len(exts) : hash(i) = h /\ d = Len(exts) - i BY DEF far
    <3>6. ASSUME NEW j \in i + 1..Len(exts), hash(j) = h PROVE FALSE
      <4>1. j \in 1..Len(exts) /\ Len(exts) - j < d BY <1>2, <3>5
      <4>2. Len(exts) - j \in far BY <3>6, <4>1 DEF far
      <4> QED BY <3>4, <4>1, <4>2
    <3> QED BY <3>5, <3>6
  <2> DEFINE i == CHOOSE i \in 1..Len(exts) : is(h, i)
  <2>4. i \in 1..Len(exts) /\ hash(i) = h BY <2>3
  <2>5. latest(h) = exts[i] OBVIOUS
  <2> HIDE DEF i
  <2>6. g.ext[exts[i]].hash \in {Blank, <<exts[i], g.ext[exts[i]].text>>}
    BY <1>2, <2>4 DEF Hashed, ContentHash
  <2>7. h # Blank => Len(h) = 2 /\ h[2] = g.ext[latest(h)].text BY <2>4, <2>5, <2>6
  <2> HIDE DEF latest
  <2> QED BY <2>1, <2>7 DEF Encodes
<1> QED BY <1>5, <1>6

-----------------------------------------------------------------------------
(* The scan of embed_batch.                                                 *)

Hashes(s) == {r.hash : r \in ToSet(s)}

\* Rows under hashes that tell their texts.
Encoding(s) == List(s) /\ \A r \in ToSet(s) : Encodes(r.hash, r.text)

\* What the scan keeps.
Scanned(b) ==
    /\ {"rows", "pending", "errors", "truncated", "tokens", "misses", "batch"} \subseteq DOMAIN b
    /\ b.truncated \in BOOLEAN /\ List(b.rows) /\ List(b.pending)

\* Two lists of rows in one.
LEMMA EncodingJoined ==
  ASSUME NEW a, NEW b, Encoding(a), Encoding(b)
  PROVE  Encoding(a \o b) /\ Hashes(a \o b) = Hashes(a) \cup Hashes(b)
<1> DEFINE c == a \o b
<1>1. List(c) /\ ToSet(c) = ToSet(a) \cup ToSet(b) BY Concatenated DEF Encoding
<1> HIDE DEF c
<1>2. Encoding(c) /\ Hashes(c) = Hashes(a) \cup Hashes(b) BY <1>1 DEF Encoding, Hashes
<1> QED BY <1>2 DEF c

\* One more row.
LEMMA EncodingAppended ==
  ASSUME NEW a, Encoding(a), NEW r, Encodes(r.hash, r.text)
  PROVE  Encoding(Append(a, r)) /\ Hashes(Append(a, r)) = Hashes(a) \cup {r.hash}
<1> DEFINE c == Append(a, r)
<1>1. List(c) /\ ToSet(c) = ToSet(a) \cup {r} BY Appended DEF Encoding
<1> HIDE DEF c
<1>2. Encoding(c) /\ Hashes(c) = Hashes(a) \cup {r.hash} BY <1>1 DEF Encoding, Hashes
<1> QED BY <1>2 DEF c

\* No row has no hash.
LEMMA NoRows == Encoding(<<>>) /\ Hashes(<<>>) = {} /\ Len(<<>>) = 0
<1>1. List(<<>>) /\ ToSet(<<>>) = {} BY DEF List, ToSet
<1> QED BY <1>1 DEF Encoding, Hashes

\* A flush stops at the cap, loses a batch to its errors or embeds it.
LEMMA FlushFacts ==
  ASSUME NEW b, Scanned(b), NEW bad
  PROVE  LET c == Flush(b, bad)
             over == b.tokens + Len(b.pending) > TokenCap
         IN /\ Scanned(c) /\ c.misses = b.misses
            /\ over => /\ c.truncated /\ c.rows = b.rows /\ c.pending = b.pending
                       /\ c.errors = b.errors /\ c.tokens = b.tokens
            /\ ~over => c.truncated = b.truncated /\ c.pending = <<>>
            /\ ~over /\ b.batch \in bad =>
                  c.rows = b.rows /\ c.errors = b.errors \cup Hashes(b.pending)
            /\ ~over /\ b.batch \notin bad =>
                  /\ c.rows = b.rows \o b.pending /\ c.errors = b.errors
                  /\ c.tokens = b.tokens + Len(b.pending)
<1> DEFINE over == b.tokens + Len(b.pending) > TokenCap
<1>1. List(<<>>) BY DEF List, ToSet
<1>2. List(b.rows \o b.pending)
  <2>1. List(b.rows) /\ List(b.pending) BY DEF Scanned
  <2> DEFINE x == b.rows
             y == b.pending
  <2> HIDE DEF x, y
  <2>2. List(x) /\ List(y) => List(x \o y) BY Concatenated
  <2> QED BY <2>1, <2>2 DEF x, y
<1>3. CASE over
  <2>1. Flush(b, bad) = [b EXCEPT !.truncated = TRUE] BY <1>3 DEF Flush
  <2> QED BY <1>3, <2>1 DEF Scanned
<1>4. CASE ~over /\ b.batch \in bad
  <2>1. Flush(b, bad) = [b EXCEPT !.errors = @ \cup Hashes(b.pending), !.pending = <<>>,
                                  !.batch = @ + 1]
    BY <1>4 DEF Flush, Hashes
  <2> QED BY <1>1, <1>4, <2>1 DEF Scanned
<1>5. CASE ~over /\ b.batch \notin bad
  <2> DEFINE rows == b.rows \o b.pending
             tokens == b.tokens + Len(b.pending)
  <2>1. Flush(b, bad) = [b EXCEPT !.rows = rows, !.tokens = tokens, !.pending = <<>>,
                                  !.batch = @ + 1]
    BY <1>5 DEF Flush
  <2>2. List(rows) BY <1>2
  <2> HIDE DEF rows, tokens
  <2>3. LET c == Flush(b, bad)
        IN /\ Scanned(c) /\ c.misses = b.misses /\ c.truncated = b.truncated
           /\ c.pending = <<>> /\ c.rows = rows /\ c.errors = b.errors /\ c.tokens = tokens
    BY <1>1, <2>1, <2>2 DEF Scanned
  <2> QED BY <1>5, <2>3 DEF rows, tokens
<1> QED BY <1>3, <1>4, <1>5

\* A text found in the cache is a row; another one waits to be flushed.
LEMMA HitFacts ==
  ASSUME NEW b, Scanned(b), NEW r
  PROVE  LET c == Hit(b, r)
         IN /\ Scanned(c) /\ c.rows = Append(b.rows, [hash |-> r.hash, text |-> cache[r.hash]])
            /\ c.pending = b.pending /\ c.errors = b.errors /\ c.truncated = b.truncated
            /\ c.tokens = b.tokens /\ c.misses = b.misses
<1> DEFINE rows == Append(b.rows, [hash |-> r.hash, text |-> cache[r.hash]])
<1>1. Hit(b, r) = [b EXCEPT !.rows = rows] BY DEF Hit
<1>2. List(rows)
  <2>1. List(b.rows) BY DEF Scanned
  <2> QED BY <2>1, Appended
<1> HIDE DEF rows
<1>3. LET c == Hit(b, r)
      IN /\ Scanned(c) /\ c.rows = rows
         /\ c.pending = b.pending /\ c.errors = b.errors /\ c.truncated = b.truncated
         /\ c.tokens = b.tokens /\ c.misses = b.misses
  BY <1>1, <1>2 DEF Scanned
<1> QED BY <1>3 DEF rows

\* b with the text r waiting.
Waiting(b, r) == [b EXCEPT !.pending = Append(@, r), !.misses = @ + 1]

\* A text that waits for its batch changes nothing but the batch.
LEMMA WaitingFacts ==
  ASSUME NEW b, Scanned(b), NEW r
  PROVE  LET c == Waiting(b, r)
         IN /\ Scanned(c) /\ c.pending = Append(b.pending, r) /\ c.misses = b.misses + 1
            /\ c.rows = b.rows /\ c.errors = b.errors /\ c.truncated = b.truncated
            /\ c.tokens = b.tokens
<1> DEFINE pending == Append(b.pending, r)
<1>1. Waiting(b, r) = [b EXCEPT !.pending = pending, !.misses = @ + 1] BY DEF Waiting
<1>2. List(pending)
  <2>1. List(b.pending) BY DEF Scanned
  <2> QED BY <2>1, Appended
<1> HIDE DEF pending
<1>3. LET c == Waiting(b, r)
      IN /\ Scanned(c) /\ c.pending = pending /\ c.misses = b.misses + 1
         /\ c.rows = b.rows /\ c.errors = b.errors /\ c.truncated = b.truncated
         /\ c.tokens = b.tokens
  BY <1>1, <1>2 DEF Scanned
<1> QED BY <1>3 DEF pending

\* After i requests: rows and what waits tell their texts, and together they have all of
\* the requests unless that is admitted.
Told(b, rs, i) ==
    /\ Scanned(b) /\ Encoding(b.rows) /\ Encoding(b.pending)
    /\ b.errors = {} /\ ~b.truncated =>
          \A k \in 1..i : rs[k].hash \in Hashes(b.rows) \cup Hashes(b.pending)

\* A batch that is sent, whether it comes back or not, leaves no text untold.
LEMMA FlushTold ==
  ASSUME NEW rs, NEW i, NEW b, Told(b, rs, i), NEW bad
  PROVE  LET c == Flush(b, bad)
         IN Told(c, rs, i) /\ (~c.truncated => c.pending = <<>>)
<1> DEFINE c == Flush(b, bad)
           over == b.tokens + Len(b.pending) > TokenCap
<1>1. Scanned(b) /\ Encoding(b.rows) /\ Encoding(b.pending) BY DEF Told
<1>2. /\ Scanned(c)
      /\ over => c.truncated /\ c.rows = b.rows /\ c.pending = b.pending
      /\ ~over => c.truncated = b.truncated /\ c.pending = <<>>
      /\ ~over /\ b.batch \in bad =>
            c.rows = b.rows /\ c.errors = b.errors \cup Hashes(b.pending)
      /\ ~over /\ b.batch \notin bad => c.rows = b.rows \o b.pending /\ c.errors = b.errors
  BY <1>1, FlushFacts
<1> HIDE DEF c
<1>3. CASE over BY <1>1, <1>2, <1>3 DEF Told, c
<1>4. CASE ~over /\ b.batch \in bad
  <2> HIDE DEF over
  <2>1. Encoding(c.pending) /\ Hashes(c.pending) = {} BY <1>2, <1>4, NoRows
  <2>2. c.errors = {} => b.errors = {} /\ Hashes(b.pending) = {} BY <1>2, <1>4
  <2> QED BY <1>1, <1>2, <1>4, <2>1, <2>2 DEF Told, c
<1>5. CASE ~over /\ b.batch \notin bad
  <2> HIDE DEF over
  <2>1. Encoding(c.pending) /\ Hashes(c.pending) = {} BY <1>2, <1>5, NoRows
  <2>2. Encoding(c.rows) /\ Hashes(c.rows) = Hashes(b.rows) \cup Hashes(b.pending)
    <3>1. /\ Encoding(b.rows \o b.pending)
          /\ Hashes(b.rows \o b.pending) = Hashes(b.rows) \cup Hashes(b.pending)
      BY <1>1, EncodingJoined
    <3> QED BY <1>2, <1>5, <3>1, Zenon
  <2> QED BY <1>1, <1>2, <1>5, <2>1, <2>2 DEF Told, c
<1> QED BY <1>3, <1>4, <1>5

\* A text that is scanned is told of: as a row, in the batch, or by an error or the cap.
LEMMA ScanTold ==
  ASSUME NEW rs, NEW i \in Nat \ {0}, Encodes(rs[i].hash, rs[i].text),
         \A h \in DOMAIN cache : Encodes(h, cache[h]),
         NEW b, Told(b, rs, i - 1), NEW bad
  PROVE  Told(Scan(bad, b, rs[i]), rs, i)
<1> DEFINE r == rs[i]
<1>1. \A k \in 1..i : k \in 1..i - 1 \/ rs[k] = r OBVIOUS
<1>2. Scanned(b) /\ Encoding(b.rows) /\ Encoding(b.pending) /\ b.truncated \in BOOLEAN
  BY DEF Told, Scanned
<1> HIDE DEF r
<1>3. CASE b.truncated
  <2>1. Scan(bad, b, r) = b BY <1>3 DEF Scan
  <2> QED BY <1>3, <2>1 DEF Told, r
<1>4. CASE ~b.truncated /\ r.hash \in DOMAIN cache
  <2> DEFINE c == Hit(b, r)
             row == [hash |-> r.hash, text |-> cache[r.hash]]
  <2>1. Scan(bad, b, r) = c BY <1>4 DEF Scan
  <2>2. /\ Scanned(c) /\ c.rows = Append(b.rows, row)
        /\ c.pending = b.pending /\ c.errors = b.errors /\ c.truncated = b.truncated
    BY <1>2, HitFacts
  <2>3. row.hash = r.hash /\ Encodes(row.hash, row.text) BY <1>4
  <2> HIDE DEF row, c
  <2>4. Encoding(c.rows) /\ Hashes(c.rows) = Hashes(b.rows) \cup {r.hash}
    BY <1>2, <2>2, <2>3, EncodingAppended
  <2>5. Told(c, rs, i) BY <1>1, <1>2, <2>2, <2>4 DEF Told
  <2> QED BY <2>1, <2>5 DEF r
<1>5. CASE ~b.truncated /\ r.hash \notin DOMAIN cache
  <2> DEFINE c == Waiting(b, r)
  <2>1. Scan(bad, b, r) = IF Len(c.pending) >= BatchSize THEN Flush(c, bad) ELSE c
    BY <1>5 DEF Scan, Miss, Waiting
  <2>2. /\ Scanned(c) /\ c.pending = Append(b.pending, r)
        /\ c.rows = b.rows /\ c.errors = b.errors /\ c.truncated = b.truncated
    BY <1>2, WaitingFacts
  <2> HIDE DEF c
  <2>3. Encodes(r.hash, r.text) BY DEF r
  <2>4. Encoding(c.pending) /\ Hashes(c.pending) = Hashes(b.pending) \cup {r.hash}
    BY <1>2, <2>2, <2>3, EncodingAppended
  <2>5. Told(c, rs, i) BY <1>1, <1>2, <2>2, <2>4 DEF Told
  <2>6. Told(Flush(c, bad), rs, i) BY <2>5, FlushTold
  <2> QED BY <2>1, <2>5, <2>6 DEF r
<1> QED BY <1>2, <1>3, <1>4, <1>5 DEF r

\* embed_batch returns rows that are what their texts are, and all of them, or says so.
LEMMA EmbedFacts ==
  ASSUME NEW rs, Telling(rs), \A h \in DOMAIN cache : Encodes(h, cache[h]), NEW bad
  PROVE  LET b == EmbedBatch(rs, bad)
         IN /\ Encoding(b.rows)
            /\ b.errors = {} /\ ~b.truncated => Hashes(rs) \subseteq Hashes(b.rows)
<1> DEFINE N == Len(rs)
           b == ScanAll(rs, bad)
           c == EmbedBatch(rs, bad)
<1>1. N \in Nat /\ ToSet(rs) = {rs[i] : i \in 1..N} BY ListFacts DEF Telling
<1>2. \A i \in 1..N : Encodes(rs[i].hash, rs[i].text) BY <1>1 DEF Telling
<1>3. PICK f : /\ f[0] = NoBatch /\ b = f[N]
               /\ \A n \in 1..N : f[n] = Scan(bad, f[n - 1], rs[n])
  BY ScanAllSteps DEF Telling
<1>4. c = IF b.pending # <<>> /\ ~b.truncated THEN Flush(b, bad) ELSE b BY DEF EmbedBatch
<1> HIDE DEF N, b, c
<1> DEFINE T == {n \in 0..N : Told(f[n], rs, n)}
<1>5. 0 \in T
  <2>1. Encoding(<<>>) /\ List(<<>>) BY NoRows DEF Encoding
  <2>2. Told(NoBatch, rs, 0) BY <2>1 DEF Told, Scanned, NoBatch
  <2> QED BY <1>1, <1>3, <2>2
<1>6. ASSUME NEW n \in 1..N, n - 1 \in T PROVE n \in T
  <2>1. Told(f[n - 1], rs, n - 1) /\ n \in Nat \ {0} BY <1>1, <1>6
  <2>2. Told(Scan(bad, f[n - 1], rs[n]), rs, n) BY <1>2, <2>1, ScanTold
  <2> QED BY <1>1, <1>3, <2>2
<1> HIDE DEF T
<1>7. N \in T BY <1>1, <1>5, <1>6, Trace
<1>8. Told(b, rs, N) BY <1>3, <1>7 DEF T
<1>9. Told(c, rs, N) /\ (~c.truncated => c.pending = <<>>)
  <2>1. Told(Flush(b, bad), rs, N) /\ (~Flush(b, bad).truncated => Flush(b, bad).pending = <<>>)
    BY <1>8, FlushTold
  <2> QED BY <1>4, <1>8, <2>1
<1>10. ASSUME c.errors = {}, ~c.truncated PROVE Hashes(rs) \subseteq Hashes(c.rows)
  <2>1. Hashes(c.pending) = {} BY <1>9, <1>10, NoRows
  <2>2. \A k \in 1..N : rs[k].hash \in Hashes(c.rows) BY <1>9, <1>10, <2>1 DEF Told
  <2> QED BY <1>1, <2>2 DEF Hashes
<1> QED BY <1>9, <1>10 DEF Told, c

-----------------------------------------------------------------------------
(* The cache, the index and what was promoted.                              *)

\* The vectors of the cache are those of the texts their keys tell.
Cached == \A h \in DOMAIN cache : Encodes(h, cache[h])

\* So are the rows that embed hands on.
Handed == Encoding(embedded.rows)

\* So are the texts and the vectors of the index.
Indexed == \A h \in DOMAIN index : Encodes(h, index[h].text) /\ Encodes(h, index[h].vector)

\* What embed admits to having lost.
Admits == embedded.errors # {} \/ embedded.truncated

\* Unless embed admits it, no text of the run is missing from its rows, nor, once they
\* are upserted, from the index.
Complete ==
    /\ phase = "upsert" => Admits \/ Texts \subseteq Hashes(embedded.rows)
    /\ phase = "promote" => Admits \/ Texts \subseteq DOMAIN index

Stored == Cached /\ Handed /\ Indexed /\ Complete

\* From the graph builder on, what a run embeds has keys that tell the texts.
LEMMA RunTexts ==
  ASSUME Placed, Staged, Built, phase \in {"embed", "upsert", "promote"}
  PROVE  Hashed(graph) /\ Pages(Loaded("docs"))
<1>1. PICK m : Sound(m, Listed) /\ Keeps(graph, m) BY DEF Built
<1>2. Hashed(graph) BY <1>1 DEF Sound, Hashed, Keeps
<1>3. Pages(Loaded("docs")) BY DEF Pages, Loaded, Staged, Parsed, Sources
<1> QED BY <1>2, <1>3

\* What Embed writes.
LEMMA EmbedWrites ==
  ASSUME Embed
  PROVE  \E bad : LET b == EmbedBatch(Requests(graph, Loaded("docs")), bad)
                  IN /\ cache' = CacheAfter(b.rows)
                     /\ phase' = "upsert" =>
                           embedded' = [rows |-> b.rows, errors |-> b.errors,
                                        truncated |-> b.truncated]
<1>1. phase = "embed" /\ (Fails => phase' # "upsert") BY FailsFacts DEF Embed, EndRun, Goto
<1> QED BY <1>1 DEF Embed

\* What VsUpsert writes.
LEMMA UpsertWrites ==
  ASSUME VsUpsert
  PROVE  \E bad : /\ index' = IndexAfter(embedded.rows, bad)
                  /\ phase' = "promote" => bad = {}
<1>1. phase = "upsert" /\ (Fails \/ EndRun => phase' # "promote")
  BY FailsFacts DEF VsUpsert, EndRun, Goto
<1> QED BY <1>1 DEF VsUpsert

\* Each store has one writer.
LEMMA Writers ==
  ASSUME [Next]_vars
  PROVE  /\ cache' = cache \/ Embed
         /\ index' = index \/ VsUpsert
         /\ active' = active \/ Promote
<1>1. Plan \/ (\E s \in Sources : Extract(s)) \/ Build => UNCHANGED storeVars
  BY DEF Plan, Extract, Build
<1>2. ExtractFails \/ Change \/ Settle \/ UNCHANGED vars => UNCHANGED storeVars
  BY DEF ExtractFails, Change, Settle, vars
<1>3. /\ Embed => UNCHANGED <<index, active>>
      /\ VsUpsert => UNCHANGED <<cache, active>>
      /\ Promote => UNCHANGED <<cache, index>>
  BY DEF Embed, VsUpsert, Promote
<1> QED BY <1>1, <1>2, <1>3 DEF Next, Task, storeVars

\* The texts of rows under their hashes.
LEMMA TextByHashFacts ==
  ASSUME NEW rows, Encoding(rows)
  PROVE  LET t == TextByHash(rows)
         IN DOMAIN t = Hashes(rows) /\ \A h \in DOMAIN t : Encodes(h, t[h])
<1> DEFINE t == TextByHash(rows)
<1>1. DOMAIN t = Hashes(rows) BY DEF TextByHash, Hashes
<1>2. ASSUME NEW h \in Hashes(rows) PROVE Encodes(h, t[h])
  <2> DEFINE r == CHOOSE r \in ToSet(rows) : r.hash = h
  <2>1. \E q \in ToSet(rows) : q.hash = h BY DEF Hashes
  <2>2. r \in ToSet(rows) /\ r.hash = h BY <2>1
  <2>3. t[h] = r.text BY DEF TextByHash, Hashes
  <2> HIDE DEF r, t
  <2> QED BY <2>2, <2>3 DEF Encoding
<1> QED BY <1>1, <1>2

\* The batches of an upsert that land are rows of it; all of them if none fails.
LEMMA LandedFacts ==
  ASSUME NEW rows, List(rows), NEW bad
  PROVE  /\ Landed(rows, bad) \subseteq ToSet(rows)
         /\ bad = {} => Landed(rows, bad) = ToSet(rows)
  BY ListFacts DEF Landed

\* An upsert adds rows of known texts to the index and takes nothing from it.
LEMMA IndexFacts ==
  ASSUME Indexed, NEW rows, Encoding(rows), Hashed(graph), Pages(Loaded("docs")), NEW bad
  PROVE  LET x == IndexAfter(rows, bad)
         IN /\ DOMAIN index \subseteq DOMAIN x
            /\ \A h \in DOMAIN x : Encodes(h, x[h].text) /\ Encodes(h, x[h].vector)
            /\ bad = {} => Texts \cap Hashes(rows) \subseteq DOMAIN x
<1> DEFINE meta == EntityMetadata(graph, Loaded("docs"))
           landed == {r \in Landed(rows, bad) : r.hash \in DOMAIN meta}
           row(h) == CHOOSE r \in landed : r.hash = h
           x == IndexAfter(rows, bad)
<1>1. \A h \in DOMAIN meta : Encodes(h, meta[h].text) BY MetadataFacts
<1>2. Texts \subseteq DOMAIN meta BY RequestsFacts DEF Texts
<1>3. /\ \A r \in Landed(rows, bad) : r \in ToSet(rows)
      /\ bad = {} => Landed(rows, bad) = ToSet(rows)
  BY LandedFacts DEF Encoding
<1>4. x = [h \in DOMAIN index \cup {r.hash : r \in landed} |->
             IF \E r \in landed : r.hash = h
             THEN [entity |-> meta[h].entity, text |-> meta[h].text, vector |-> row(h).text]
             ELSE index[h]]
  BY DEF IndexAfter
<1> HIDE DEF x, meta
<1>5. \A r \in landed : r.hash \in DOMAIN meta /\ Encodes(r.hash, r.text)
  BY <1>3 DEF Encoding
<1>6. bad = {} => Texts \cap Hashes(rows) \subseteq {r.hash : r \in landed}
  BY <1>2, <1>3 DEF Hashes
<1> HIDE DEF landed
<1>7. ASSUME NEW h \in DOMAIN x PROVE Encodes(h, x[h].text) /\ Encodes(h, x[h].vector)
  <2>1. CASE \E r \in landed : r.hash = h
    <3>1. row(h) \in landed /\ row(h).hash = h BY <2>1
    <3>2. x[h].text = meta[h].text /\ x[h].vector = row(h).text BY <1>4, <1>7, <2>1
    <3> HIDE DEF row
    <3> QED BY <1>1, <1>5, <3>1, <3>2
  <2>2. CASE ~(\E r \in landed : r.hash = h)
    <3>1. x[h] = index[h] /\ h \in DOMAIN index BY <1>4, <1>7, <2>2
    <3> QED BY <3>1 DEF Indexed
  <2> QED BY <2>1, <2>2
<1>8. DOMAIN x = DOMAIN index \cup {r.hash : r \in landed} BY <1>4
<1> QED BY <1>6, <1>7, <1>8 DEF x

\* What is stored keeps to its keys, and the rows of a run to its texts.
LEMMA StoredStep == Placed /\ Staged /\ Built /\ Stored /\ [Next]_vars => Stored'
<1> SUFFICES ASSUME Placed, Staged, Built, Stored, [Next]_vars PROVE Stored' OBVIOUS
<1>1. Cached /\ Handed /\ Indexed /\ Complete BY DEF Stored
<1>2. Embed => /\ phase = "embed" /\ Hashed(graph) /\ Pages(Loaded("docs"))
  BY RunTexts DEF Embed
<1>3. VsUpsert => /\ phase = "upsert" /\ Hashed(graph) /\ Pages(Loaded("docs"))
  BY RunTexts DEF VsUpsert
<1>4. Embed => Telling(Requests(graph, Loaded("docs"))) BY <1>2, RequestsFacts
<1>5. ASSUME NEW bad, Embed
      PROVE  LET b == EmbedBatch(Requests(graph, Loaded("docs")), bad)
             IN /\ Encoding(b.rows)
                /\ b.errors = {} /\ ~b.truncated => Texts \subseteq Hashes(b.rows)
  <2> DEFINE rs == Requests(graph, Loaded("docs"))
  <2>1. Telling(rs) /\ \A h \in DOMAIN cache : Encodes(h, cache[h]) BY <1>1, <1>4, <1>5 DEF Cached
  <2>2. Texts = Hashes(rs) BY DEF Texts, Hashes
  <2> HIDE DEF rs
  <2> QED BY <2>1, <2>2, EmbedFacts DEF rs
<1>6. Cached'
  <2>1. CASE cache' = cache BY <1>1, <2>1 DEF Cached
  <2>2. CASE Embed
    <3>1. PICK bad : cache' = CacheAfter(EmbedBatch(Requests(graph, Loaded("docs")), bad).rows)
      BY <2>2, EmbedWrites
    <3> DEFINE rows == EmbedBatch(Requests(graph, Loaded("docs")), bad).rows
    <3>2. Encoding(rows) BY <1>5, <2>2
    <3>3. cache' = cache \/ cache' = TextByHash(rows) BY <3>1 DEF CacheAfter
    <3> HIDE DEF rows
    <3> QED BY <2>1, <3>2, <3>3, TextByHashFacts DEF Cached
  <2> QED BY <2>1, <2>2, Writers
<1>7. Indexed' /\ DOMAIN index \subseteq DOMAIN index'
  <2>1. CASE index' = index BY <1>1, <2>1 DEF Indexed
  <2>2. CASE VsUpsert
    <3>1. PICK bad : index' = IndexAfter(embedded.rows, bad) BY <2>2, UpsertWrites
    <3> DEFINE rows == embedded.rows
    <3>2. Encoding(rows) BY <1>1 DEF Handed
    <3> HIDE DEF rows
    <3> QED BY <1>1, <1>3, <2>2, <3>1, <3>2, IndexFacts DEF Indexed, rows
  <2> QED BY <2>1, <2>2, Writers
<1>8. CASE EndRun
  <2>1. Handed' BY <1>8, NoRows DEF EndRun, NoEmbedding, Handed
  <2>2. Complete' BY <1>8 DEF EndRun, Goto, Complete
  <2> QED BY <1>6, <1>7, <2>1, <2>2 DEF Stored
<1>9. CASE UNCHANGED <<phase, plan, staged, graph, embedded>>
  <2>1. Handed' BY <1>1, <1>9 DEF Handed
  <2>2. Texts' = Texts /\ Admits' = Admits BY <1>9 DEF Texts, Loaded, Admits
  <2>3. Complete' BY <1>1, <1>7, <1>9, <2>2 DEF Complete
  <2> QED BY <1>6, <1>7, <2>1, <2>3 DEF Stored
<1>10. CASE Plan \/ (\E s \in Sources : Extract(s))
  <2>1. embedded' = embedded /\ phase' = "extract" BY <1>10 DEF Plan, Extract, Goto
  <2>2. Handed' /\ Complete' BY <1>1, <2>1 DEF Handed, Complete
  <2> QED BY <1>6, <1>7, <2>2 DEF Stored
<1>11. CASE /\ Build /\ phase = "extract" /\ phase' = "embed"
            /\ UNCHANGED <<plan, staged, embedded>>
  <2>1. Handed' /\ Complete' BY <1>1, <1>11 DEF Handed, Complete
  <2> QED BY <1>6, <1>7, <2>1 DEF Stored
<1>12. CASE /\ Embed /\ phase = "embed" /\ phase' = "upsert" /\ UNCHANGED <<plan, staged, graph>>
  <2>1. PICK bad : LET b == EmbedBatch(Requests(graph, Loaded("docs")), bad)
                   IN embedded' = [rows |-> b.rows, errors |-> b.errors,
                                   truncated |-> b.truncated]
    BY <1>12, EmbedWrites
  <2> DEFINE b == EmbedBatch(Requests(graph, Loaded("docs")), bad)
  <2>2. /\ Encoding(b.rows)
        /\ b.errors = {} /\ ~b.truncated => Texts \subseteq Hashes(b.rows)
    BY <1>5, <1>12
  <2>3. /\ embedded'.rows = b.rows /\ embedded'.errors = b.errors
        /\ embedded'.truncated = b.truncated
    BY <2>1
  <2> HIDE DEF b
  <2>4. Texts' = Texts BY <1>12 DEF Texts, Loaded
  <2>5. Handed' BY <2>2, <2>3 DEF Handed
  <2>6. Complete' BY <1>12, <2>2, <2>3, <2>4 DEF Complete, Admits
  <2> QED BY <1>6, <1>7, <2>5, <2>6 DEF Stored
<1>13. CASE /\ VsUpsert /\ phase = "upsert" /\ phase' = "promote"
            /\ UNCHANGED <<plan, staged, graph, embedded>>
  <2>1. index' = IndexAfter(embedded.rows, {}) BY <1>13, UpsertWrites
  <2> DEFINE rows == embedded.rows
  <2>2. Encoding(rows) BY <1>1 DEF Handed
  <2>3. Admits \/ Texts \subseteq Hashes(rows) BY <1>1, <1>13 DEF Complete
  <2> HIDE DEF rows
  <2>4. Texts \subseteq Hashes(rows) => Texts \subseteq DOMAIN IndexAfter(rows, {})
    BY <1>1, <1>3, <1>13, <2>2, IndexFacts
  <2>5. Texts' = Texts /\ Admits' = Admits BY <1>13 DEF Texts, Loaded, Admits
  <2>6. Complete' BY <1>13, <2>1, <2>3, <2>4, <2>5 DEF Complete, rows
  <2>7. Handed' BY <1>1, <1>13 DEF Handed
  <2> QED BY <1>6, <1>7, <2>6, <2>7 DEF Stored
<1> QED BY <1>8, <1>9, <1>10, <1>11, <1>12, <1>13, Moves

\* What is promoted is complete or admits that it is not, and the index loses nothing.
LEMMA MissingStep ==
  Placed /\ Staged /\ Built /\ Stored /\ MissingIsReported /\ [Next]_vars => MissingIsReported'
<1> SUFFICES ASSUME Placed, Staged, Built, Stored, MissingIsReported, [Next]_vars
             PROVE  MissingIsReported'
  OBVIOUS
<1>1. DOMAIN index \subseteq DOMAIN index'
  <2>1. CASE VsUpsert
    <3>1. PICK bad : index' = IndexAfter(embedded.rows, bad) BY <2>1, UpsertWrites
    <3> DEFINE rows == embedded.rows
    <3>2. Encoding(rows) /\ Indexed BY DEF Stored, Handed
    <3>3. Hashed(graph) /\ Pages(Loaded("docs")) BY <2>1, RunTexts DEF VsUpsert
    <3> HIDE DEF rows
    <3> QED BY <3>1, <3>2, <3>3, IndexFacts DEF rows
  <2> QED BY <2>1, Writers
<1>2. CASE active' = active BY <1>1, <1>2 DEF MissingIsReported
<1>3. CASE Promote /\ active' # active
  <2>1. /\ phase = "promote" /\ index' = index
        /\ active'.texts = Texts
        /\ active'.reported = (embedded.errors # {} \/ embedded.truncated)
    BY <1>3 DEF Promote
  <2>2. Admits \/ Texts \subseteq DOMAIN index BY <2>1 DEF Stored, Complete
  <2> QED BY <2>1, <2>2 DEF MissingIsReported, Admits
<1> QED BY <1>2, <1>3, Writers

\* What every history of the job keeps.
LEMMA StoresSound == Spec => [](Stored /\ MissingIsReported)
<1>1. Init => Placed /\ Staged /\ Built /\ Stored /\ MissingIsReported
  <2>1. DOMAIN <<>> = {} OBVIOUS
  <2> QED BY <2>1, PlacedInit, NoRows
          DEF Init, Staged, Built, Stored, Cached, Handed, Indexed, Complete, NoEmbedding,
              MissingIsReported
<1> QED
  BY <1>1, PlacedStep, StagedStep, BuiltStep, StoredStep, MissingStep, PTL DEF Spec

\* Whatever was cached, changed or failed on the way, a vector in the index is the vector
\* of the text it is found under; only the stubs, of one hash, mix theirs up.
THEOREM VectorsOfTheirTexts == Spec => []VectorsEncodeTexts
<1>1. Stored => VectorsEncodeTexts
  <2> SUFFICES ASSUME Indexed, NEW h \in DOMAIN index \ {Blank}
               PROVE  index[h].vector = index[h].text
    BY DEF Stored, VectorsEncodeTexts
  <2> QED BY DEF Indexed, Encodes
<1> QED BY <1>1, StoresSound, PTL

\* A snapshot is promoted with all its texts in the index or with the admission that
\* some may be missing, and the index does not lose them later.
THEOREM MissingReported == Spec => []MissingIsReported
  BY StoresSound, PTL

-----------------------------------------------------------------------------
(* How far the cap lets a scan get.                                         *)

\* The texts that a run pays for before it is over the cap.
Paid == BatchSize * (TokenCap \div BatchSize)

\* The whole batches under the cap come to at most the cap, and one more would exceed it.
LEMMA PaidFacts ==
  /\ Paid \in Nat /\ Paid <= TokenCap /\ TokenCap < Paid + BatchSize
  /\ TokenCap \in Nat /\ BatchSize \in Nat \ {0}
<1> DEFINE B == BatchSize
           T == TokenCap
<1>1. B \in Nat \ {0} /\ T \in Nat /\ T >= B BY IndexingAssumption
<1> HIDE DEF B, T
<1>2. LET C == T \div B IN C \in Nat /\ B * C \in Nat /\ B * C <= T /\ T < B * C + B BY <1>1
<1> QED BY <1>1, <1>2 DEF Paid, B, T

\* What whole batches cost.
Whole(t) == \E m \in 0..TokenCap \div BatchSize : t = BatchSize * m

\* A run begins at a whole number of batches, none.
LEMMA NothingPaid == Whole(0)
<1>1. TokenCap \div BatchSize \in Nat /\ BatchSize \in Nat /\ 0 = BatchSize * 0
  BY IndexingAssumption
<1> QED BY <1>1 DEF Whole

\* It is at most Paid, and just that once another batch would be over the cap.
LEMMA Batches ==
  ASSUME NEW t, Whole(t), NEW n \in 0..BatchSize
  PROVE  /\ t \in Nat
         /\ t + n > TokenCap => t = Paid
         /\ t + BatchSize <= TokenCap => Whole(t + BatchSize)
<1> DEFINE B == BatchSize
           C == TokenCap \div BatchSize
<1>1. /\ B * C \in Nat /\ B * C <= TokenCap /\ TokenCap < B * C + B
      /\ TokenCap \in Nat /\ B \in Nat \ {0}
  BY PaidFacts DEF Paid
<1>2. C \in Nat BY IndexingAssumption
<1>3. PICK m \in 0..C : t = B * m BY DEF Whole
<1>4. m \in Nat /\ m <= C /\ n \in Nat /\ n <= B BY <1>1, <1>2
<1> HIDE DEF B, C
<1>5. B * m \in Nat /\ (m < C => B * m + B <= B * C) BY <1>1, <1>2, <1>4
<1>6. B * m + B = B * (m + 1) BY <1>1, <1>4
<1>7. B * m + n > TokenCap => B * m = B * C
  <2>1. CASE m < C BY <1>1, <1>4, <1>5, <2>1
  <2>2. CASE ~(m < C)
    <3>1. m = C BY <1>2, <1>4, <2>2
    <3> QED BY <3>1
  <2> QED BY <2>1, <2>2
<1>8. B * m + B <= TokenCap => \E k \in 0..C : B * m + B = B * k
  <2> SUFFICES ASSUME B * m + B <= TokenCap PROVE \E k \in 0..C : B * m + B = B * k
    OBVIOUS
  <2>1. m # C BY <1>1
  <2>2. m + 1 \in 0..C BY <1>2, <1>4, <2>1
  <2> QED BY <1>6, <2>2
<1> QED BY <1>3, <1>5, <1>7, <1>8 DEF B, C, Paid, Whole

\* The first n of the requests rs are among the hashes S.
First(rs, n, S) == \A k \in Nat \ {0} : k <= n /\ k <= Len(rs) => rs[k].hash \in S

\* The first i requests are in rows or wait, and those that wait come after the first j
\* and as many as were paid for.
Passed(b, rs, j, i) ==
    \A k \in 1..i : /\ rs[k].hash \in Hashes(b.rows) \cup Hashes(b.pending)
                    /\ k <= j + b.tokens => rs[k].hash \in Hashes(b.rows)

\* After i requests, the first j of which are in the cache: the scan gets as far as j and
\* what it paid for, and stops at the cap only.
Underway(b, rs, j, i) ==
    /\ Scanned(b)
    /\ Whole(b.tokens)
    /\ b.truncated => First(rs, j + Paid, Hashes(b.rows))
    /\ ~b.truncated =>
        /\ Len(b.pending) < BatchSize
        /\ b.tokens + Len(b.pending) = 0 \/ j + b.tokens + Len(b.pending) <= i
        /\ Passed(b, rs, j, i)

\* The hashes of two lists in one, and of one more row.
LEMMA HashesJoined ==
  ASSUME NEW a, NEW b, List(a), List(b)
  PROVE  Hashes(a \o b) = Hashes(a) \cup Hashes(b)
<1> DEFINE c == a \o b
<1>1. ToSet(c) = ToSet(a) \cup ToSet(b) BY Concatenated
<1> HIDE DEF c
<1>2. Hashes(c) = Hashes(a) \cup Hashes(b) BY <1>1 DEF Hashes
<1> QED BY <1>2 DEF c

\* One more row, one more hash.
LEMMA HashesAppended ==
  ASSUME NEW a, NEW r, List(a)
  PROVE  Hashes(Append(a, r)) = Hashes(a) \cup {r.hash} /\ Len(Append(a, r)) = Len(a) + 1
<1> DEFINE c == Append(a, r)
<1>1. ToSet(c) = ToSet(a) \cup {r} /\ Len(c) = Len(a) + 1 BY Appended
<1> HIDE DEF c
<1>2. Hashes(c) = Hashes(a) \cup {r.hash} BY <1>1 DEF Hashes
<1> QED BY <1>1, <1>2 DEF c

\* A flush of a full or a last batch: over the cap, all the cap pays for is in the rows;
\* else all the requests so far are.
LEMMA FlushUnderway ==
  ASSUME NEW rs, NEW j \in Nat, NEW i \in Nat, NEW b, Scanned(b),
         Whole(b.tokens), Len(b.pending) <= BatchSize, j + b.tokens + Len(b.pending) <= i,
         Passed(b, rs, j, i), NEW bad, b.batch \notin bad
  PROVE  LET c == Flush(b, bad)
         IN /\ Scanned(c)
            /\ c.truncated => \/ b.truncated
                              \/ c.tokens = b.tokens /\ First(rs, j + Paid, Hashes(c.rows))
            /\ ~c.truncated => /\ c.tokens = b.tokens + Len(b.pending)
                               /\ c.tokens <= TokenCap
                               /\ c.pending = <<>>
                               /\ \A k \in 1..i : rs[k].hash \in Hashes(c.rows)
<1> DEFINE c == Flush(b, bad)
           n == Len(b.pending)
           over == b.tokens + n > TokenCap
<1>1. /\ Scanned(c)
      /\ over => c.truncated /\ c.rows = b.rows /\ c.tokens = b.tokens
      /\ ~over => c.truncated = b.truncated /\ c.pending = <<>>
      /\ ~over => c.rows = b.rows \o b.pending /\ c.tokens = b.tokens + n
  <2>1. Len(b.pending) \in Nat BY ListFacts DEF Scanned
  <2>2. 0 \in 0..BatchSize BY PaidFacts
  <2>3. b.tokens \in Nat BY <2>2, Batches
  <2> QED BY <2>1, <2>3, FlushFacts, PaidFacts
<1>2. List(b.rows) /\ List(b.pending) /\ n \in Nat BY ListFacts DEF Scanned
<1>3. n \in 0..BatchSize BY <1>2, PaidFacts
<1>4. b.tokens \in Nat /\ (over => b.tokens = Paid) BY <1>3, Batches
<1>5. Hashes(b.rows \o b.pending) = Hashes(b.rows) \cup Hashes(b.pending)
  BY <1>2, HashesJoined
<1> HIDE DEF c
<1>6. CASE over
  <2>1. b.tokens = Paid /\ c.rows = b.rows BY <1>1, <1>4, <1>6
  <2>2. ASSUME NEW k \in Nat \ {0}, k <= j + Paid PROVE rs[k].hash \in Hashes(b.rows)
    <3>1. k \in 1..i /\ k <= j + b.tokens BY <1>2, <1>4, <2>1, <2>2
    <3> QED BY <3>1 DEF Passed
  <2> QED BY <1>1, <1>6, <2>1, <2>2 DEF First, c
<1>7. CASE ~over
  <2>1. Hashes(c.rows) = Hashes(b.rows) \cup Hashes(b.pending)
    <3>1. c.rows = b.rows \o b.pending BY <1>1, <1>7
    <3> QED BY <1>5, <3>1, Zenon
  <2>2. b.tokens + n <= TokenCap BY <1>2, <1>4, <1>7, PaidFacts
  <2>3. \A k \in 1..i : rs[k].hash \in Hashes(c.rows) BY <2>1 DEF Passed
  <2> QED BY <1>1, <1>7, <2>2, <2>3 DEF c
<1> QED BY <1>6, <1>7

\* A full batch.
LEMMA FullUnderway ==
  ASSUME NEW rs, NEW j \in Nat, NEW i \in Nat, NEW b, Scanned(b),
         Whole(b.tokens), Len(b.pending) = BatchSize, j + b.tokens + Len(b.pending) <= i,
         Passed(b, rs, j, i), NEW bad, b.batch \notin bad, ~b.truncated
  PROVE  Underway(Flush(b, bad), rs, j, i)
<1> DEFINE d == Flush(b, bad)
<1>1. 0 \in 0..BatchSize /\ 0 < BatchSize /\ BatchSize \in Nat BY PaidFacts
<1>2. b.tokens \in Nat BY <1>1, Batches
<1>3. Len(b.pending) <= BatchSize BY <1>1
<1>4. /\ Scanned(d)
      /\ d.truncated => \/ b.truncated
                        \/ d.tokens = b.tokens /\ First(rs, j + Paid, Hashes(d.rows))
      /\ ~d.truncated => /\ d.tokens = b.tokens + Len(b.pending)
                         /\ d.tokens <= TokenCap
                         /\ d.pending = <<>>
                         /\ \A k \in 1..i : rs[k].hash \in Hashes(d.rows)
  BY <1>3, FlushUnderway
<1> HIDE DEF d
<1>5. CASE d.truncated BY <1>4, <1>5 DEF Underway, d
<1>6. CASE ~d.truncated
  <2>1. /\ d.tokens = b.tokens + BatchSize /\ d.tokens <= TokenCap /\ d.pending = <<>>
        /\ \A k \in 1..i : rs[k].hash \in Hashes(d.rows)
    BY <1>4, <1>6
  <2>2. Whole(d.tokens) BY <1>1, <2>1, Batches
  <2>3. Len(d.pending) = 0 BY <2>1, NoRows
  <2>4. Passed(d, rs, j, i) BY <2>1 DEF Passed
  <2>5. j + d.tokens + Len(d.pending) <= i BY <1>1, <1>2, <2>1, <2>3
  <2> QED BY <1>1, <1>4, <1>6, <2>2, <2>3, <2>4, <2>5 DEF Underway, d
<1> QED BY <1>5, <1>6

\* One request more.
LEMMA ScanUnderway ==
  ASSUME NEW rs, NEW j \in Nat, First(rs, j, DOMAIN cache), NEW i \in Nat \ {0}, i <= Len(rs),
         NEW b, Underway(b, rs, j, i - 1), NEW bad, b.batch \notin bad
  PROVE  Underway(Scan(bad, b, rs[i]), rs, j, i)
<1> DEFINE r == rs[i]
<1>1. \A k \in 1..i : k \in 1..i - 1 \/ (k = i /\ rs[k] = r) OBVIOUS
<1>2. r.hash \notin DOMAIN cache => j < i BY DEF First
<1>3. Scanned(b) /\ b.truncated \in BOOLEAN /\ List(b.rows) /\ List(b.pending)
  BY DEF Underway, Scanned
<1>4. Whole(b.tokens) BY DEF Underway
<1>5. b.tokens \in Nat
  <2>1. 0 \in 0..BatchSize BY PaidFacts
  <2> QED BY <1>4, <2>1, Batches
<1>6. Len(b.pending) \in Nat BY <1>3, ListFacts
<1> HIDE DEF r
<1>7. CASE b.truncated
  <2>1. Scan(bad, b, r) = b BY <1>7 DEF Scan
  <2> QED BY <1>7, <2>1 DEF Underway, r
<1>8. CASE ~b.truncated /\ r.hash \in DOMAIN cache
  <2> DEFINE c == Hit(b, r)
             row == [hash |-> r.hash, text |-> cache[r.hash]]
  <2>1. Scan(bad, b, r) = c BY <1>8 DEF Scan
  <2>2. /\ Scanned(c) /\ c.rows = Append(b.rows, row) /\ c.pending = b.pending
        /\ c.truncated = b.truncated /\ c.tokens = b.tokens
    BY <1>3, HitFacts
  <2>3. row.hash = r.hash OBVIOUS
  <2> HIDE DEF row, c
  <2>4. Hashes(c.rows) = Hashes(b.rows) \cup {r.hash}
    <3>1. Hashes(Append(b.rows, row)) = Hashes(b.rows) \cup {row.hash}
      BY <1>3, HashesAppended
    <3> QED BY <2>2, <2>3, <3>1, Zenon
  <2>5. Passed(c, rs, j, i) BY <1>1, <1>8, <2>2, <2>4 DEF Underway, Passed
  <2>6. c.tokens + Len(c.pending) = 0 \/ j + c.tokens + Len(c.pending) <= i
    BY <1>5, <1>6, <1>8, <2>2 DEF Underway
  <2>7. Underway(c, rs, j, i) BY <1>4, <1>8, <2>2, <2>5, <2>6 DEF Underway
  <2> QED BY <2>1, <2>7 DEF r
<1>9. CASE ~b.truncated /\ r.hash \notin DOMAIN cache
  <2> DEFINE c == Waiting(b, r)
             d == Flush(c, bad)
  <2>1. Scan(bad, b, r) = IF Len(c.pending) >= BatchSize THEN d ELSE c
    BY <1>9 DEF Scan, Miss, Waiting
  <2>2. /\ Scanned(c) /\ c.pending = Append(b.pending, r)
        /\ c.rows = b.rows /\ c.truncated = b.truncated /\ c.tokens = b.tokens
    BY <1>3, WaitingFacts
  <2> HIDE DEF c
  <2>3. Hashes(c.pending) = Hashes(b.pending) \cup {r.hash}
        /\ Len(c.pending) = Len(b.pending) + 1
    <3>1. /\ Hashes(Append(b.pending, r)) = Hashes(b.pending) \cup {r.hash}
          /\ Len(Append(b.pending, r)) = Len(b.pending) + 1
      BY <1>3, HashesAppended
    <3> QED BY <2>2, <3>1, Zenon
  <2>4. Len(b.pending) < BatchSize /\ Len(c.pending) <= BatchSize
    BY <1>6, <1>9, <2>3, PaidFacts DEF Underway
  <2>5. j + c.tokens + Len(c.pending) <= i /\ j + c.tokens < i
    BY <1>2, <1>5, <1>6, <1>9, <2>2, <2>3 DEF Underway
  <2>6. Passed(c, rs, j, i)
    <3> SUFFICES ASSUME NEW k \in 1..i
                 PROVE  /\ rs[k].hash \in Hashes(c.rows) \cup Hashes(c.pending)
                        /\ k <= j + c.tokens => rs[k].hash \in Hashes(c.rows)
      BY DEF Passed
    <3>1. k \in 1..i - 1 \/ (k = i /\ rs[k] = r) BY <1>1
    <3>2. CASE k \in 1..i - 1 BY <1>9, <2>2, <2>3, <3>2 DEF Underway, Passed
    <3>3. CASE k = i /\ rs[k] = r BY <1>5, <2>2, <2>3, <2>5, <3>3
    <3> QED BY <3>1, <3>2, <3>3
  <2>7. CASE Len(c.pending) < BatchSize
    <3>1. ~(Len(c.pending) >= BatchSize) BY <1>6, <2>3, <2>7, PaidFacts
    <3>2. Underway(c, rs, j, i) BY <1>4, <1>9, <2>2, <2>5, <2>6, <2>7 DEF Underway
    <3> QED BY <2>1, <3>1, <3>2 DEF r
  <2>8. CASE Len(c.pending) = BatchSize
    <3>1. ~c.truncated /\ Whole(c.tokens) BY <1>4, <1>9, <2>2
    <3>2. c.batch \notin bad BY <1>3 DEF c, Waiting, Scanned
    <3>3. Underway(Flush(c, bad), rs, j, i)
      BY <2>2, <2>5, <2>6, <2>8, <3>1, <3>2, FullUnderway
    <3> QED BY <2>1, <2>8, <3>3, PaidFacts DEF r
  <2> QED BY <1>6, <2>3, <2>4, <2>7, <2>8, PaidFacts
<1> QED BY <1>3, <1>7, <1>8, <1>9 DEF r

\* If the first j texts are in the cache and nothing fails, embed_batch returns as many
\* more as the cap pays for, and their order is that of the requests.
LEMMA EmbedReach ==
  ASSUME NEW rs, List(rs), NEW j \in Nat, First(rs, j, DOMAIN cache)
  PROVE  First(rs, j + Paid, Hashes(EmbedBatch(rs, {}).rows))
<1> DEFINE N == Len(rs)
           b == ScanAll(rs, {})
           c == EmbedBatch(rs, {})
<1>1. N \in Nat BY ListFacts
<1>2. PICK f : /\ f[0] = NoBatch /\ b = f[N]
               /\ \A n \in 1..N : f[n] = Scan({}, f[n - 1], rs[n])
  BY ScanAllSteps
<1>3. c = IF b.pending # <<>> /\ ~b.truncated THEN Flush(b, {}) ELSE b BY DEF EmbedBatch
<1> HIDE DEF b, c
<1> DEFINE T == {n \in 0..N : Underway(f[n], rs, j, n)}
<1>4. 0 \in T
  <2>1. List(<<>>) /\ Len(<<>>) = 0 BY NoRows DEF Encoding
  <2>2. Whole(0) /\ 0 < BatchSize BY NothingPaid, PaidFacts
  <2>3. Underway(NoBatch, rs, j, 0) BY <2>1, <2>2 DEF Underway, Scanned, NoBatch, Passed
  <2> QED BY <1>1, <1>2, <2>3
<1>5. ASSUME NEW n \in 1..N, n - 1 \in T PROVE n \in T
  <2>1. Underway(f[n - 1], rs, j, n - 1) /\ n \in Nat \ {0} /\ n <= Len(rs) BY <1>1, <1>5
  <2> DEFINE x == f[n - 1]
  <2> HIDE DEF x
  <2>3. x.batch \notin {} OBVIOUS
  <2>2. Underway(Scan({}, x, rs[n]), rs, j, n) BY <2>1, <2>3, ScanUnderway DEF x
  <2> QED BY <1>1, <1>2, <2>2 DEF x
<1> HIDE DEF T
<1>6. N \in T BY <1>1, <1>4, <1>5, Trace
<1>7. Underway(b, rs, j, N) BY <1>2, <1>6 DEF T
<1>8. Scanned(b) /\ List(b.pending) /\ b.truncated \in BOOLEAN BY <1>7 DEF Underway, Scanned
<1>9. CASE b.truncated BY <1>3, <1>7, <1>9 DEF Underway, c
<1>10. CASE ~b.truncated /\ b.pending = <<>>
  <2>1. Hashes(b.pending) = {} BY <1>10, NoRows
  <2>2. \A k \in 1..N : rs[k].hash \in Hashes(b.rows) BY <1>7, <1>10, <2>1 DEF Underway, Passed
  <2> QED BY <1>1, <1>3, <1>10, <2>2 DEF First, c
<1>11. CASE ~b.truncated /\ b.pending # <<>>
  <2> DEFINE d == Flush(b, {})
  <2>1. c = d BY <1>3, <1>11
  <2>2. Len(b.pending) \in Nat /\ Len(b.pending) # 0
    <3> DEFINE p == b.pending
               S == ToSet(p)
    <3>1. p \in Seq(S) /\ p # <<>> BY <1>8, <1>11 DEF List
    <3> HIDE DEF p, S
    <3>2. Len(p) \in Nat /\ Len(p) # 0 BY <3>1
    <3> QED BY <3>2 DEF p
  <2>3. Whole(b.tokens) BY <1>7 DEF Underway
  <2>4. b.tokens \in Nat
    <3>1. 0 \in 0..BatchSize BY PaidFacts
    <3> QED BY <2>3, <3>1, Batches
  <2>5. /\ Len(b.pending) <= BatchSize /\ j + b.tokens + Len(b.pending) <= N
        /\ Passed(b, rs, j, N)
    BY <1>7, <1>11, <2>2, <2>4, PaidFacts DEF Underway
  <2>6. /\ d.truncated => b.truncated \/ First(rs, j + Paid, Hashes(d.rows))
        /\ ~d.truncated => \A k \in 1..N : rs[k].hash \in Hashes(d.rows)
    <3> HIDE DEF N
    <3> QED BY <1>1, <1>8, <2>3, <2>5, FlushUnderway
  <2> HIDE DEF d
  <2> QED BY <1>1, <1>11, <2>1, <2>6 DEF First, c
<1> QED BY <1>8, <1>9, <1>10, <1>11

-----------------------------------------------------------------------------
(* Catching up.                                                             *)

\* All that the sources hold on the day, in the order in which a run embeds it.
AllRequests == Requests(FullGraph[day], Artifact[day]["docs"])

\* The texts that q runs pay for.
Reach(q) == q * Paid

\* Each run reaches as many texts more as it pays for.
LEMMA ReachFacts ==
  /\ Reach(0) = 0
  /\ \A q \in Nat : Reach(q) \in Nat
  /\ \A q \in Nat \ {0} : Reach(q - 1) + Paid = Reach(q)
  /\ \A p, q \in Nat : p <= q => Reach(p) <= Reach(q)
<1>1. Paid \in Nat BY PaidFacts
<1> QED BY <1>1 DEF Reach

\* Fewer of the first, and more hashes.
LEMMA FirstFewer ==
  ASSUME NEW rs, NEW m \in Nat, NEW n \in Nat, m <= n, NEW S, NEW T, S \subseteq T,
         First(rs, n, S)
  PROVE  First(rs, m, T)
  BY DEF First

\* Once the sources have settled, a run plans all of them, reads what they hold on the day
\* and builds the graph of just that.
Resting ==
    /\ quiet \in 0..QuietRuns + 1
    /\ phase = "idle" => \A s \in Sources : staged[s] = None
    /\ ~settled => quiet = 0
    /\ settled /\ phase # "idle" =>
          /\ quiet > 0 /\ plan = Sources
          /\ \A s \in Sources : staged[s] \in {None, Artifact[day][s]}
    /\ settled /\ phase \in {"embed", "upsert", "promote"} =>
          graph = FullGraph[day] /\ staged["docs"] = Artifact[day]["docs"]

\* What was promoted is what the sources hold, and all of it can be searched.
Current ==
    active # None /\ active.texts \subseteq DOMAIN index /\ active.graph = FullGraph[day]

\* Each run that has been through embed has brought the cache as far on as the cap pays
\* for, and hands what it has on to the index; after enough runs all is promoted.
Caught ==
    settled =>
      /\ phase = "idle" => First(AllRequests, Reach(quiet), DOMAIN cache)
      /\ phase \in {"extract", "embed"} => First(AllRequests, Reach(quiet - 1), DOMAIN cache)
      /\ phase \in {"upsert", "promote"} => First(AllRequests, Reach(quiet), DOMAIN cache)
      /\ phase = "upsert" => First(AllRequests, Reach(quiet), Hashes(embedded.rows))
      /\ phase = "promote" => First(AllRequests, Reach(quiet), DOMAIN index)
      /\ quiet > QuietRuns \/ (quiet = QuietRuns /\ phase = "idle") => Current

\* When nothing fails, each task does its work.
LEMMA QuietMoves ==
  ASSUME Placed, settled, [Next]_vars
  PROVE  /\ day' = day /\ settled' = settled
         /\ \/ UNCHANGED vars
            \/ /\ phase = "idle" /\ phase' = "extract" /\ plan' = Sources
               /\ quiet' = IF quiet <= QuietRuns THEN quiet + 1 ELSE quiet
               /\ UNCHANGED <<staged, graph, embedded, storeVars>>
            \/ /\ phase = "extract"
               /\ \E s \in Sources : staged' = [staged EXCEPT ![s] = Artifact[day][s]]
               /\ UNCHANGED <<phase, plan, graph, embedded, quiet, storeVars>>
            \/ /\ phase = "extract" /\ phase' = "embed"
               /\ \A s \in Sources : staged[s] # None
               /\ graph' = BuildGraph(Loaded("sdk"), HandAuthored(SkillSetting),
                                      Loaded("openapi"), Loaded("docs"), Loaded("labs"))
               /\ UNCHANGED <<plan, staged, embedded, quiet, storeVars>>
            \/ /\ phase = "embed" /\ phase' = "upsert"
               /\ LET b == EmbedBatch(Requests(graph, Loaded("docs")), {})
                  IN cache' = CacheAfter(b.rows) /\ embedded'.rows = b.rows
               /\ UNCHANGED <<plan, staged, graph, quiet, index, active>>
            \/ /\ phase = "upsert" /\ phase' = "promote"
               /\ index' = IndexAfter(embedded.rows, {})
               /\ UNCHANGED <<plan, staged, graph, embedded, quiet, cache, active>>
            \/ /\ phase = "promote" /\ EndRun
               /\ \E reported \in BOOLEAN :
                     active' = [texts |-> Texts, graph |-> graph, reported |-> reported]
               /\ UNCHANGED <<quiet, cache, index>>
<1>1. ~Fault /\ (\A w : FaultUnless(w) => w) BY DEF Fault, FaultUnless
<1>2. ~ExtractFails /\ ~Change /\ ~Settle BY <1>1 DEF ExtractFails, Change, Settle
<1>3. day' = day /\ settled' = settled
  <2>1. CASE UNCHANGED vars BY <2>1 DEF vars, worldVars
  <2> QED BY <1>2, <2>1, WorldStands DEF Next
<1>4. CASE UNCHANGED vars BY <1>3, <1>4
<1>5. CASE Plan
  <2>1. /\ phase = "idle" /\ phase' = "extract" /\ plan' = Sources
        /\ quiet' = IF quiet <= QuietRuns THEN quiet + 1 ELSE quiet
        /\ UNCHANGED <<staged, graph, embedded, storeVars>>
    BY <1>5 DEF Plan, Goto
  <2> QED BY <1>3, <2>1
<1>6. CASE \E s \in Sources : Extract(s) BY <1>1, <1>3, <1>6 DEF Extract
<1>7. CASE Build
  <2>1. PICK setting \in SkillSettings :
           /\ FaultUnless(setting = SkillSetting)
           /\ \/ /\ HandAuthored(setting) # None
                 /\ graph' = BuildGraph(Loaded("sdk"), HandAuthored(setting),
                                        Loaded("openapi"), Loaded("docs"), Loaded("labs"))
                 /\ Goto("embed")
                 /\ UNCHANGED <<plan, staged, embedded>>
              \/ HandAuthored(setting) = None
    BY <1>7 DEF Build
  <2>2. setting = SkillSetting
    <3>1. FaultUnless(setting = SkillSetting) BY <2>1
    <3> QED BY <1>1, <3>1 DEF FaultUnless
  <2>3. HandAuthored(SkillSetting) # None BY QuietAssumption
  <2>4. /\ phase = "extract" /\ \A s \in Sources : staged[s] # None
        /\ UNCHANGED <<quiet, storeVars>>
    BY <1>7 DEF Build
  <2>5. /\ graph' = BuildGraph(Loaded("sdk"), HandAuthored(SkillSetting),
                               Loaded("openapi"), Loaded("docs"), Loaded("labs"))
        /\ phase' = "embed" /\ UNCHANGED <<plan, staged, embedded>>
    BY <2>1, <2>2, <2>3 DEF Goto
  <2> QED BY <1>3, <2>4, <2>5
<1>8. CASE Embed
  <2>1. PICK bad \in Outages :
           LET b == EmbedBatch(Requests(graph, Loaded("docs")), bad)
           IN /\ cache' = CacheAfter(b.rows)
              /\ FaultUnless(bad = {}) /\ Goto("upsert")
              /\ embedded' = [rows |-> b.rows, errors |-> b.errors,
                              truncated |-> b.truncated]
              /\ UNCHANGED <<plan, staged, graph>>
    BY <1>1, <1>8 DEF Embed
  <2>2. bad = {}
    <3>1. FaultUnless(bad = {}) BY <2>1
    <3> QED BY <1>1, <3>1 DEF FaultUnless
  <2>3. phase = "embed" /\ UNCHANGED <<quiet, index, active>> BY <1>8 DEF Embed
  <2>4. LET b == EmbedBatch(Requests(graph, Loaded("docs")), bad)
        IN /\ cache' = CacheAfter(b.rows) /\ embedded'.rows = b.rows
           /\ phase' = "upsert" /\ UNCHANGED <<plan, staged, graph>>
    BY <2>1 DEF Goto
  <2> QED BY <1>3, <2>2, <2>3, <2>4
<1>9. CASE VsUpsert
  <2>1. /\ phase = "upsert" /\ phase' = "promote"
        /\ index' = IndexAfter(embedded.rows, {})
        /\ UNCHANGED <<plan, staged, graph, embedded>>
    BY <1>1, <1>9 DEF VsUpsert, Goto
  <2>2. UNCHANGED <<quiet, cache, active>> BY <1>9 DEF VsUpsert
  <2> QED BY <1>3, <2>1, <2>2
<1>10. CASE Promote
  <2> DEFINE reported == embedded.errors # {} \/ embedded.truncated
  <2>1. PICK passed \in BOOLEAN :
           /\ FaultUnless(passed)
           /\ active' = IF ~passed THEN active
                        ELSE [texts |-> Texts, graph |-> graph, reported |-> reported]
    BY <1>10 DEF Promote
  <2>2. passed
    <3>1. FaultUnless(passed) BY <2>1
    <3> QED BY <1>1, <3>1 DEF FaultUnless
  <2>3. phase = "promote" /\ EndRun /\ UNCHANGED <<quiet, cache, index>>
    BY <1>10 DEF Promote
  <2>4. reported \in BOOLEAN OBVIOUS
  <2> HIDE DEF reported
  <2>5. active' = [texts |-> Texts, graph |-> graph, reported |-> reported] BY <2>1, <2>2
  <2> QED BY <1>3, <2>3, <2>4, <2>5
<1> QED BY <1>2, <1>4, <1>5, <1>6, <1>7, <1>8, <1>9, <1>10 DEF Next, Task

\* A run of the settled sources reads them and nothing else.
LEMMA RestingStep == Placed /\ Resting /\ [Next]_vars => Resting'
<1> SUFFICES ASSUME Placed, Resting, [Next]_vars PROVE Resting' OBVIOUS
<1>1. QuietRuns \in Nat BY IndexingAssumption
<1>2. phase' = "idle" => \A s \in Sources : staged'[s] = None
  <2>1. CASE EndRun BY <2>1 DEF EndRun
  <2>2. CASE UNCHANGED <<phase, plan, staged, graph, embedded>> BY <2>2 DEF Resting
  <2>3. CASE Plan \/ (\E s \in Sources : Extract(s)) BY <2>3 DEF Plan, Extract, Goto
  <2> QED BY <2>1, <2>2, <2>3, Moves
<1>3. CASE ~settled'
  <2>1. ~settled
    <3>1. CASE Change \/ Settle BY <1>3, <3>1 DEF Change, Settle
    <3>2. CASE Task \/ ExtractFails BY <1>3, <3>2, WorldStands
    <3>3. CASE UNCHANGED vars BY <1>3, <3>3 DEF vars, worldVars
    <3> QED BY <3>1, <3>2, <3>3 DEF Next
  <2>2. quiet' = quiet
    <3>1. CASE Task
      BY <2>1, <3>1 DEF Task, Plan, Extract, Build, Embed, VsUpsert, Promote
    <3>2. CASE ~Task BY <3>2 DEF Next, ExtractFails, Change, Settle, vars
    <3> QED BY <3>1, <3>2
  <2> QED BY <1>1, <1>2, <1>3, <2>1, <2>2 DEF Resting
<1>4. CASE settled' /\ ~settled
  <2>1. Settle
    <3>1. CASE Change BY <1>4, <3>1 DEF Change
    <3>2. CASE Task \/ ExtractFails BY <1>4, <3>2, WorldStands
    <3>3. CASE UNCHANGED vars BY <1>4, <3>3 DEF vars, worldVars
    <3> QED BY <3>1, <3>2, <3>3 DEF Next
  <2>2. phase' = "idle" /\ quiet' = quiet BY <2>1 DEF Settle, runVars
  <2> QED BY <1>1, <1>2, <1>4, <2>2 DEF Resting
<1>5. CASE settled' /\ settled
  <2>1. day' = day BY <1>5, QuietMoves
  <2>2. CASE UNCHANGED vars BY <2>2 DEF vars, worldVars, runVars, storeVars, Resting
  <2>3. CASE /\ phase = "idle" /\ phase' = "extract" /\ plan' = Sources
             /\ quiet' = IF quiet <= QuietRuns THEN quiet + 1 ELSE quiet
             /\ UNCHANGED <<staged, graph, embedded, storeVars>>
    <3>1. quiet' \in 0..QuietRuns + 1 /\ quiet' > 0 BY <1>1, <2>3 DEF Resting
    <3> QED BY <1>5, <2>1, <2>3, <3>1 DEF Resting
  <2>4. CASE /\ phase = "extract"
             /\ \E s \in Sources : staged' = [staged EXCEPT ![s] = Artifact[day][s]]
             /\ UNCHANGED <<phase, plan, graph, embedded, quiet, storeVars>>
    <3>1. PICK s \in Sources : staged' = [staged EXCEPT ![s] = Artifact[day][s]] BY <2>4
    <3>2. \A t \in Sources : staged'[t] \in {None, Artifact[day][t]}
      BY <1>5, <2>4, <3>1 DEF Resting, Placed
    <3> QED BY <1>5, <2>1, <2>4, <3>2 DEF Resting
  <2>5. CASE /\ phase = "extract" /\ phase' = "embed"
             /\ \A s \in Sources : staged[s] # None
             /\ graph' = BuildGraph(Loaded("sdk"), HandAuthored(SkillSetting),
                                    Loaded("openapi"), Loaded("docs"), Loaded("labs"))
             /\ UNCHANGED <<plan, staged, embedded, quiet, storeVars>>
    <3>1. \A s \in Sources : Loaded(s) = Artifact[day][s] /\ staged[s] = Artifact[day][s]
      BY <1>5, <2>5 DEF Resting, Loaded
    <3>2. /\ Loaded("sdk") = Artifact[day]["sdk"] /\ Loaded("openapi") = Artifact[day]["openapi"]
          /\ Loaded("docs") = Artifact[day]["docs"] /\ Loaded("labs") = Artifact[day]["labs"]
          /\ staged["docs"] = Artifact[day]["docs"]
      BY <3>1 DEF Sources
    <3>3. FullGraph[day] =
            BuildGraph(Artifact[day]["sdk"], HandAuthored(SkillSetting), Artifact[day]["openapi"],
                       Artifact[day]["docs"], Artifact[day]["labs"])
      <4>1. day \in 1..Len(Days) BY DEF Placed
      <4> QED BY <4>1 DEF FullGraph
    <3>4. graph' = FullGraph[day] BY <2>5, <3>2, <3>3
    <3> QED BY <1>5, <2>1, <2>5, <3>2, <3>4 DEF Resting
  <2>6. CASE /\ phase \in {"embed", "upsert"} /\ phase' \in {"upsert", "promote"}
             /\ UNCHANGED <<plan, staged, graph, quiet>>
    BY <1>5, <2>1, <2>6 DEF Resting
  <2>7. CASE phase = "promote" /\ EndRun /\ quiet' = quiet
    <3>1. phase' = "idle" BY <2>7 DEF EndRun, Goto
    <3> QED BY <1>2, <1>5, <2>7, <3>1 DEF Resting
  <2> QED BY <1>5, <2>2, <2>3, <2>4, <2>5, <2>6, <2>7, QuietMoves
<1> QED BY <1>3, <1>4, <1>5

\* What a run of the settled sources embeds is all that they hold.
LEMMA RestingTexts ==
  ASSUME Placed, Resting, settled, phase \in {"embed", "upsert", "promote"}
  PROVE  /\ graph = FullGraph[day] /\ Requests(graph, Loaded("docs")) = AllRequests
         /\ Texts = Hashes(AllRequests) /\ Texts = FullTexts(day)
<1>1. /\ graph = FullGraph[day] /\ staged["docs"] = Artifact[day]["docs"] /\ plan = Sources
  BY DEF Resting
<1>2. Loaded("docs") = Artifact[day]["docs"] BY <1>1 DEF Loaded, Sources
<1> QED BY <1>1, <1>2 DEF AllRequests, Texts, Hashes, FullTexts

\* Their number is that of the texts, and so within the reach of the quiet runs.
LEMMA AllFit ==
  ASSUME Placed, Telling(AllRequests)
  PROVE  Len(AllRequests) \in Nat /\ Len(AllRequests) <= Reach(QuietRuns)
<1> DEFINE rs == AllRequests
           N == Len(rs)
           S == Hashes(rs)
           f == [i \in 1..N |-> rs[i].hash]
<1>1. S = FullTexts(day) BY DEF Hashes, FullTexts, AllRequests
<1>2. /\ N \in Nat /\ ToSet(rs) = {rs[i] : i \in 1..N}
      /\ \A i, j \in 1..N : rs[i].hash = rs[j].hash => i = j
  BY ListFacts DEF Telling
<1>3. S = {rs[i].hash : i \in 1..N} BY <1>2 DEF Hashes
<1> HIDE DEF N, S, rs
<1>4. f \in Bijection(1..N, S)
  BY <1>2, <1>3 DEF Bijection, Injection, Surjection, IsInjective
<1>5. Cardinality(S) = N BY <1>2, <1>4, FS_CountingElements DEF ExistsBijection
<1>6. Cardinality(S) <= QuietRuns * BatchSize * (TokenCap \div BatchSize)
  <2>1. day \in 1..Len(Days) BY DEF Placed
  <2> QED BY <1>1, <2>1, QuietAssumption
<1>7. QuietRuns * BatchSize * (TokenCap \div BatchSize) = Reach(QuietRuns)
  <2> DEFINE B == BatchSize
             C == TokenCap \div BatchSize
  <2>1. QuietRuns \in Nat /\ B \in Nat /\ C \in Nat BY IndexingAssumption
  <2> HIDE DEF B, C
  <2>2. QuietRuns * B * C = QuietRuns * (B * C) BY <2>1
  <2> QED BY <2>2 DEF B, C, Reach, Paid
<1> QED BY <1>2, <1>5, <1>6, <1>7 DEF N, rs

\* Each run brings the settled job as far on as the cap pays for.
LEMMA CaughtStep ==
  Placed /\ Staged /\ Built /\ Stored /\ Resting /\ Caught /\ [Next]_vars => Caught'
<1> SUFFICES ASSUME Placed, Staged, Built, Stored, Resting, Caught, [Next]_vars, settled'
             PROVE  Caught'
  BY DEF Caught
<1>1. QuietRuns \in Nat \ {0} /\ quiet \in Nat BY IndexingAssumption DEF Resting
<1>2. CASE ~settled
  <2>1. Settle
    <3>1. CASE Change BY <1>2, <3>1 DEF Change
    <3>2. CASE Task \/ ExtractFails BY <1>2, <3>2, WorldStands
    <3>3. CASE UNCHANGED vars BY <1>2, <3>3 DEF vars, worldVars
    <3> QED BY <3>1, <3>2, <3>3 DEF Next
  <2>2. phase' = "idle" /\ quiet' = 0 BY <1>2, <2>1 DEF Settle, runVars, Resting
  <2>3. Reach(quiet') = 0 BY <2>2, ReachFacts
  <2>4. First(AllRequests', Reach(quiet'), DOMAIN cache') BY <2>3 DEF First
  <2> QED BY <1>1, <2>2, <2>4 DEF Caught
<1>3. CASE settled
  <2>1. day' = day /\ settled' = settled BY <1>3, QuietMoves
  <2>2. AllRequests' = AllRequests BY <2>1 DEF AllRequests
  <2>3. phase \in {"embed", "upsert", "promote"} =>
          /\ Telling(AllRequests) /\ graph = FullGraph[day]
          /\ Requests(graph, Loaded("docs")) = AllRequests
          /\ Texts = Hashes(AllRequests) /\ Texts = FullTexts(day)
    BY <1>3, RestingTexts, RunTexts, RequestsFacts
  <2>4. phase # "idle" => quiet \in Nat \ {0} BY <1>1, <1>3 DEF Resting
  <2>5. ASSUME UNCHANGED active, DOMAIN index \subseteq DOMAIN index', Current PROVE Current'
    BY <2>1, <2>5 DEF Current
  <2>6. CASE UNCHANGED vars
    <3>1. Current' = Current BY <2>1, <2>6 DEF vars, storeVars, Current
    <3> QED BY <1>3, <2>2, <2>6, <3>1 DEF Caught, vars, worldVars, runVars, storeVars
  <2>7. CASE /\ phase = "idle" /\ phase' = "extract" /\ plan' = Sources
             /\ quiet' = IF quiet <= QuietRuns THEN quiet + 1 ELSE quiet
             /\ UNCHANGED <<staged, graph, embedded, storeVars>>
    <3>1. cache' = cache /\ index' = index /\ active' = active BY <2>7 DEF storeVars
    <3>2. First(AllRequests, Reach(quiet), DOMAIN cache) BY <1>3, <2>7 DEF Caught
    <3>3. quiet' - 1 \in Nat /\ quiet' - 1 <= quiet
      <4>1. quiet <= QuietRuns \/ (quiet = QuietRuns + 1) BY <1>1 DEF Resting
      <4> QED BY <1>1, <2>7, <4>1
    <3>4. First(AllRequests, Reach(quiet' - 1), DOMAIN cache)
      <4>1. /\ Reach(quiet' - 1) \in Nat /\ Reach(quiet) \in Nat
            /\ Reach(quiet' - 1) <= Reach(quiet)
        BY <1>1, <3>3, ReachFacts
      <4> QED BY <3>2, <4>1, FirstFewer
    <3>5. quiet' > QuietRuns => Current'
      <4>1. quiet' > QuietRuns => quiet > QuietRuns \/ quiet = QuietRuns BY <1>1, <2>7
      <4>2. quiet' > QuietRuns => Current BY <1>3, <2>7, <4>1 DEF Caught
      <4> QED BY <2>5, <3>1, <4>2
    <3> QED BY <2>2, <2>7, <3>1, <3>4, <3>5 DEF Caught
  <2>8. CASE /\ phase = "extract" /\ phase' \in {"extract", "embed"}
             /\ UNCHANGED <<quiet, storeVars>>
    <3>1. cache' = cache /\ index' = index /\ active' = active BY <2>8 DEF storeVars
    <3>2. Current' = Current BY <2>1, <3>1 DEF Current
    <3> QED BY <1>3, <2>2, <2>8, <3>1, <3>2 DEF Caught
  <2>9. CASE /\ phase = "embed" /\ phase' = "upsert"
             /\ LET b == EmbedBatch(Requests(graph, Loaded("docs")), {})
                IN cache' = CacheAfter(b.rows) /\ embedded'.rows = b.rows
             /\ UNCHANGED <<plan, staged, graph, quiet, index, active>>
    <3> DEFINE rs == AllRequests
               rows == EmbedBatch(rs, {}).rows
    <3>1. cache' = CacheAfter(rows) /\ embedded'.rows = rows BY <2>3, <2>9
    <3>2. Telling(rs) /\ List(rs) BY <2>3, <2>9 DEF Telling
    <3>3. First(rs, Reach(quiet - 1), DOMAIN cache) /\ Reach(quiet - 1) \in Nat
      BY <1>3, <2>4, <2>9, ReachFacts DEF Caught
    <3>4. Reach(quiet - 1) + Paid = Reach(quiet) BY <2>4, <2>9, ReachFacts
    <3>5. First(rs, Reach(quiet), Hashes(rows))
      <4> DEFINE j == Reach(quiet - 1)
      <4> HIDE DEF rs, j
      <4>1. First(rs, j + Paid, Hashes(EmbedBatch(rs, {}).rows)) BY <3>2, <3>3, EmbedReach DEF j
      <4> QED BY <3>4, <4>1 DEF j
    <3>6. Encoding(rows) BY <3>2, EmbedFacts DEF Stored, Cached
    <3> HIDE DEF rows, rs
    <3>7. First(rs, Reach(quiet), DOMAIN cache')
      <4>1. CASE rows = <<>>
        <5>1. Hashes(rows) = {} BY <4>1, NoRows
        <5> QED BY <3>5, <5>1 DEF First
      <4>2. CASE rows # <<>>
        <5>1. cache' = TextByHash(rows) BY <3>1, <4>2 DEF CacheAfter
        <5>2. DOMAIN cache' = Hashes(rows) BY <3>6, <5>1, TextByHashFacts
        <5> QED BY <3>5, <5>2
      <4> QED BY <4>1, <4>2
    <3>8. Current' = Current BY <2>1, <2>9 DEF Current
    <3> QED BY <1>3, <2>2, <2>9, <3>1, <3>5, <3>7, <3>8 DEF Caught, rs
  <2>10. CASE /\ phase = "upsert" /\ phase' = "promote"
              /\ index' = IndexAfter(embedded.rows, {})
              /\ UNCHANGED <<plan, staged, graph, embedded, quiet, cache, active>>
    <3> DEFINE rows == embedded.rows
    <3>1. Encoding(rows) /\ Indexed /\ Hashed(graph) /\ Pages(Loaded("docs"))
      BY <2>10, RunTexts DEF Stored, Handed
    <3>2. First(AllRequests, Reach(quiet), Hashes(rows)) BY <1>3, <2>10 DEF Caught
    <3>3. index' = IndexAfter(rows, {}) BY <2>10
    <3> HIDE DEF rows
    <3>4. DOMAIN index \subseteq DOMAIN index' /\ Texts \cap Hashes(rows) \subseteq DOMAIN index'
      BY <3>1, <3>3, IndexFacts
    <3>5. First(AllRequests, Reach(quiet), DOMAIN index')
      <4>1. /\ Len(AllRequests) \in Nat
            /\ \A k \in 1..Len(AllRequests) : AllRequests[k].hash \in Texts
        BY <2>3, <2>10, ListFacts DEF Telling, Hashes
      <4> QED BY <3>2, <3>4, <4>1 DEF First
    <3>6. Current => Current' BY <2>5, <2>10, <3>4
    <3> QED BY <1>3, <2>2, <2>10, <3>5, <3>6 DEF Caught
  <2>11. CASE /\ phase = "promote" /\ EndRun
              /\ \E reported \in BOOLEAN :
                    active' = [texts |-> Texts, graph |-> graph, reported |-> reported]
              /\ UNCHANGED <<quiet, cache, index>>
    <3>1. phase' = "idle" BY <2>11 DEF EndRun, Goto
    <3>2. PICK reported \in BOOLEAN :
             active' = [texts |-> FullTexts(day), graph |-> FullGraph[day],
                        reported |-> reported]
      BY <2>3, <2>11
    <3>3. active' # None
      <4>1. day \in 1..Len(Days) BY DEF Placed
      <4> QED BY <3>2, <4>1, QuietAssumption
    <3>4. active'.texts = Texts /\ active'.graph = FullGraph[day] BY <2>3, <2>11, <3>2
    <3>5. quiet >= QuietRuns => Texts \subseteq DOMAIN index
      <4> SUFFICES ASSUME quiet >= QuietRuns PROVE Texts \subseteq DOMAIN index OBVIOUS
      <4>1. Len(AllRequests) \in Nat /\ Len(AllRequests) <= Reach(QuietRuns)
        BY <2>3, <2>11, AllFit
      <4>2. Reach(QuietRuns) <= Reach(quiet) /\ Reach(quiet) \in Nat /\ Reach(QuietRuns) \in Nat
        BY <1>1, ReachFacts
      <4>3. First(AllRequests, Reach(quiet), DOMAIN index) BY <1>3, <2>11 DEF Caught
      <4>4. \A k \in 1..Len(AllRequests) : AllRequests[k].hash \in DOMAIN index
        BY <4>1, <4>2, <4>3 DEF First
      <4>5. ToSet(AllRequests) = {AllRequests[k] : k \in 1..Len(AllRequests)}
        BY <2>3, <2>11, ListFacts DEF Telling
      <4> QED BY <2>3, <2>11, <4>4, <4>5 DEF Hashes
    <3>6. quiet >= QuietRuns => Current'
      BY <2>1, <2>11, <3>3, <3>4, <3>5 DEF Current
    <3>7. First(AllRequests, Reach(quiet), DOMAIN cache) BY <1>3, <2>11 DEF Caught
    <3> QED BY <1>1, <2>2, <2>11, <3>1, <3>6, <3>7 DEF Caught
  <2> QED BY <1>3, <2>6, <2>7, <2>8, <2>9, <2>10, <2>11, QuietMoves
<1> QED BY <1>2, <1>3

\* The cap delays texts and never starves them: once the sources rest and nothing fails,
\* as many runs as the texts take under the cap leave a snapshot of just what the sources
\* hold, all of it in the index.
THEOREM CapNeverStarves == Spec => []CatchesUp
<1>1. Init => Placed /\ Staged /\ Built /\ Stored /\ Resting /\ Caught
  <2>1. Init => Staged /\ Built /\ Caught BY DEF Init, Staged, Built, Caught
  <2>2. Init => Stored
    <3>1. DOMAIN <<>> = {} OBVIOUS
    <3> QED BY <3>1, NoRows
            DEF Init, Stored, Cached, Handed, Indexed, Complete, NoEmbedding
  <2>3. Init => Resting
    <3>1. QuietRuns \in Nat BY IndexingAssumption
    <3> QED BY <3>1 DEF Init, Resting
  <2> QED BY <2>1, <2>2, <2>3, PlacedInit
<1>2. Resting /\ Caught => CatchesUp
  <2> SUFFICES ASSUME Resting, Caught, quiet > QuietRuns PROVE Current
    BY DEF CatchesUp, Current
  <2>1. QuietRuns \in Nat BY IndexingAssumption
  <2>2. settled BY <2>1 DEF Resting
  <2> QED BY <2>2 DEF Caught
<1> QED
  BY <1>1, <1>2, PlacedStep, StagedStep, BuiltStep, StoredStep, RestingStep, CaughtStep, PTL
  DEF Spec

-----------------------------------------------------------------------------
(* The chunks of a page that nests are what a reader sees of it.            *)

\* By how much a tag changes the depth in elements of some kind.
Deeper(e, tags) ==
    IF e[2] \notin tags THEN 0
    ELSE IF e[1] = "start" THEN 1 ELSE IF e[1] = "end" THEN -1 ELSE 0

\* The depth is that of one tag less and what the last tag does.
LEMMA DepthSteps ==
  ASSUME NEW html, NEW tags
  PROVE  /\ Depth(html, tags, 0) = 0
         /\ \A n \in Nat : Depth(html, tags, n) \in Int
         /\ \A n \in Nat \ {0} :
                Depth(html, tags, n) = Depth(html, tags, n - 1) + Deeper(html[n], tags)
<1> DEFINE of(kind, n) == {j \in 1..n : html[j][1] = kind /\ html[j][2] \in tags}
<1>1. \A n : Depth(html, tags, n) = Cardinality(of("start", n)) - Cardinality(of("end", n))
  BY DEF Depth
<1>2. ASSUME NEW kind, NEW n \in Nat
      PROVE  IsFiniteSet(of(kind, n)) /\ Cardinality(of(kind, n)) \in Nat
  <2>1. IsFiniteSet(1..n) BY FS_Interval
  <2>2. of(kind, n) \subseteq 1..n OBVIOUS
  <2> HIDE DEF of
  <2> QED BY <2>1, <2>2, FS_Subset, FS_CardinalityType
<1>3. ASSUME NEW kind
      PROVE  Cardinality(of(kind, 0)) = 0
  <2>1. of(kind, 0) = {} OBVIOUS
  <2> QED BY <2>1, FS_EmptySet
<1>4. ASSUME NEW kind, NEW n \in Nat \ {0}
      PROVE  Cardinality(of(kind, n)) =
               Cardinality(of(kind, n - 1)) +
                 (IF html[n][1] = kind /\ html[n][2] \in tags THEN 1 ELSE 0)
  <2>1. CASE html[n][1] = kind /\ html[n][2] \in tags
    <3>1. of(kind, n) = of(kind, n - 1) \cup {n} /\ n \notin of(kind, n - 1) BY <2>1
    <3>2. IsFiniteSet(of(kind, n - 1))
      <4>1. n - 1 \in Nat OBVIOUS
      <4> HIDE DEF of
      <4> QED BY <1>2, <4>1
    <3> HIDE DEF of
    <3> QED BY <2>1, <3>1, <3>2, FS_AddElement
  <2>2. CASE ~(html[n][1] = kind /\ html[n][2] \in tags)
    <3>1. of(kind, n) = of(kind, n - 1) BY <2>2
    <3>2. Cardinality(of(kind, n - 1)) \in Nat
      <4>1. n - 1 \in Nat OBVIOUS
      <4> HIDE DEF of
      <4> QED BY <1>2, <4>1
    <3> HIDE DEF of
    <3> QED BY <2>2, <3>1, <3>2
  <2> QED BY <2>1, <2>2
<1> HIDE DEF of
<1>5. "start" # "end" OBVIOUS
<1>6. ASSUME NEW n \in Nat \ {0}
      PROVE  Depth(html, tags, n) = Depth(html, tags, n - 1) + Deeper(html[n], tags)
  <2>1. n - 1 \in Nat /\ n \in Nat OBVIOUS
  <2>2. /\ Cardinality(of("start", n - 1)) \in Nat /\ Cardinality(of("end", n - 1)) \in Nat
        /\ Cardinality(of("start", n)) \in Nat /\ Cardinality(of("end", n)) \in Nat
    BY <1>2, <2>1
  <2>3. /\ Cardinality(of("start", n)) = Cardinality(of("start", n - 1)) +
             (IF html[n][1] = "start" /\ html[n][2] \in tags THEN 1 ELSE 0)
        /\ Cardinality(of("end", n)) = Cardinality(of("end", n - 1)) +
             (IF html[n][1] = "end" /\ html[n][2] \in tags THEN 1 ELSE 0)
    BY <1>4
  <2> QED BY <1>1, <1>5, <2>2, <2>3 DEF Deeper
<1>7. \A n \in Nat : Depth(html, tags, n) \in Int
  <2>1. ASSUME NEW n \in Nat
        PROVE  Cardinality(of("start", n)) \in Nat /\ Cardinality(of("end", n)) \in Nat
    BY <1>2
  <2> QED BY <1>1, <2>1
<1> QED BY <1>1, <1>3, <1>6, <1>7

\* The parser is in so many dropped elements, the titles and headings it knows of are open,
\* and what it has read of the text is this.
Shows(x, dropped, title, heading, text) ==
    /\ x.drop = dropped
    /\ x.inTitle <=> title = 1
    /\ x.level \in Nat /\ (x.level > 0 <=> heading = 1)
    /\ x.level = 0 => x.heading = <<>>
    /\ x.words \o x.heading = text

\* In a dropped element the parser keeps what it knows.
LEMMA DroppedShows ==
  ASSUME NEW W, NEW x, Html(x, W), NEW dropped \in Nat, NEW title, NEW heading, NEW text,
         Shows(x, dropped, title, heading, text), NEW e,
         e[1] \in {"start", "end", "data"},
         dropped > 0 \/ Deeper(e, DropTags) # 0,
         dropped + Deeper(e, DropTags) >= 0
  PROVE  Shows(Handle(x, e), dropped + Deeper(e, DropTags), title, heading, text)
<1>1. \A v : LET y == [x EXCEPT !.drop = v]
             IN /\ y.drop = v /\ y.inTitle = x.inTitle /\ y.level = x.level
                /\ y.heading = x.heading /\ y.words = x.words
  BY DEF Html
<1>2. x.drop = dropped BY DEF Shows
<1>3. "start" # "end" /\ "start" # "data" /\ "end" # "data" OBVIOUS
<1>4. ASSUME NEW v, v = dropped + Deeper(e, DropTags)
      PROVE  Shows([x EXCEPT !.drop = v], v, title, heading, text)
  BY <1>1 DEF Shows
<1>5. CASE e[1] = "data"
  <2>1. Deeper(e, DropTags) = 0 BY <1>3, <1>5 DEF Deeper
  <2>2. Handle(x, e) = x BY <1>2, <1>3, <1>5, <2>1 DEF Handle, HandleData
  <2> QED BY <2>1, <2>2
<1>6. CASE e[1] = "start"
  <2>1. CASE e[2] \in DropTags
    <3>1. Handle(x, e) = [x EXCEPT !.drop = x.drop + 1]
      BY <1>6, <2>1 DEF Handle, HandleStartTag
    <3>2. Deeper(e, DropTags) = 1 BY <1>6, <2>1 DEF Deeper
    <3> QED BY <1>2, <1>4, <3>1, <3>2
  <2>2. CASE e[2] \notin DropTags
    <3>1. Deeper(e, DropTags) = 0 BY <2>2 DEF Deeper
    <3>2. Handle(x, e) = x BY <1>2, <1>6, <2>2, <3>1 DEF Handle, HandleStartTag
    <3> QED BY <3>1, <3>2
  <2> QED BY <2>1, <2>2
<1>7. CASE e[1] = "end"
  <2>1. CASE e[2] \in DropTags
    <3>1. Deeper(e, DropTags) = -1 BY <1>3, <1>7, <2>1 DEF Deeper
    <3>2. Handle(x, e) = [x EXCEPT !.drop = IF x.drop > 0 THEN x.drop - 1 ELSE 0]
      BY <1>3, <1>7, <2>1 DEF Handle, HandleEndTag
    <3>3. Handle(x, e) = [x EXCEPT !.drop = dropped - 1] BY <1>2, <3>1, <3>2
    <3> QED BY <1>4, <3>1, <3>3
  <2>2. CASE e[2] \notin DropTags
    <3>1. Deeper(e, DropTags) = 0 BY <2>2 DEF Deeper
    <3>2. Handle(x, e) = x BY <1>2, <1>3, <1>7, <2>2, <3>1 DEF Handle, HandleEndTag
    <3> QED BY <3>1, <3>2
  <2> QED BY <2>1, <2>2
<1> QED BY <1>5, <1>6, <1>7

\* What the parser has read and where it is, apart from line breaks.
Alike(x, y) ==
    /\ y.drop = x.drop /\ y.inTitle = x.inTitle /\ y.level = x.level
    /\ y.heading = x.heading /\ y.words = x.words

\* The same with some words more.
Longer(x, y, words) ==
    /\ y.drop = x.drop /\ y.inTitle = x.inTitle /\ y.level = x.level
    /\ y.heading = x.heading /\ y.words = x.words \o words

\* Words written come last.
LEMMA WriteFacts ==
  ASSUME NEW W, NEW x, Html(x, W), NEW words \in Seq(W)
  PROVE  Longer(x, Write(x, words), words)
<1>1. x.words \in Seq(W) BY DEF Html
<1>2. CASE words = <<>>
  <2>1. x.words \o words = x.words BY <1>1, <1>2
  <2>2. Write(x, words) = x BY <1>2 DEF Write
  <2> QED BY <2>1, <2>2 DEF Longer
<1>3. CASE words # <<>>
  <2> DEFINE b == IF x.newlines > 1 THEN x.breaks \cup {Len(x.words)} ELSE x.breaks
  <2>1. Write(x, words) = [x EXCEPT !.words = x.words \o words, !.newlines = 0, !.breaks = b]
    BY <1>3 DEF Write
  <2> HIDE DEF b
  <2> QED BY <2>1 DEF Html, Longer
<1> QED BY <1>2, <1>3

\* A heading that ends is the last of the text.
LEMMA HeadingFacts ==
  ASSUME NEW W, NEW x, Html(x, W), x.level = 0 => x.heading = <<>>
  PROVE  LET y == CloseHeading(x)
         IN /\ y.drop = x.drop /\ y.inTitle = x.inTitle /\ y.level = 0 /\ y.heading = <<>>
            /\ y.words = x.words \o x.heading
<1>1. x.words \in Seq(W) /\ x.heading \in Seq(W) BY DEF Html
<1>2. ASSUME NEW y, Html(y, W), NEW n PROVE Html(NewLines(y, n), W) /\ Alike(y, NewLines(y, n))
  BY <1>2 DEF NewLines, Html, Alike
<1>3. ASSUME NEW y, Html(y, W)
      PROVE  LET z == [y EXCEPT !.level = 0, !.heading = <<>>]
             IN /\ z.drop = y.drop /\ z.inTitle = y.inTitle /\ z.level = 0 /\ z.heading = <<>>
                /\ z.words = y.words
  BY <1>3 DEF Html
<1>4. CASE x.level = 0 \/ x.heading = <<>>
  <2>1. CloseHeading(x) = [x EXCEPT !.level = 0, !.heading = <<>>] BY <1>4 DEF CloseHeading
  <2>2. x.heading = <<>> /\ x.words \o <<>> = x.words BY <1>1, <1>4
  <2> QED BY <1>3, <2>1, <2>2
<1>5. CASE ~(x.level = 0 \/ x.heading = <<>>)
  <2> DEFINE h == [level |-> x.level, words |-> x.heading]
             a == [x EXCEPT !.headings = Append(@, h)]
             b == NewLines(a, 2)
             c == Write(b, x.heading)
             d == NewLines(c, 2)
  <2>1. CloseHeading(x) = [d EXCEPT !.level = 0, !.heading = <<>>] BY <1>5 DEF CloseHeading
  <2>2. Html(a, W) /\ Alike(x, a) BY DEF Html, Alike
  <2> HIDE DEF a
  <2>3. Html(b, W) /\ Alike(a, b) BY <1>2, <2>2
  <2> HIDE DEF b
  <2>4. Longer(b, c, x.heading) BY <1>1, <2>3, WriteFacts
  <2>5. Html(c, W)
    <3>1. b.words \o x.heading \in Seq(W) BY <1>1, <2>3 DEF Html
    <3> QED BY <1>1, <2>3, <3>1 DEF Html, Write
  <2> HIDE DEF c
  <2>6. Html(d, W) /\ Alike(c, d) BY <1>2, <2>5
  <2> HIDE DEF d
  <2>7. d.drop = x.drop /\ d.inTitle = x.inTitle /\ d.words = x.words \o x.heading
    BY <2>2, <2>3, <2>4, <2>6 DEF Alike, Longer
  <2> QED BY <1>3, <2>1, <2>6, <2>7
<1> QED BY <1>4, <1>5

\* The text of a page outside of titles.
Piece(e, title) == IF e[1] = "data" /\ title # 1 THEN e[2] ELSE <<>>

\* A heading's start tag, outside of dropped elements, opens that heading.
LEMMA HeadingStarts ==
  ASSUME NEW x, NEW tag, tag \notin DropTags, ~(x.drop > 0), tag # "title", tag # "br",
         tag \in DOMAIN HeadingLevel
  PROVE  HandleStartTag(x, tag) = [x EXCEPT !.level = HeadingLevel[tag], !.heading = <<>>]
BY DEF HandleStartTag

\* A title's start tag opens the title.
LEMMA TitleStarts ==
  ASSUME NEW x, ~(x.drop > 0)
  PROVE  HandleStartTag(x, "title") = [x EXCEPT !.inTitle = TRUE, !.title = <<>>]
BY DEF HandleStartTag, DropTags, HeadingLevel

\* Outside of dropped elements the parser knows what is open and has read what is shown.
LEMMA ReadShows ==
  ASSUME NEW W, NEW x, Html(x, W), NEW title, NEW heading, NEW text \in Seq(W),
         Shows(x, 0, title, heading, text), NEW e,
         e[1] \in {"start", "end", "data"}, e[1] = "data" => e[2] \in Seq(W),
         Deeper(e, DropTags) = 0,
         {title, heading, title + Deeper(e, {"title"}),
          heading + Deeper(e, DOMAIN HeadingLevel)} \subseteq {0, 1}
  PROVE  Shows(Handle(x, e), 0, title + Deeper(e, {"title"}),
               heading + Deeper(e, DOMAIN HeadingLevel), text \o Piece(e, title))
<1> DEFINE tag == e[2]
           H == DOMAIN HeadingLevel
<1>1. /\ x.drop = 0 /\ (x.inTitle <=> title = 1) /\ x.level \in Nat
      /\ (x.level > 0 <=> heading = 1) /\ (x.level = 0 => x.heading = <<>>)
      /\ text = x.words \o x.heading
  BY DEF Shows
<1>2. x.words \in Seq(W) /\ x.heading \in Seq(W) BY DEF Html
<1>3. "start" # "end" /\ "start" # "data" /\ "end" # "data" OBVIOUS
<1>4. /\ "title" \notin DropTags \cup H \cup BlockTags /\ "br" \notin H \cup {"title"}
      /\ \A t \in H : t \notin DropTags \cup BlockTags /\ HeadingLevel[t] \in Nat /\ HeadingLevel[t] > 0
  BY DEF DropTags, BlockTags, HeadingLevel
<1>5. text \o <<>> = text OBVIOUS
<1>6. title \in {0, 1} /\ heading \in {0, 1} OBVIOUS
<1>7. ASSUME NEW y, Alike(x, y) PROVE Shows(y, 0, title, heading, text)
  BY <1>7 DEF Alike, Shows
<1> HIDE DEF H
<1>8. CASE e[1] = "data"
  <2>1. /\ Deeper(e, {"title"}) = 0 /\ Deeper(e, H) = 0 /\ title + 0 = title
        /\ heading + 0 = heading /\ tag \in Seq(W)
    BY <1>3, <1>6, <1>8 DEF Deeper
  <2>2. Handle(x, e) = HandleData(x, tag) BY <1>3, <1>8 DEF Handle
  <2> SUFFICES Shows(HandleData(x, tag), 0, title, heading, text \o Piece(e, title))
    BY <2>1, <2>2 DEF H
  <2>3. CASE title = 1
    <3>1. Piece(e, title) = <<>> BY <2>3 DEF Piece
    <3> DEFINE t == x.title \o tag
    <3>2. HandleData(x, tag) = [x EXCEPT !.title = t] BY <1>1, <2>3 DEF HandleData
    <3> HIDE DEF t
    <3>3. Alike(x, HandleData(x, tag)) BY <3>2 DEF Html, Alike
    <3> QED BY <1>5, <1>7, <3>1, <3>3
  <2>4. CASE title # 1
    <3>1. Piece(e, title) = tag BY <1>8, <2>4 DEF Piece
    <3> HIDE DEF tag
    <3>2. text \o tag = x.words \o (x.heading \o tag)
          /\ (x.heading = <<>> => text \o tag = (x.words \o tag) \o <<>>)
      <4>1. tag \in Seq(W) BY <2>1 DEF tag
      <4>2. text \o tag = x.words \o (x.heading \o tag)
        <5>1. text = x.words \o x.heading BY <1>1
        <5>2. (x.words \o x.heading) \o tag = x.words \o (x.heading \o tag)
          <6>1. \A a, b, c \in Seq(W) : (a \o b) \o c = a \o (b \o c)
            BY ConcatAssociative
          <6> QED BY <1>2, <4>1, <6>1, Zenon
        <5> QED BY <5>1, <5>2, Zenon
      <4>3. x.words \o tag \in Seq(W) /\ x.words \o <<>> = x.words BY <1>2, <4>1
      <4>4. (x.words \o tag) \o <<>> = x.words \o tag BY <4>3
      <4> QED BY <1>1, <4>2, <4>3, <4>4
    <3>3. CASE x.level > 0
      <4> DEFINE v == x.heading \o tag
      <4>1. HandleData(x, tag) = [x EXCEPT !.heading = v]
        BY <1>1, <2>4, <3>3 DEF HandleData
      <4>2. text \o tag = x.words \o v BY <3>2
      <4> HIDE DEF v
      <4>3. Shows([x EXCEPT !.heading = v], 0, title, heading, text \o tag)
        BY <1>1, <3>3, <4>2 DEF Html, Shows
      <4> QED BY <3>1, <4>1, <4>3
    <3>4. CASE ~(x.level > 0)
      <4>1. HandleData(x, tag) = Write(x, tag) BY <1>1, <2>4, <3>4 DEF HandleData
      <4>2. x.level = 0 /\ x.heading = <<>> BY <1>1, <3>4
      <4> DEFINE y == Write(x, tag)
      <4>3. Longer(x, y, tag) BY <2>1, WriteFacts DEF tag
      <4> HIDE DEF y
      <4>4. y.words \o y.heading = text \o tag BY <3>2, <4>2, <4>3 DEF Longer
      <4>5. Shows(y, 0, title, heading, text \o tag) BY <1>1, <4>3, <4>4 DEF Shows, Longer
      <4> QED BY <3>1, <4>1, <4>5 DEF y
    <3> QED BY <3>3, <3>4
  <2> QED BY <2>3, <2>4
<1>9. e[1] # "data" => Piece(e, title) = <<>> BY DEF Piece
<1>10. CASE e[1] = "start"
  <2>1. Handle(x, e) = HandleStartTag(x, tag) /\ tag \notin DropTags
    BY <1>10 DEF Handle, Deeper
  <2>2. Deeper(e, {"title"}) = (IF tag = "title" THEN 1 ELSE 0)
        /\ Deeper(e, H) = (IF tag \in H THEN 1 ELSE 0)
    BY <1>10 DEF Deeper
  <2> SUFFICES Shows(HandleStartTag(x, tag), 0, title + Deeper(e, {"title"}),
                     heading + Deeper(e, H), text)
    BY <1>3, <1>5, <1>9, <1>10, <2>1 DEF H
  <2>3. {title + Deeper(e, {"title"}), heading + Deeper(e, H)} \subseteq {0, 1} BY DEF H
  <2> HIDE DEF tag
  <2>4. CASE tag = "title"
    <3>1. HandleStartTag(x, tag) = [x EXCEPT !.inTitle = TRUE, !.title = <<>>]
      <4>1. ~(x.drop > 0) BY <1>1
      <4>2. HandleStartTag(x, "title") = [x EXCEPT !.inTitle = TRUE, !.title = <<>>]
        BY <4>1, TitleStarts, Zenon
      <4> QED BY <2>4, <4>2, Zenon
    <3>2. title + Deeper(e, {"title"}) = 1 /\ heading + Deeper(e, H) = heading
      BY <1>4, <1>6, <2>2, <2>3, <2>4
    <3>3. Shows([x EXCEPT !.inTitle = TRUE, !.title = <<>>], 0, 1, heading, text)
      BY <1>1 DEF Html, Shows
    <3> QED BY <3>1, <3>2, <3>3
  <2>5. CASE tag \in H
    <3>1. HandleStartTag(x, tag) = [x EXCEPT !.level = HeadingLevel[tag], !.heading = <<>>]
      <4>1. tag # "title" /\ tag # "br" /\ ~(x.drop > 0) BY <1>1, <1>4, <2>5
      <4>2. tag \in DOMAIN HeadingLevel BY <2>5 DEF H
      <4> QED BY <2>1, <4>1, <4>2, HeadingStarts
    <3>2. /\ title + Deeper(e, {"title"}) = title /\ heading = 0
          /\ heading + Deeper(e, H) = 1
      BY <1>4, <1>6, <2>2, <2>3, <2>5
    <3>3. x.level = 0 /\ x.heading = <<>> BY <1>1, <3>2
    <3>4. HeadingLevel[tag] \in Nat /\ HeadingLevel[tag] > 0 BY <1>4, <2>5
    <3>5. Shows([x EXCEPT !.level = HeadingLevel[tag], !.heading = <<>>], 0, title, 1, text)
      BY <1>1, <3>3, <3>4 DEF Html, Shows
    <3> QED BY <3>1, <3>2, <3>5
  <2>6. CASE tag # "title" /\ tag \notin H
    <3>1. HandleStartTag(x, tag) = NewLines(x, 1) \/ HandleStartTag(x, tag) = x
      BY <1>1, <2>1, <2>6 DEF HandleStartTag, H
    <3>2. Alike(x, NewLines(x, 1)) /\ Alike(x, x) BY DEF NewLines, Html, Alike
    <3>3. title + Deeper(e, {"title"}) = title /\ heading + Deeper(e, H) = heading
      BY <1>6, <2>2, <2>6
    <3> QED BY <1>7, <3>1, <3>2, <3>3
  <2> QED BY <2>4, <2>5, <2>6
<1>11. CASE e[1] = "end"
  <2>1. Handle(x, e) = HandleEndTag(x, tag) /\ tag \notin DropTags
    BY <1>3, <1>11 DEF Handle, Deeper
  <2>2. Deeper(e, {"title"}) = (IF tag = "title" THEN -1 ELSE 0)
        /\ Deeper(e, H) = (IF tag \in H THEN -1 ELSE 0)
    BY <1>3, <1>11 DEF Deeper
  <2> SUFFICES Shows(HandleEndTag(x, tag), 0, title + Deeper(e, {"title"}),
                     heading + Deeper(e, H), text)
    BY <1>3, <1>5, <1>9, <1>11, <2>1 DEF H
  <2>3. {title + Deeper(e, {"title"}), heading + Deeper(e, H)} \subseteq {0, 1} BY DEF H
  <2> HIDE DEF tag
  <2>4. CASE tag = "title"
    <3>1. HandleEndTag(x, tag) = [x EXCEPT !.inTitle = FALSE]
      <4>1. tag \notin H /\ tag \notin BlockTags BY <1>4, <2>4
      <4> QED BY <1>1, <2>1, <2>4, <4>1 DEF HandleEndTag, H
    <3>2. title + Deeper(e, {"title"}) = 0 /\ heading + Deeper(e, H) = heading
      BY <1>4, <1>6, <2>2, <2>3, <2>4
    <3>3. Shows([x EXCEPT !.inTitle = FALSE], 0, 0, heading, text)
      BY <1>1 DEF Html, Shows
    <3> QED BY <3>1, <3>2, <3>3
  <2>5. CASE tag \in H
    <3>1. HandleEndTag(x, tag) = CloseHeading(x)
      <4>1. tag # "title" /\ tag \notin BlockTags BY <1>4, <2>5
      <4> QED BY <1>1, <2>1, <2>5, <4>1 DEF HandleEndTag, H
    <3>2. title + Deeper(e, {"title"}) = title /\ heading + Deeper(e, H) = 0
      BY <1>4, <1>6, <2>2, <2>3, <2>5
    <3> DEFINE y == CloseHeading(x)
    <3>3. /\ y.drop = x.drop /\ y.inTitle = x.inTitle /\ y.level = 0 /\ y.heading = <<>>
          /\ y.words = x.words \o x.heading
      BY <1>1, HeadingFacts
    <3> HIDE DEF y
    <3>4. Shows(y, 0, title, 0, text) BY <1>1, <1>5, <3>3 DEF Shows
    <3> QED BY <3>1, <3>2, <3>4 DEF y
  <2>6. CASE tag # "title" /\ tag \notin H
    <3>1. HandleEndTag(x, tag) = NewLines(x, 2) \/ HandleEndTag(x, tag) = x
      BY <1>1, <2>1, <2>6 DEF HandleEndTag, H
    <3>2. Alike(x, NewLines(x, 2)) /\ Alike(x, x) BY DEF NewLines, Html, Alike
    <3>3. title + Deeper(e, {"title"}) = title /\ heading + Deeper(e, H) = heading
      BY <1>6, <2>2, <2>6
    <3> QED BY <1>7, <3>1, <3>2, <3>3
  <2> QED BY <2>4, <2>5, <2>6
<1> QED BY <1>8, <1>10, <1>11

\* The parser's words of a page that nests are those that a reader sees.
LEMMA VisibleWords ==
  ASSUME NEW W, NEW html, List(html), Nests(html),
         \A e \in ToSet(html) : e[1] \notin {"start", "end"} => e[2] \in Seq(W)
  PROVE  ParseHtml(html).words = Visible(html)
<1> DEFINE N == Len(html)
           H == DOMAIN HeadingLevel
           d(n) == Depth(html, DropTags, n)
           t(n) == Depth(html, {"title"}, n)
           h(n) == Depth(html, H, n)
           shown(n) == IF html[n][1] = "data" /\ ~(d(n) > 0) /\ ~(t(n) > 0)
                       THEN html[n][2] ELSE <<>>
           v == [i \in 1..N |-> shown(i)]
<1>1. /\ N \in Nat
      /\ \A n \in 1..N : /\ html[n] \in ToSet(html) /\ html[n][1] \in {"start", "end", "data"}
                         /\ html[n][1] = "data" => html[n][2] \in Seq(W)
  <2>1. N \in Nat /\ \A n \in 1..N : html[n] \in ToSet(html) BY ListFacts
  <2>2. \A e \in ToSet(html) : e[1] \in {"start", "end", "data"} BY DEF Nests
  <2>3. "data" \notin {"start", "end"} OBVIOUS
  <2> QED BY <2>1, <2>2, <2>3
<1>2. PICK f : /\ f[0] = NoText /\ ParseHtml(html) = f[N]
               /\ \A n \in 1..N : f[n] = Handle(f[n - 1], html[n])
  BY ParseHtmlSteps
<1>3. Visible(html) = FlattenSeq(v) BY DEF Visible
<1>4. v \in Seq(Seq(W)) /\ Len(v) = N /\ \A n \in 1..N : v[n] = shown(n)
  <2>1. \A n \in 1..N : shown(n) \in Seq(W) BY <1>1
  <2> HIDE DEF shown
  <2> QED BY <1>1, <2>1
<1> HIDE DEF v
<1>5. PICK g : /\ g[0] = <<>> /\ FlattenSeq(v) = g[N]
               /\ \A n \in 0..N : g[n] \in Seq(W)
               /\ \A n \in 1..N : g[n] = g[n - 1] \o shown(n)
  <2> HIDE DEF shown
  <2>1. PICK g : /\ g[0] = <<>> /\ FlattenSeq(v) = g[Len(v)]
                 /\ \A n \in 0..Len(v) : g[n] \in Seq(W)
                 /\ \A n \in 1..Len(v) : g[n] = g[n - 1] \o v[n]
    BY <1>4, Unrolled
  <2> QED BY <1>4, <2>1
<1>6. /\ d(0) = 0 /\ t(0) = 0 /\ h(0) = 0
      /\ \A n \in 0..N : d(n) \in Int /\ t(n) \in Int /\ h(n) \in Int
      /\ \A n \in 1..N : /\ d(n) = d(n - 1) + Deeper(html[n], DropTags)
                         /\ t(n) = t(n - 1) + Deeper(html[n], {"title"})
                         /\ h(n) = h(n - 1) + Deeper(html[n], H)
  <2>1. 0..N \subseteq Nat /\ 1..N \subseteq Nat \ {0} BY <1>1
  <2> HIDE DEF H
  <2> QED BY <2>1, DepthSteps
<1>7. /\ \A n \in 1..N : d(n) >= 0 /\ (d(n) = 0 => t(n) \in {0, 1} /\ h(n) \in {0, 1})
      /\ \A n \in 2..N : \A j \in 0..n - 2 :
            d(j) = 0 /\ d(n) = 0 /\ (\A k \in j + 1..n - 1 : d(k) > 0) =>
                t(n) = t(j) /\ h(n) = h(j)
      /\ d(N) = 0 /\ h(N) = 0
  BY DEF Nests
<1>8. \A n \in 0..N : d(n) \in Nat /\ (d(n) = 0 => t(n) \in {0, 1} /\ h(n) \in {0, 1})
  <2> HIDE DEF d, t, h
  <2> QED BY <1>1, <1>6, <1>7
<1>9. \A n \in 1..N : Deeper(html[n], DropTags) \in Int BY DEF Deeper
<1> DEFINE last(n, j) == d(j) = 0 /\ \A k \in j + 1..n : d(k) > 0
           U == {n \in 0..N : /\ Html(f[n], W)
                              /\ \E j \in 0..n : /\ last(n, j)
                                                 /\ Shows(f[n], d(n), t(j), h(j), g[n])}
<1>10. 0 \in U
  <2>1. Html(NoText, W) BY DEF NoText, Html
  <2>2. Shows(NoText, 0, 0, 0, <<>>) BY DEF NoText, Shows
  <2>3. last(0, 0) BY <1>6
  <2>4. 0 \in 0..0 /\ 0 \in 0..N BY <1>1
  <2> HIDE DEF d, t, h, last
  <2> QED BY <1>2, <1>5, <1>6, <2>1, <2>2, <2>3, <2>4
<1>11. ASSUME NEW n \in 1..N, n - 1 \in U PROVE n \in U
  <2> DEFINE e == html[n]
             x == f[n - 1]
  <2>1. n \in 0..N /\ n - 1 \in 0..N /\ n - 1 \in Nat BY <1>1
  <2>2. Html(x, W) BY <1>11
  <2>3. PICK j \in 0..n - 1 : last(n - 1, j) /\ Shows(x, d(n - 1), t(j), h(j), g[n - 1])
    BY <1>11
  <2>4. /\ e[1] \in {"start", "end", "data"} /\ (e[1] = "data" => e[2] \in Seq(W))
        /\ e \in ToSet(html) /\ f[n] = Handle(x, e)
    BY <1>1, <1>2
  <2>5. /\ d(n) = d(n - 1) + Deeper(e, DropTags) /\ t(n) = t(n - 1) + Deeper(e, {"title"})
        /\ h(n) = h(n - 1) + Deeper(e, H) /\ d(n) \in Nat /\ d(n - 1) \in Nat
        /\ Deeper(e, DropTags) \in Int
    BY <1>6, <1>8, <1>9, <2>1
  <2>6. Html(f[n], W) BY <2>2, <2>4, HandleHtml
  <2>7. g[n] = g[n - 1] \o shown(n) /\ g[n - 1] \in Seq(W) BY <1>5, <2>1
  <2>8. e[1] = "data" => /\ Deeper(e, DropTags) = 0 /\ Deeper(e, {"title"}) = 0
                         /\ Deeper(e, H) = 0
    BY DEF Deeper
  <2>9. SUFFICES \E i \in 0..n : last(n, i) /\ Shows(f[n], d(n), t(i), h(i), g[n])
    <3> HIDE DEF last, d, t, h
    <3> QED BY <2>1, <2>6, <2>9
  <2>10. n \in 0..n /\ (d(n) = 0 => last(n, n))
    <3> HIDE DEF d
    <3> QED BY <2>1
  <2>11. CASE d(n - 1) = 0 /\ d(n) = 0
    <3>1. j = n - 1
      <4>1. j # n - 1 => n - 1 \in j + 1..n - 1 BY <2>1
      <4> HIDE DEF d
      <4> QED BY <2>3, <2>11, <4>1
    <3>2. Deeper(e, DropTags) = 0 BY <2>5, <2>11
    <3>3. t(n - 1) \in {0, 1} /\ h(n - 1) \in {0, 1} /\ t(n) \in {0, 1} /\ h(n) \in {0, 1}
      BY <1>8, <2>1, <2>11
    <3> HIDE DEF e, x, d, t, h, H
    <3>4. Shows(Handle(x, e), 0, t(n - 1) + Deeper(e, {"title"}), h(n - 1) + Deeper(e, H),
                g[n - 1] \o Piece(e, t(n - 1)))
      <4>1. Shows(x, 0, t(n - 1), h(n - 1), g[n - 1]) BY <2>3, <2>11, <3>1
      <4>2. {t(n - 1), h(n - 1), t(n - 1) + Deeper(e, {"title"}), h(n - 1) + Deeper(e, H)}
              \subseteq {0, 1}
        BY <2>5, <3>3
      <4> QED BY <2>2, <2>4, <2>7, <3>2, <4>1, <4>2, ReadShows DEF H
    <3>5. Piece(e, t(n - 1)) = shown(n)
      <4>1. e[1] = "data" => t(n) = t(n - 1) BY <2>5, <2>8, <3>3
      <4> QED BY <2>11, <3>3, <4>1 DEF Piece, e
    <3>6. Shows(f[n], d(n), t(n), h(n), g[n]) BY <2>4, <2>5, <2>7, <2>11, <3>4, <3>5
    <3> QED BY <2>10, <2>11, <3>6
  <2>12. CASE ~(d(n - 1) = 0 /\ d(n) = 0)
    <3>1. /\ d(n - 1) > 0 \/ Deeper(e, DropTags) # 0
          /\ d(n - 1) + Deeper(e, DropTags) >= 0
      <4> HIDE DEF e, d
      <4> QED BY <2>5, <2>12
    <3>2. shown(n) = <<>>
      <4>1. e[1] = "data" => d(n) > 0
        <5> HIDE DEF d
        <5> QED BY <2>5, <2>8, <2>12
      <4> QED BY <4>1
    <3>3. g[n] = g[n - 1]
      <4> HIDE DEF shown
      <4>1. g[n - 1] \o <<>> = g[n - 1] BY <2>7
      <4> QED BY <2>7, <3>2, <4>1
    <3> HIDE DEF e, x, t, h, shown
    <3>4. Shows(f[n], d(n), t(j), h(j), g[n])
      <4>1. Shows(Handle(x, e), d(n - 1) + Deeper(e, DropTags), t(j), h(j), g[n - 1])
        <5> HIDE DEF d
        <5> QED BY <2>2, <2>3, <2>4, <2>5, <3>1, DroppedShows
      <4> QED BY <2>4, <2>5, <3>3, <4>1
    <3> HIDE DEF d
    <3>5. CASE d(n) > 0
      <4>1. \A k \in j + 1..n : k = n \/ k \in j + 1..n - 1 BY <2>1
      <4>2. last(n, j) BY <2>3, <3>5, <4>1
      <4>3. j \in 0..n BY <2>1
      <4> QED BY <3>4, <4>2, <4>3
    <3>6. CASE d(n) = 0
      <4>1. j # n - 1 BY <2>3, <2>12, <3>6
      <4>2. n \in 2..N /\ j \in 0..n - 2 BY <2>1, <4>1
      <4>3. t(n) = t(j) /\ h(n) = h(j) BY <1>7, <2>3, <3>6, <4>2
      <4> QED BY <2>10, <3>4, <3>6, <4>3
    <3> QED BY <2>5, <3>5, <3>6
  <2> QED BY <2>11, <2>12
<1>12. N \in U
  <2> HIDE DEF U
  <2> QED BY <1>1, <1>10, <1>11, Trace
<1>13. PICK j \in 0..N : last(N, j) /\ Shows(f[N], d(N), t(j), h(j), g[N]) BY <1>12
<1>14. j = N
  <2>1. j # N => N \in j + 1..N BY <1>1
  <2> HIDE DEF d
  <2> QED BY <1>7, <1>13, <2>1
<1>15. f[N].level = 0 /\ f[N].heading = <<>>
  <2> HIDE DEF d, t, h
  <2> QED BY <1>7, <1>13, <1>14 DEF Shows
<1>16. f[N].words \in Seq(W) BY <1>12 DEF Html
<1>17. f[N].words = g[N]
  <2>1. f[N].words \o <<>> = f[N].words BY <1>16
  <2> QED BY <1>13, <1>15, <2>1 DEF Shows
<1> QED BY <1>2, <1>3, <1>5, <1>17

\* A text taken apart at a word.
LEMMA Cuts ==
  ASSUME NEW W, NEW w \in Seq(W)
  PROVE  /\ SubSeq(w, 1, Len(w)) = w
         /\ \A a, b \in Nat : a <= b /\ b <= Len(w) =>
                SubSeq(w, 1, a) \o SubSeq(w, a + 1, b) = SubSeq(w, 1, b)
         /\ \A from, a, b \in Nat : from <= a /\ a <= b /\ b <= Len(w) =>
                LET part == SubSeq(w, from + 1, b)
                IN SubSeq(part, a - from + 1, Len(part)) = SubSeq(w, a + 1, b)
         /\ \A a, b \in Nat : b <= Len(w) => SubSeq(w, a + 1, b) \in Seq(W)
<1>1. SubSeq(w, 1, Len(w)) = w OBVIOUS
<1>2. ASSUME NEW a \in Nat, NEW b \in Nat, a <= b, b <= Len(w)
      PROVE  SubSeq(w, 1, a) \o SubSeq(w, a + 1, b) = SubSeq(w, 1, b)
  BY <1>2
<1>3. ASSUME NEW from \in Nat, NEW a \in Nat, NEW b \in Nat, from <= a, a <= b, b <= Len(w)
      PROVE  LET part == SubSeq(w, from + 1, b)
             IN SubSeq(part, a - from + 1, Len(part)) = SubSeq(w, a + 1, b)
  BY <1>3
<1>4. ASSUME NEW a \in Nat, NEW b \in Nat, b <= Len(w)
      PROVE  SubSeq(w, a + 1, b) \in Seq(W)
  <2>1. \A k \in a + 1..b : w[k] \in W BY <1>4
  <2> QED BY <1>4, <2>1
<1> QED BY <1>1, <1>2, <1>3, <1>4

\* Chunks put together without what each repeats are the text.
LEMMA Glued ==
  ASSUME NEW W, NEW w \in Seq(W), NEW cs, Tiles(cs, 0, Len(w)),
         \A k \in 1..Len(cs) : cs[k].text = SubSeq(w, cs[k].from + 1, cs[k].upto)
  PROVE  LET rest(k) == IF k = 1 THEN cs[1].text
                        ELSE SubSeq(cs[k].text, cs[k - 1].upto - cs[k].from + 1,
                                    Len(cs[k].text))
         IN FlattenSeq([k \in 1..Len(cs) |-> rest(k)]) = w
<1> DEFINE n == Len(cs)
           rest(k) == IF k = 1 THEN cs[1].text
                      ELSE SubSeq(cs[k].text, cs[k - 1].upto - cs[k].from + 1, Len(cs[k].text))
           ss == [k \in 1..n |-> rest(k)]
           done(k) == IF k = 0 THEN 0 ELSE cs[k].upto
<1>1. /\ n \in Nat /\ Len(w) \in Nat /\ ChunkWords \in Nat /\ OverlapWords \in Nat
      /\ \A k \in 1..n : Span(cs[k], Len(w))
      /\ 0 < Len(w) => n > 0
      /\ n > 0 => cs[n].upto = Len(w)
      /\ \A k \in 2..n : /\ cs[k - 1].from < cs[k].from
                         /\ cs[k].from <= cs[k - 1].upto - OverlapWords
  BY ListFacts, ChunkAssumption DEF Tiles
<1>2. n > 0 => cs[1].from = 0
  <2>1. 0 < Len(w) => cs[1].from <= 0 BY DEF Tiles
  <2>2. n > 0 => Span(cs[1], Len(w)) BY <1>1
  <2> QED BY <1>1, <2>1, <2>2 DEF Span
<1>3. ASSUME NEW k \in 1..n
      PROVE  /\ rest(k) = SubSeq(w, done(k - 1) + 1, done(k)) /\ rest(k) \in Seq(W)
             /\ done(k - 1) \in Nat /\ done(k) \in Nat /\ done(k - 1) <= done(k)
             /\ done(k) <= Len(w)
  <2>1. Span(cs[k], Len(w)) /\ cs[k].text = SubSeq(w, cs[k].from + 1, cs[k].upto) BY <1>1
  <2>2. CASE k = 1
    <3>1. done(k - 1) = 0 /\ done(k) = cs[1].upto BY <2>2
    <3>2. rest(k) = SubSeq(w, 0 + 1, cs[1].upto) BY <1>1, <1>2, <2>1, <2>2
    <3>3. cs[1].upto \in Nat /\ cs[1].upto <= Len(w) BY <2>1, <2>2 DEF Span
    <3> HIDE DEF rest, done
    <3> QED BY <3>1, <3>2, <3>3, Cuts
  <2>3. CASE k # 1
    <3>1. k \in 2..n /\ k - 1 \in 1..n BY <1>1, <2>3
    <3>2. Span(cs[k - 1], Len(w)) BY <1>1, <3>1
    <3>3. cs[k - 1].from < cs[k].from /\ cs[k].from <= cs[k - 1].upto - OverlapWords
      BY <1>1, <3>1
    <3> DEFINE from == cs[k].from
               a == cs[k - 1].upto
               b == cs[k].upto
    <3>4. done(k - 1) = a /\ done(k) = b BY <2>3
    <3>5. from \in Nat /\ a \in Nat /\ b \in Nat /\ from <= a /\ a <= b /\ b <= Len(w)
      <4>1. a <= cs[k - 1].from + ChunkWords /\ cs[k - 1].from \in Nat BY <3>2 DEF Span
      <4>2. b = Len(w) \/ b = from + ChunkWords BY <2>1 DEF Span
      <4>3. from \in Nat /\ a \in Nat /\ b \in Nat /\ a <= Len(w) /\ b <= Len(w)
        BY <2>1, <3>2 DEF Span
      <4> HIDE DEF a, b, from
      <4>4. cs[k - 1].from < from /\ from <= a - OverlapWords BY <3>3 DEF a, from
      <4> QED BY <1>1, <4>1, <4>2, <4>3, <4>4
    <3>6. rest(k) = SubSeq(cs[k].text, a - from + 1, Len(cs[k].text)) BY <2>3
    <3>7. cs[k].text = SubSeq(w, from + 1, b) BY <2>1
    <3> HIDE DEF rest, done, from, a, b
    <3>8. rest(k) = SubSeq(w, a + 1, b) BY <3>5, <3>6, <3>7, Cuts
    <3>9. SubSeq(w, a + 1, b) \in Seq(W) BY <3>5, Cuts
    <3> QED BY <3>4, <3>5, <3>8, <3>9
  <2> QED BY <2>2, <2>3
<1>4. ss \in Seq(Seq(W)) /\ Len(ss) = n /\ \A k \in 1..n : ss[k] = rest(k)
  <2> HIDE DEF rest
  <2> QED BY <1>1, <1>3
<1> HIDE DEF ss
<1>5. PICK f : /\ f[0] = <<>> /\ FlattenSeq(ss) = f[n]
               /\ \A k \in 1..n : f[k] = f[k - 1] \o rest(k)
  <2> HIDE DEF rest, n
  <2>1. PICK f : /\ f[0] = <<>> /\ FlattenSeq(ss) = f[Len(ss)]
                 /\ \A k \in 1..Len(ss) : f[k] = f[k - 1] \o ss[k]
    BY <1>4, Unrolled
  <2> QED BY <1>4, <2>1
<1> DEFINE U == {k \in 0..n : f[k] = SubSeq(w, 1, done(k))}
<1>6. 0 \in U
  <2>1. SubSeq(w, 1, 0) = <<>> OBVIOUS
  <2>2. f[0] = SubSeq(w, 1, done(0)) BY <1>5, <2>1
  <2>3. 0 \in 0..n BY <1>1
  <2> HIDE DEF done
  <2> QED BY <2>2, <2>3
<1>7. ASSUME NEW k \in 1..n, k - 1 \in U PROVE k \in U
  <2>1. f[k] = SubSeq(w, 1, done(k - 1)) \o SubSeq(w, done(k - 1) + 1, done(k))
    <3> HIDE DEF rest, done
    <3> QED BY <1>3, <1>5, <1>7
  <2>2. f[k] = SubSeq(w, 1, done(k))
    <3> HIDE DEF rest, done
    <3> QED BY <1>3, <2>1, Cuts
  <2> QED BY <1>1, <2>2
<1>8. n \in U
  <2> HIDE DEF U
  <2> QED BY <1>1, <1>6, <1>7, Trace
<1>9. done(n) = Len(w) BY <1>1
<1>10. f[n] = w
  <2> HIDE DEF done
  <2> QED BY <1>8, <1>9, Cuts
<1> QED BY <1>5, <1>10 DEF ss

\* The pages that are staged are parsed from pages of the documentation.
Fetches ==
    staged["docs"] # None =>
        \A p \in ToSet(staged["docs"].pages) :
            \E d \in DOMAIN World : \E q \in ToSet(World[d].docs) : p = ParsePage(q)

\* parse_docs parses pages that it is given.
LEMMA DocsParsed ==
  ASSUME NEW pages, List(pages), NEW p \in ToSet(ParseDocs(pages).pages)
  PROVE  \E q \in ToSet(pages) : p = ParsePage(q)
<1> DEFINE is(q) == IsSkillBearing(q.url)
           T == {q \in ToSet(pages) : is(q)}
           kept == Keep(pages, LAMBDA q : IsSkillBearing(q.url))
           ps == Each(ParsePage, kept)
<1>1. ParseDocs(pages).pages = ps BY DEF ParseDocs
<1>2. List(kept) /\ ToSet(kept) \subseteq ToSet(pages)
  <2>1. \A i \in 1..Len(pages) : is(pages[i]) <=> pages[i] \in T BY ListFacts
  <2>2. kept = FlattenSeq([i \in 1..Len(pages) |->
                             IF is(pages[i]) THEN <<pages[i]>> ELSE <<>>])
    BY DEF Keep
  <2> HIDE DEF is
  <2>3. kept = Filter(pages, T) BY <2>1, <2>2 DEF Filter
  <2> HIDE DEF kept
  <2>4. List(kept) /\ ToSet(kept) \subseteq T BY <2>3, Kept
  <2> QED BY <2>4
<1> HIDE DEF kept
<1>3. Len(kept) \in Nat /\ \A i \in 1..Len(kept) : kept[i] \in ToSet(pages) BY <1>2, ListFacts
<1>4. ps = [i \in 1..Len(kept) |-> ParsePage(kept[i])] BY DEF Each
<1> HIDE DEF ps
<1>5. ps = [i \in 1..Len(kept) |-> ps[i]] BY <1>4
<1>6. ToSet(ps) = {ps[i] : i \in 1..Len(kept)} BY <1>3, <1>5, Mapped
<1>7. PICK i \in 1..Len(kept) : p = ps[i] BY <1>1, <1>6
<1> QED BY <1>3, <1>4, <1>7

\* An extraction task parses what it has fetched.
LEMMA FetchesStep == Placed /\ Fetches /\ [Next]_vars => Fetches'
<1> SUFFICES ASSUME Placed, Fetches, [Next]_vars PROVE Fetches' OBVIOUS
<1>1. CASE EndRun
  <2>1. staged'["docs"] = None BY <1>1 DEF EndRun, Sources
  <2> QED BY <2>1 DEF Fetches
<1>2. CASE Plan BY <1>2 DEF Plan, Fetches
<1>3. CASE \E s \in Sources : Extract(s)
  <2>1. PICK s \in Sources : Extract(s) BY <1>3
  <2>2. CASE s # "docs"
    <3>1. \E a : staged' = [staged EXCEPT ![s] = a] BY <2>1 DEF Extract
    <3>2. staged'["docs"] = staged["docs"] BY <2>2, <3>1 DEF Placed, Sources
    <3> QED BY <3>2 DEF Fetches
  <2>3. CASE s = "docs"
    <3> DEFINE w == World[Days[day]].docs
    <3>1. Days[day] \in DOMAIN World BY IndexingAssumption DEF Placed
    <3>2. List(w) BY <3>1, WorldAssumption DEF List
    <3>3. w = World[Days[day]]["docs"] OBVIOUS
    <3> HIDE DEF w
    <3>4. PICK c : List(c) /\ ToSet(c) \subseteq ToSet(w) /\ staged'["docs"] = ParseDocs(c)
      <4>1. \/ staged'["docs"] = Artifact[day]["docs"]
            \/ \E rest \in Remains[day]["docs"] : staged'["docs"] = rest
        BY <2>1, <2>3 DEF Extract, Placed
      <4>2. /\ Artifact[day]["docs"] = Parse("docs", w)
            /\ Remains[day]["docs"] = {Parse("docs", c) : c \in Fetched("docs", w)}
        BY <3>3 DEF Artifact, Remains, Sources, Placed
      <4>3. \A c : Parse("docs", c) = ParseDocs(c) BY DEF Parse
      <4>4. Fetched("docs", w) = {<<>>} \cup {RemoveAt(w, i) : i \in DOMAIN w}
        BY DEF Fetched
      <4>5. List(<<>>) /\ ToSet(<<>>) = {} BY DEF List, ToSet
      <4> QED BY <3>2, <4>1, <4>2, <4>3, <4>4, <4>5, Removed
    <3>5. \A p \in ToSet(staged'["docs"].pages) : \E q \in ToSet(w) : p = ParsePage(q)
      BY <3>4, DocsParsed
    <3> QED BY <3>1, <3>5 DEF Fetches, w
  <2> QED BY <2>2, <2>3
<1> QED BY <1>1, <1>2, <1>3, Moves DEF Fetches

\* A page that nests is cut into chunks that put together are what a reader sees.
LEMMA PageOverlaps ==
  ASSUME NEW q, List(q.html), Nests(q.html),
         \A e \in ToSet(q.html) : e[1] \notin {"start", "end"} => List(e[2])
  PROVE  LET c == ParsePage(q).chunks
             rest(k) == IF k = 1 THEN c[1].text
                        ELSE SubSeq(c[k].text, c[k - 1].upto - c[k].from + 1, Len(c[k].text))
         IN /\ FlattenSeq([k \in 1..Len(c) |-> rest(k)]) = Visible(q.html)
            /\ \A k \in 2..Len(c) : /\ c[k - 1].from < c[k].from
                                    /\ c[k].from <= c[k - 1].upto - OverlapWords
<1> DEFINE words == ParseHtml(q.html).words
           c == ParsePage(q).chunks
           rest(k) == IF k = 1 THEN c[1].text
                      ELSE SubSeq(c[k].text, c[k - 1].upto - c[k].from + 1, Len(c[k].text))
           W == UNION {ToSet(e[2]) : e \in {e \in ToSet(q.html) : e[1] \notin {"start", "end"}}}
<1>1. ASSUME NEW e \in ToSet(q.html), e[1] \notin {"start", "end"} PROVE e[2] \in Seq(W)
  <2>1. e[2] \in Seq(ToSet(e[2])) /\ ToSet(e[2]) \subseteq W BY <1>1 DEF List
  <2> HIDE DEF W
  <2> QED BY <2>1
<1> HIDE DEF W
<1>2. words = Visible(q.html) BY <1>1, VisibleWords
<1>3. /\ List(words) /\ Tiles(c, 0, Len(words))
      /\ \A i \in 1..Len(c) : c[i].text = SubSeq(words, c[i].from + 1, c[i].upto)
  BY PageTiles
<1> HIDE DEF words, c
<1>4. FlattenSeq([k \in 1..Len(c) |-> rest(k)]) = words
  <2>1. words \in Seq(ToSet(words)) BY <1>3 DEF List
  <2> QED BY <1>3, <2>1, Glued
<1>5. \A k \in 2..Len(c) : /\ c[k - 1].from < c[k].from
                           /\ c[k].from <= c[k - 1].upto - OverlapWords
  BY <1>3 DEF Tiles
<1> HIDE DEF rest
<1> QED BY <1>2, <1>4, <1>5 DEF c, rest

\* The chunks of a page of the documentation, put together without what each repeats of
\* the one before it, are what a reader sees of the page, and each overlaps the one before
\* it, in all runs, if the pages nest their elements: a parser that counts tags reads a
\* title that is never closed to the end of the page.
THEOREM ChunksMeet == PagesNest => (Spec => []ChunksOverlap)
<1> SUFFICES ASSUME PagesNest PROVE Spec => []ChunksOverlap OBVIOUS
<1>1. Init => Placed /\ Fetches BY PlacedInit DEF Init, Fetches, Sources
<1>2. Placed /\ Fetches /\ [Next]_vars => (Placed /\ Fetches)' BY PlacedStep, FetchesStep
<1>3. Fetches => ChunksOverlap
  <2> SUFFICES ASSUME Fetches, staged["docs"] # None, NEW p \in ToSet(staged["docs"].pages)
               PROVE  LET c == p.chunks
                          rest(k) == IF k = 1 THEN c[1].text
                                     ELSE SubSeq(c[k].text, c[k - 1].upto - c[k].from + 1,
                                                 Len(c[k].text))
                      IN /\ [path |-> p.id[3],
                             words |-> FlattenSeq([k \in 1..Len(c) |-> rest(k)])]
                              \in VisiblePages
                         /\ \A k \in 2..Len(c) : /\ c[k - 1].from < c[k].from
                                                 /\ c[k].from <= c[k - 1].upto - OverlapWords
    BY DEF ChunksOverlap
  <2>1. PICK d \in DOMAIN World : \E q \in ToSet(World[d].docs) : p = ParsePage(q)
    BY DEF Fetches
  <2>2. PICK q \in ToSet(World[d].docs) : p = ParsePage(q) BY <2>1
  <2>3. /\ List(q.html) /\ Nests(q.html)
        /\ \A e \in ToSet(q.html) : e[1] \notin {"start", "end"} => List(e[2])
    BY WorldAssumption DEF List, PagesNest
  <2>4. p.id[3] = q.url.path BY <2>2 DEF ParsePage
  <2>5. [path |-> q.url.path, words |-> Visible(q.html)] \in VisiblePages
    BY DEF VisiblePages
  <2>6. LET c == p.chunks
            rest(k) == IF k = 1 THEN c[1].text
                       ELSE SubSeq(c[k].text, c[k - 1].upto - c[k].from + 1, Len(c[k].text))
        IN /\ FlattenSeq([k \in 1..Len(c) |-> rest(k)]) = Visible(q.html)
           /\ \A k \in 2..Len(c) : /\ c[k - 1].from < c[k].from
                                   /\ c[k].from <= c[k - 1].upto - OverlapWords
    BY <2>2, <2>3, PageOverlaps
  <2> QED BY <2>4, <2>5, <2>6
<1> QED BY <1>1, <1>2, <1>3, PTL DEF Spec

=============================================================================
