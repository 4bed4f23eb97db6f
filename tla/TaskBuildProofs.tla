-------------------------- MODULE TaskBuildProofs --------------------------
(***************************************************************************)
(* What the builders compute, for every Task, class and answer: the loops  *)
(* over lists of any length, and from them the properties of the policy,   *)
(* of the pod and of the Result.                                           *)
(*                                                                         *)
(* Induction is over a set of numbers: the set of those a fact fails for   *)
(* would have a least element.                                             *)
(***************************************************************************)
EXTENDS TaskBuild, TLAPS, FiniteSetTheorems, WellFoundedInduction

-----------------------------------------------------------------------------
(* Numbers and loops                                                       *)

\* A set of numbers has a least one.
LEMMA Least ==
  ASSUME NEW T \in SUBSET Nat, T # {}
  PROVE  \E x \in T : \A y \in T : x <= y
<1> DEFINE R == OpToRel(<, Nat)
<1>1. IsWellFoundedOn(R, Nat)
  BY NatLessThanWellFounded
<1>2. \A i, j \in Nat : i < j => <<i, j>> \in R
  BY DEF OpToRel
<1> HIDE DEF R
<1>3. PICK x \in T : \A y \in T : ~(<<y, x>> \in R)
  BY <1>1, WFMin
<1>4. \A y \in T : ~(y < x)
  BY <1>2, <1>3
<1> QED
  BY <1>4

\* Induction up to a number, over a set.
LEMMA UpTo ==
  ASSUME NEW N \in Nat, NEW T, 0 \in T, \A n \in 1..N : n - 1 \in T => n \in T
  PROVE  \A n \in 0..N : n \in T
<1> DEFINE U == {n \in 0..N : n \notin T}
<1> SUFFICES ASSUME U # {} PROVE FALSE
  OBVIOUS
<1>1. PICK m \in U : \A y \in U : m <= y
  <2>1. U \in SUBSET Nat
    OBVIOUS
  <2> HIDE DEF U
  <2> QED
    BY <2>1, Least
<1>2. m \in 1..N /\ m - 1 \in 0..N /\ ~(m <= m - 1)
  OBVIOUS
<1>3. m - 1 \in T
  BY <1>1, <1>2
<1> QED
  BY <1>2, <1>3

\* f holds the values, in S, of a variable of a loop over 1..N: b before the
\* loop, and after each iteration what g makes of the one before.
IsLoop(f, S, N, b, g) ==
  f \in [0..N -> S] /\ f[0] = b /\ \A n \in 1..N : f[n] = g[<<f[n - 1], n>>]

\* Every loop has such values.
LEMMA LoopExists ==
  ASSUME NEW S, NEW N \in Nat, NEW b \in S, NEW g \in [S \X (1..N) -> S]
  PROVE  \E f : IsLoop(f, S, N, b, g)
<1> DEFINE Upto(m) == {f \in [0..m -> S] : f[0] = b /\ \A n \in 1..m : f[n] = g[<<f[n - 1], n>>]}
           T == {m \in 0..N : Upto(m) # {}}
<1>1. 0 \in T
  <2>1. [n \in 0..0 |-> b] \in Upto(0)
    OBVIOUS
  <2> QED
    BY <2>1
<1>2. ASSUME NEW n \in 1..N, n - 1 \in T
      PROVE  n \in T
  <2>1. PICK f \in [0..(n - 1) -> S] : f[0] = b /\ \A i \in 1..(n - 1) : f[i] = g[<<f[i - 1], i>>]
    BY <1>2
  <2> DEFINE e == g[<<f[n - 1], n>>]
             h == [i \in 0..n |-> IF i = n THEN e ELSE f[i]]
  <2>2. e \in S
    OBVIOUS
  <2> HIDE DEF e
  <2>3. h \in [0..n -> S]
    BY <2>2
  <2>4. h[n] = e /\ \A i \in 0..(n - 1) : h[i] = f[i]
    OBVIOUS
  <2> HIDE DEF h
  <2>5. h[0] = b
    BY <2>1, <2>4
  <2>6. \A i \in 1..n : h[i] = g[<<h[i - 1], i>>]
    <3>1. h[n] = g[<<h[n - 1], n>>]
      BY <2>4 DEF e
    <3>2. \A i \in 1..(n - 1) : h[i] = g[<<h[i - 1], i>>]
      BY <2>1, <2>4
    <3> SUFFICES ASSUME NEW i \in 1..n PROVE h[i] = g[<<h[i - 1], i>>]
      OBVIOUS
    <3>3. i = n \/ i \in 1..(n - 1)
      OBVIOUS
    <3> QED
      BY <3>1, <3>2, <3>3
  <2>7. h \in Upto(n)
    BY <2>3, <2>5, <2>6
  <2> QED
    BY <2>7
<1>3. N \in T
  <2> HIDE DEF T
  <2> QED
    BY <1>1, <1>2, UpTo
<1> QED
  BY <1>3 DEF IsLoop

\* A bounded set of numbers has a greatest one.
LEMMA Greatest ==
  ASSUME NEW N \in Nat, NEW T \in SUBSET (0..N), T # {}
  PROVE  \E x \in T : \A y \in T : y <= x
<1> DEFINE U == {n \in 0..N : N - n \in T}
<1>1. PICK e \in T : TRUE
  OBVIOUS
<1>2. N - e \in U
  OBVIOUS
<1>3. PICK u \in U : \A y \in U : u <= y
  <2>1. U \in SUBSET Nat /\ U # {}
    BY <1>2
  <2> HIDE DEF U
  <2> QED
    BY <2>1, Least
<1>4. ASSUME NEW y \in T PROVE y <= N - u
  <2>1. N - y \in U
    OBVIOUS
  <2>2. u <= N - y
    BY <1>3, <2>1
  <2> QED
    BY <2>2
<1> QED
  BY <1>4

\* Min and Max of a set of numbers are what they should be.
LEMMA MinMax ==
  /\ \A T \in SUBSET Nat : T # {} => Min(T) \in T /\ \A y \in T : Min(T) <= y
  /\ \A N \in Nat : \A T \in SUBSET (0..N) : T # {} => Max(T) \in T /\ \A y \in T : y <= Max(T)
<1>1. ASSUME NEW T \in SUBSET Nat, T # {}
      PROVE  Min(T) \in T /\ \A y \in T : Min(T) <= y
  <2>1. \E x \in T : \A y \in T : x <= y
    BY <1>1, Least
  <2> QED
    BY <2>1 DEF Min
<1>2. ASSUME NEW N \in Nat, NEW T \in SUBSET (0..N), T # {}
      PROVE  Max(T) \in T /\ \A y \in T : y <= Max(T)
  <2>1. \E x \in T : \A y \in T : x >= y
    BY <1>2, Greatest
  <2>2. Max(T) \in T /\ \A y \in T : Max(T) >= y
    BY <2>1 DEF Max
  <2> QED
    BY <2>2
<1> QED
  BY <1>1, <1>2

-----------------------------------------------------------------------------
(* Sequences                                                               *)

\* The elements of a sequence.
LEMMA Elements ==
  ASSUME NEW S, NEW s \in Seq(S)
  PROVE  /\ Len(s) \in Nat /\ DOMAIN s = 1..Len(s) /\ s \in [1..Len(s) -> S]
         /\ Range(s) = {s[i] : i \in 1..Len(s)} /\ Range(s) \subseteq S
BY DEF Range

\* Appending to a sequence adds the element.
LEMMA Appended ==
  ASSUME NEW S, NEW s \in Seq(S), NEW e \in S
  PROVE  /\ Append(s, e) \in Seq(S) /\ Len(Append(s, e)) = Len(s) + 1
         /\ \A i \in 1..Len(s) : Append(s, e)[i] = s[i]
         /\ Append(s, e)[Len(s) + 1] = e
         /\ Range(Append(s, e)) = Range(s) \cup {e}
<1> DEFINE t == Append(s, e)
<1>1. /\ t \in Seq(S) /\ Len(t) = Len(s) + 1 /\ Len(s) \in Nat
      /\ \A i \in 1..Len(s) : t[i] = s[i]
      /\ t[Len(s) + 1] = e
  OBVIOUS
<1> HIDE DEF t
<1>2. Range(t) = {t[i] : i \in 1..(Len(s) + 1)} /\ Range(s) = {s[i] : i \in 1..Len(s)}
  BY <1>1, Elements
<1>3. Range(t) = Range(s) \cup {e}
  <2>1. ASSUME NEW i \in 1..(Len(s) + 1) PROVE t[i] \in Range(s) \cup {e}
    BY <1>1, <1>2
  <2>2. ASSUME NEW i \in 1..Len(s) PROVE s[i] \in Range(t)
    <3>1. i \in 1..(Len(s) + 1) /\ t[i] = s[i]
      BY <1>1
    <3> QED
      BY <1>2, <3>1
  <2>3. e \in Range(t)
    <3>1. Len(s) + 1 \in 1..(Len(s) + 1)
      BY <1>1
    <3> QED
      BY <1>1, <1>2, <3>1
  <2> QED
    BY <1>2, <2>1, <2>2, <2>3
<1> QED
  BY <1>1, <1>3 DEF t

\* Concatenation: indices and elements.
LEMMA Joined ==
  ASSUME NEW S, NEW s \in Seq(S), NEW t \in Seq(S)
  PROVE  /\ s \o t \in Seq(S) /\ Len(s \o t) = Len(s) + Len(t)
         /\ \A i \in 1..Len(s) : (s \o t)[i] = s[i]
         /\ \A i \in 1..Len(t) : (s \o t)[Len(s) + i] = t[i]
         /\ Range(s \o t) = Range(s) \cup Range(t)
<1> DEFINE u == s \o t
<1>1. /\ u \in Seq(S) /\ Len(u) = Len(s) + Len(t) /\ Len(s) \in Nat /\ Len(t) \in Nat
      /\ \A i \in 1..(Len(s) + Len(t)) : u[i] = IF i <= Len(s) THEN s[i] ELSE t[i - Len(s)]
  OBVIOUS
<1> HIDE DEF u
<1>2. \A i \in 1..Len(s) : i \in 1..(Len(s) + Len(t)) /\ u[i] = s[i]
  BY <1>1
<1>3. ASSUME NEW i \in 1..Len(t) PROVE Len(s) + i \in 1..(Len(s) + Len(t)) /\ u[Len(s) + i] = t[i]
  <2>1. Len(s) + i \in 1..(Len(s) + Len(t)) /\ ~(Len(s) + i <= Len(s)) /\ (Len(s) + i) - Len(s) = i
    BY <1>1
  <2> QED
    BY <1>1, <2>1
<1>4. /\ Range(u) = {u[i] : i \in 1..(Len(s) + Len(t))}
      /\ Range(s) = {s[i] : i \in 1..Len(s)} /\ Range(t) = {t[i] : i \in 1..Len(t)}
  BY <1>1, Elements
<1>5. ASSUME NEW i \in 1..(Len(s) + Len(t)) PROVE u[i] \in Range(s) \cup Range(t)
  <2>1. i \in 1..Len(s) \/ i - Len(s) \in 1..Len(t)
    BY <1>1
  <2> QED
    BY <1>1, <1>2, <1>4, <2>1
<1>6. Range(u) = Range(s) \cup Range(t)
  BY <1>2, <1>3, <1>4, <1>5
<1> QED
  BY <1>1, <1>2, <1>3, <1>6 DEF u

-----------------------------------------------------------------------------
(* MergeStringSets                                                         *)

\* The loop of MergeStringSets, from one entry to the next.
LEMMA Merging ==
  ASSUME NEW E, NEW blank, NEW all \in Seq(E)
  PROVE  /\ merging(blank, all) \in [0..Len(all) -> Seq(E)]
         /\ merging(blank, all)[0] = <<>>
         /\ \A n \in 1..Len(all) :
              merging(blank, all)[n] =
                LET out == merging(blank, all)[n - 1]
                IN  IF all[n] = blank \/ all[n] \in Range(out) THEN out ELSE Append(out, all[n])
<1> DEFINE N == Len(all)
           add(out, v) == IF v = blank \/ v \in Range(out) THEN out ELSE Append(out, v)
           g == [p \in Seq(E) \X (1..N) |-> add(p[1], all[p[2]])]
<1>1. g \in [Seq(E) \X (1..N) -> Seq(E)]
  OBVIOUS
<1>2. \A s \in Seq(E), n \in 1..N : g[<<s, n>>] = add(s, all[n])
  OBVIOUS
<1>3. N \in Nat /\ <<>> \in Seq(E)
  OBVIOUS
<1>4. PICK f \in [0..N -> Seq(E)] : f[0] = <<>> /\ \A n \in 1..N : f[n] = g[<<f[n - 1], n>>]
  <2> DEFINE S == Seq(E)
             b == <<>>
  <2>1. N \in Nat
    OBVIOUS
  <2>2. b \in S
    OBVIOUS
  <2>3. g \in [S \X (1..N) -> S]
    BY <1>1
  <2> HIDE DEF N, g, S, b
  <2>4. \E f : IsLoop(f, S, N, b, g)
    BY <2>1, <2>2, <2>3, LoopExists
  <2> QED
    BY <2>4 DEF S, b, IsLoop
<1>5. \A n \in 1..N : f[n - 1] \in Seq(E) /\ f[n] = add(f[n - 1], all[n])
  <2> SUFFICES ASSUME NEW n \in 1..N PROVE f[n - 1] \in Seq(E) /\ f[n] = add(f[n - 1], all[n])
    OBVIOUS
  <2> HIDE DEF g, add, N
  <2>1. n - 1 \in 0..N
    BY <1>3
  <2> QED
    BY <1>2, <1>4, <2>1
<1>6. f = [n \in 0..N |-> IF n = 0 THEN <<>> ELSE add(f[n - 1], all[n])]
  <2> HIDE DEF add
  <2> QED
    BY <1>3, <1>4, <1>5
<1> DEFINE m == merging(blank, all)
<1>7. m = [n \in 0..N |-> IF n = 0 THEN <<>> ELSE add(m[n - 1], all[n])]
  BY <1>6 DEF merging
<1> DEFINE T == {n \in 0..N : m[n] \in Seq(E)}
<1>8. m[0] = <<>> /\ \A n \in 1..N : m[n] = add(m[n - 1], all[n])
  <2> HIDE DEF m, add
  <2> QED
    BY <1>3, <1>7
<1> HIDE DEF m
<1>9. \A n \in 0..N : n \in T
  <2>1. 0 \in T
    <3>1. m[0] \in Seq(E)
      BY <1>3, <1>8
    <3> QED
      BY <1>3, <3>1
  <2>2. ASSUME NEW n \in 1..N, n - 1 \in T
        PROVE  n \in T
    <3>1. m[n - 1] \in Seq(E) /\ all[n] \in E
      BY <2>2
    <3>2. add(m[n - 1], all[n]) \in Seq(E)
      BY <3>1
    <3> HIDE DEF add
    <3>3. m[n] \in Seq(E)
      BY <1>8, <3>2
    <3> QED
      BY <3>3
  <2> HIDE DEF T
  <2> QED
    BY <1>3, <2>1, <2>2, UpTo
<1>10. m \in [0..N -> Seq(E)]
  <2> HIDE DEF add
  <2> QED
    BY <1>3, <1>7, <1>9
<1> QED
  BY <1>8, <1>10 DEF m

\* No element occurs twice.
Distinct(s) == \A i, j \in DOMAIN s : s[i] = s[j] => i = j

\* MergeStringSets returns the entries of both lists, but for the empty one, and
\* each of them once.
LEMMA Merged ==
  ASSUME NEW E, NEW blank, NEW a \in Seq(E), NEW b \in Seq(E)
  PROVE  /\ MergeStringSets(blank, a, b) \in Seq(E)
         /\ Range(MergeStringSets(blank, a, b)) = (Range(a) \cup Range(b)) \ {blank}
         /\ blank \notin Range(MergeStringSets(blank, a, b))
         /\ Distinct(MergeStringSets(blank, a, b))
<1> DEFINE all == a \o b
           N == Len(all)
           m == merging(blank, all)
           done(n) == {all[i] : i \in 1..n} \ {blank}
           T == {n \in 0..N : Range(m[n]) = done(n) /\ Distinct(m[n])}
<1>1. all \in Seq(E) /\ N \in Nat /\ Range(all) = Range(a) \cup Range(b)
  BY Joined
<1>2. Range(all) = {all[i] : i \in 1..N}
  BY <1>1, Elements
<1> HIDE DEF all
<1>3. /\ m \in [0..N -> Seq(E)] /\ m[0] = <<>>
      /\ \A n \in 1..N : m[n] = IF all[n] = blank \/ all[n] \in Range(m[n - 1]) THEN m[n - 1]
                                ELSE Append(m[n - 1], all[n])
  BY <1>1, Merging
<1> HIDE DEF m
<1>4. 0 \in T
  <2>1. Range(<<>>) = {} /\ Distinct(<<>>) /\ done(0) = {}
    BY DEF Range, Distinct
  <2> QED
    BY <1>1, <1>3, <2>1
<1>5. ASSUME NEW n \in 1..N, n - 1 \in T
      PROVE  n \in T
  <2>1. Range(m[n - 1]) = done(n - 1) /\ Distinct(m[n - 1])
    BY <1>5
  <2>2. n - 1 \in 0..N /\ m[n - 1] \in Seq(E) /\ all[n] \in E
    <3>1. n - 1 \in 0..N
      BY <1>1
    <3>2. m[n - 1] \in Seq(E)
      <4> HIDE DEF N
      <4> QED
        BY <1>3, <3>1
    <3>3. all[n] \in E
      BY <1>1, Elements
    <3> QED
      BY <3>1, <3>2, <3>3
  <2>3. done(n) = done(n - 1) \cup ({all[n]} \ {blank})
    <3>1. \A i : i \in 1..n <=> i \in 1..(n - 1) \/ i = n
      BY <1>1
    <3> QED
      BY <3>1
  <2> HIDE DEF done
  <2>4. CASE all[n] = blank \/ all[n] \in Range(m[n - 1])
    <3>1. m[n] = m[n - 1]
      BY <1>3, <2>4
    <3>2. done(n) = done(n - 1)
      BY <2>1, <2>3, <2>4
    <3> QED
      BY <1>1, <2>1, <3>1, <3>2
  <2>5. CASE all[n] # blank /\ all[n] \notin Range(m[n - 1])
    <3> DEFINE s == m[n - 1]
               t == m[n]
    <3>1. t = Append(s, all[n])
      BY <1>3, <2>5
    <3>2. /\ t \in Seq(E) /\ Len(t) = Len(s) + 1
          /\ \A i \in 1..Len(s) : t[i] = s[i]
          /\ t[Len(s) + 1] = all[n]
          /\ Range(t) = Range(s) \cup {all[n]}
      BY <2>2, <3>1, Appended
    <3>3. Range(t) = done(n)
      BY <2>1, <2>3, <2>5, <3>2
    <3>4. DOMAIN t = 1..(Len(s) + 1) /\ DOMAIN s = 1..Len(s) /\ Len(s) \in Nat
          /\ \A i \in 1..Len(s) : s[i] \in Range(s)
      BY <2>2, <3>2, Elements
    <3>5. Distinct(t)
      <4> HIDE DEF s, t
      <4> SUFFICES ASSUME NEW i \in 1..(Len(s) + 1), NEW j \in 1..(Len(s) + 1), t[i] = t[j]
                   PROVE  i = j
        BY <3>4 DEF Distinct
      <4>1. (i \in 1..Len(s) \/ i = Len(s) + 1) /\ (j \in 1..Len(s) \/ j = Len(s) + 1)
        BY <3>4
      <4>2. CASE i \in 1..Len(s) /\ j \in 1..Len(s)
        <5>1. s[i] = s[j]
          BY <3>2, <4>2
        <5> QED
          BY <2>1, <3>4, <4>2, <5>1 DEF Distinct, s
      <4>3. CASE i \in 1..Len(s) /\ j = Len(s) + 1
        BY <2>5, <3>2, <3>4, <4>3 DEF s
      <4>4. CASE i = Len(s) + 1 /\ j \in 1..Len(s)
        BY <2>5, <3>2, <3>4, <4>4 DEF s
      <4> QED
        BY <4>1, <4>2, <4>3, <4>4
    <3> QED
      BY <1>1, <3>3, <3>5
  <2> QED
    BY <2>4, <2>5
<1>6. N \in T
  <2> HIDE DEF T, N
  <2>1. \A n \in 0..N : n \in T
    BY <1>1, <1>4, <1>5, UpTo
  <2> QED
    BY <1>1, <2>1
<1>7. m[N] \in Seq(E) /\ Range(m[N]) = (Range(a) \cup Range(b)) \ {blank} /\ Distinct(m[N])
  BY <1>1, <1>2, <1>3, <1>6
<1>8. blank \notin Range(m[N])
  BY <1>7
<1>9. m[N] = MergeStringSets(blank, a, b)
  BY DEF m, N, all, MergeStringSets
<1> HIDE DEF m, N
<1> QED
  BY <1>7, <1>8, <1>9

-----------------------------------------------------------------------------
(* Sorting                                                                 *)

\* sorted lists a finite set.
LEMMA Listed ==
  ASSUME NEW S, IsFiniteSet(S)
  PROVE  sorted(S) \in Seq(S) /\ Range(sorted(S)) = S /\ Distinct(sorted(S))
<1> DEFINE n == Cardinality(S)
           f == sorted(S)
<1>1. n \in Nat /\ ExistsBijection(1..n, S)
  BY FS_CardinalityType
<1>2. PICK g : g \in Bijection(1..n, S)
  BY <1>1 DEF ExistsBijection
<1>3. g \in [1..n -> S] /\ IsInjective(g)
  BY <1>2 DEF Bijection, Injection, IsInjective
<1>4. f \in [1..n -> S] /\ IsInjective(f)
  BY <1>3 DEF sorted
<1>5. f \in Injection(1..n, S)
  BY <1>4 DEF Injection, IsInjective
<1> HIDE DEF f
<1>6. Cardinality(1..n) = n /\ IsFiniteSet(1..n)
  BY <1>1, FS_Interval
<1>7. f \in Surjection(1..n, S)
  BY <1>5, <1>6, FS_Injection
<1>8. f \in Seq(S) /\ Range(f) = S /\ Distinct(f)
  BY <1>1, <1>4, <1>7 DEF Surjection, Range, Distinct, IsInjective
<1> QED
  BY <1>8 DEF f

-----------------------------------------------------------------------------
(* The pod                                                                 *)

\* A Task that buildJob makes a pod of.
Buildable ==
  spec \in TaskSpec /\ class \in AgentClass /\ buildJob(spec, class).err = "none"

\* The Secrets of the Task.
needed == Range(effectiveSecrets(spec, class))

\* The ConfigMaps that the controller writes for the Task.
owned == BuildInlinePromptConfigMap(spec) \cup BuildAgentConfigMap(spec, class)

VolumeNames == {plain(n) : n \in {"scratch", "prompt", "config"}} \cup {secretVolumeName(n) : n \in Secrets}

Volumes ==
  [name : VolumeNames, kind : {"emptyDir", "secret", "configMap"},
   object : Secrets \cup {"", "referenced", InlinePromptConfigMapName, AgentConfigMapName}]

MountPaths == {scratchPath} \cup {secretPath(n) : n \in Secrets} \cup Paths

Mounts == [name : VolumeNames, path : MountPaths, key : {"", "prompt", "referenced", "config.json"}]

\* No two records of a list agree in a field.
Apart(s, f) == \A i, j \in DOMAIN s : s[i][f] = s[j][f] => i = j

\* The volume of a mount; when it is an owned ConfigMap, that holds the key.
Backs(v, m) ==
  /\ v.name = m.name
  /\ v.object \in {InlinePromptConfigMapName, AgentConfigMapName} /\ v.kind = "configMap"
       => [name |-> v.object, key |-> m.key] \in owned

\* Volumes and mounts that one builder adds, with volume names in Ns.
Fine(vs, ms, Ns) ==
  /\ vs \in Seq(Volumes) /\ ms \in Seq(Mounts) /\ Apart(vs, "name")
  /\ \A v \in Range(vs) : v.name \in Ns
  /\ \A m \in Range(ms) : \E v \in Range(vs) : Backs(v, m)

\* The mounts that one builder adds, each on a path of its own in Ps.
Placed(ms, Ps) ==
  /\ ms \in Seq(Mounts) /\ Apart(ms, "path")
  /\ \A m \in Range(ms) : m.path \in Ps

\* Sequences whose fields do not meet can be joined.
LEMMA JoinedApart ==
  ASSUME NEW S, NEW s \in Seq(S), NEW t \in Seq(S), NEW f, Apart(s, f), Apart(t, f),
         \A x \in Range(s), y \in Range(t) : x[f] # y[f]
  PROVE  Apart(s \o t, f)
<1> DEFINE u == s \o t
<1>1. /\ Len(u) = Len(s) + Len(t) /\ u \in Seq(S)
      /\ \A i \in 1..Len(s) : u[i] = s[i]
      /\ \A i \in 1..Len(t) : u[Len(s) + i] = t[i]
  BY Joined
<1> HIDE DEF u
<1>2. /\ Len(s) \in Nat /\ DOMAIN s = 1..Len(s) /\ \A i \in 1..Len(s) : s[i] \in Range(s)
      /\ Len(t) \in Nat /\ DOMAIN t = 1..Len(t) /\ \A i \in 1..Len(t) : t[i] \in Range(t)
      /\ DOMAIN u = 1..(Len(s) + Len(t))
  BY <1>1, Elements
<1>3. ASSUME NEW i \in 1..(Len(s) + Len(t))
      PROVE  \/ i \in 1..Len(s) /\ u[i] = s[i]
             \/ i - Len(s) \in 1..Len(t) /\ u[i] = t[i - Len(s)]
  <2>1. i \in 1..Len(s) \/ (i - Len(s) \in 1..Len(t) /\ Len(s) + (i - Len(s)) = i)
    BY <1>2
  <2> QED
    BY <1>1, <2>1
<1> SUFFICES ASSUME NEW i \in 1..(Len(s) + Len(t)), NEW j \in 1..(Len(s) + Len(t)), u[i][f] = u[j][f]
             PROVE  i = j
  BY <1>2 DEF Apart, u
<1>4. CASE i \in 1..Len(s) /\ u[i] = s[i] /\ j \in 1..Len(s) /\ u[j] = s[j]
  BY <1>2, <1>4 DEF Apart
<1>5. CASE i - Len(s) \in 1..Len(t) /\ u[i] = t[i - Len(s)] /\ j - Len(s) \in 1..Len(t) /\ u[j] = t[j - Len(s)]
  <2>1. i - Len(s) = j - Len(s)
    BY <1>2, <1>5 DEF Apart
  <2> QED
    BY <1>2, <2>1
<1>6. CASE i \in 1..Len(s) /\ u[i] = s[i] /\ j - Len(s) \in 1..Len(t) /\ u[j] = t[j - Len(s)]
  BY <1>2, <1>6
<1>7. CASE j \in 1..Len(s) /\ u[j] = s[j] /\ i - Len(s) \in 1..Len(t) /\ u[i] = t[i - Len(s)]
  BY <1>2, <1>7
<1> QED
  BY <1>3, <1>4, <1>5, <1>6, <1>7

\* So can what two builders add.
LEMMA FineJoined ==
  ASSUME NEW v1, NEW m1, NEW N1, NEW v2, NEW m2, NEW N2,
         Fine(v1, m1, N1), Fine(v2, m2, N2), N1 \cap N2 = {}
  PROVE  Fine(v1 \o v2, m1 \o m2, N1 \cup N2)
<1>1. /\ v1 \in Seq(Volumes) /\ v2 \in Seq(Volumes) /\ m1 \in Seq(Mounts) /\ m2 \in Seq(Mounts)
      /\ Apart(v1, "name") /\ Apart(v2, "name")
      /\ (\A v \in Range(v1) : v.name \in N1) /\ (\A v \in Range(v2) : v.name \in N2)
  BY DEF Fine
<1>2. v1 \o v2 \in Seq(Volumes) /\ Range(v1 \o v2) = Range(v1) \cup Range(v2)
  BY <1>1, Joined
<1>3. m1 \o m2 \in Seq(Mounts) /\ Range(m1 \o m2) = Range(m1) \cup Range(m2)
  BY <1>1, Joined
<1>4. Apart(v1 \o v2, "name")
  <2>1. \A x \in Range(v1), y \in Range(v2) : x["name"] # y["name"]
    BY <1>1
  <2> QED
    BY <1>1, <2>1, JoinedApart
<1>5. \A m \in Range(m1) \cup Range(m2) : \E v \in Range(v1) \cup Range(v2) : Backs(v, m)
  BY DEF Fine
<1>6. \A v \in Range(v1) \cup Range(v2) : v.name \in N1 \cup N2
  BY <1>1
<1> QED
  BY <1>2, <1>3, <1>4, <1>5, <1>6 DEF Fine

\* And their mounts.
LEMMA PlacedJoined ==
  ASSUME NEW m1, NEW P1, NEW m2, NEW P2, Placed(m1, P1), Placed(m2, P2), P1 \cap P2 = {}
  PROVE  Placed(m1 \o m2, P1 \cup P2)
<1>1. /\ m1 \in Seq(Mounts) /\ m2 \in Seq(Mounts) /\ Apart(m1, "path") /\ Apart(m2, "path")
      /\ (\A m \in Range(m1) : m.path \in P1) /\ (\A m \in Range(m2) : m.path \in P2)
  BY DEF Placed
<1>2. m1 \o m2 \in Seq(Mounts) /\ Range(m1 \o m2) = Range(m1) \cup Range(m2)
  BY <1>1, Joined
<1>3. Apart(m1 \o m2, "path")
  <2>1. \A x \in Range(m1), y \in Range(m2) : x["path"] # y["path"]
    BY <1>1
  <2> QED
    BY <1>1, <2>1, JoinedApart
<1>4. \A m \in Range(m1) \cup Range(m2) : m.path \in P1 \cup P2
  BY <1>1
<1> QED
  BY <1>2, <1>3, <1>4 DEF Placed

\* A list of one.
LEMMA OneElement == ASSUME NEW x PROVE Range(<<x>>) = {x}
<1>1. DOMAIN <<x>> = {1} /\ <<x>>[1] = x
  OBVIOUS
<1> QED
  BY <1>1, Zenon DEF Range

\* A builder that adds one volume with its mount.
LEMMA FineOne ==
  ASSUME NEW v \in Volumes, NEW m \in Mounts, Backs(v, m)
  PROVE  Fine(<<v>>, <<m>>, {v.name}) /\ Placed(<<m>>, {m.path})
<1>1. <<v>> \in Seq(Volumes) /\ <<m>> \in Seq(Mounts) /\ Apart(<<v>>, "name") /\ Apart(<<m>>, "path")
  BY DEF Apart
<1>2. Range(<<v>>) = {v} /\ Range(<<m>>) = {m}
  BY OneElement
<1> QED
  BY <1>1, <1>2 DEF Fine, Placed

\* A builder that adds nothing.
LEMMA FineNone == ASSUME NEW Ns PROVE Fine(<<>>, <<>>, Ns) /\ Placed(<<>>, Ns)
<1>1. <<>> \in Seq(Volumes) /\ <<>> \in Seq(Mounts) /\ Apart(<<>>, "name") /\ Apart(<<>>, "path")
  BY DEF Apart
<1>2. Range(<<>>) = {}
  BY DEF Range
<1> QED
  BY <1>1, <1>2 DEF Fine, Placed

\* A function on 1..n is a sequence.
LEMMA FunctionIsList == ASSUME NEW S, NEW n \in Nat, NEW f \in [1..n -> S] PROVE f \in Seq(S) /\ Len(f) = n
OBVIOUS

\* A Secret that Task and class both ask for is listed once.
LEMMA SecretList ==
  ASSUME Buildable
  PROVE  /\ effectiveSecrets(spec, class) \in Seq(Secrets \cup {""})
         /\ Distinct(effectiveSecrets(spec, class)) /\ needed \subseteq Secrets
<1> DEFINE s == effectiveSecrets(spec, class)
           E == Secrets \cup {""}
<1>1. spec.secrets \in Seq(E) /\ class.secrets \in Seq(E)
  BY DEF Buildable, TaskSpec, AgentClass
<1> HIDE DEF E
<1>2. /\ MergeStringSets("", spec.secrets, class.secrets) \in Seq(E)
      /\ Distinct(MergeStringSets("", spec.secrets, class.secrets))
      /\ "" \notin Range(MergeStringSets("", spec.secrets, class.secrets))
  <2>1. ASSUME NEW u, NEW a \in Seq(E), NEW b \in Seq(E)
        PROVE  /\ MergeStringSets(u, a, b) \in Seq(E) /\ Distinct(MergeStringSets(u, a, b))
               /\ u \notin Range(MergeStringSets(u, a, b))
    <3>1. MergeStringSets(u, a, b) \in Seq(E)
      BY Merged
    <3>2. Distinct(MergeStringSets(u, a, b))
      BY Merged
    <3>3. u \notin Range(MergeStringSets(u, a, b))
      BY Merged
    <3> QED
      BY <3>1, <3>2, <3>3
  <2> QED
    BY <1>1, <2>1, Zenon
<1>3. s = MergeStringSets("", spec.secrets, class.secrets)
  BY DEF effectiveSecrets
<1> HIDE DEF s
<1>4. s \in Seq(E) /\ Distinct(s) /\ "" \notin Range(s)
  BY <1>2, <1>3
<1>5. Range(s) \subseteq E
  BY <1>4, Elements
<1>6. Range(s) \subseteq Secrets
  BY <1>4, <1>5 DEF E
<1> QED
  BY <1>4, <1>6 DEF E, needed, s

\* Each Secret has a volume and a path of its own.
LEMMA FineSecrets ==
  ASSUME Buildable
  PROVE  LET sv == BuildSecretVolumes(effectiveSecrets(spec, class))
         IN  /\ Fine(sv.volumes, sv.mounts, {secretVolumeName(n) : n \in needed})
             /\ Placed(sv.mounts, {secretPath(n) : n \in needed})
<1> DEFINE s == effectiveSecrets(spec, class)
           vs == [i \in DOMAIN s |-> Volume(secretVolumeName(s[i]), "secret", s[i])]
           ms == [i \in DOMAIN s |-> Mount(secretVolumeName(s[i]), secretPath(s[i]), "")]
<1>1. s \in Seq(Secrets \cup {""}) /\ Distinct(s) /\ needed \subseteq Secrets /\ needed = Range(s)
  BY SecretList DEF needed
<1> HIDE DEF s
<1>2. /\ Len(s) \in Nat /\ DOMAIN s = 1..Len(s) /\ Range(s) = {s[i] : i \in 1..Len(s)}
      /\ s \in [1..Len(s) -> Secrets \cup {""}]
  BY <1>1, Elements
<1>3. \A i \in 1..Len(s) : s[i] \in needed /\ s[i] \in Secrets
  BY <1>1, <1>2
<1>4. ASSUME NEW i \in 1..Len(s)
      PROVE  /\ vs[i] \in Volumes /\ ms[i] \in Mounts
             /\ vs[i].name = secretVolumeName(s[i]) /\ vs[i].kind = "secret"
             /\ ms[i].name = secretVolumeName(s[i]) /\ ms[i].path = secretPath(s[i])
  <2> DEFINE n == secretVolumeName(s[i])
             p == secretPath(s[i])
             v == Volume(n, "secret", s[i])
             m == Mount(n, p, "")
  <2>1. vs[i] = v /\ ms[i] = m
    BY <1>2
  <2>2. n \in VolumeNames /\ p \in MountPaths /\ s[i] \in Secrets
    BY <1>3 DEF VolumeNames, MountPaths
  <2> HIDE DEF n, p, vs, ms
  <2>3. v.name = n /\ v.kind = "secret" /\ m.name = n /\ m.path = p
    BY DEF Volume, Mount
  <2>4. v \in Volumes /\ m \in Mounts
    BY <2>2 DEF Volumes, Mounts, Volume, Mount
  <2> HIDE DEF v, m
  <2> QED
    BY <2>1, <2>3, <2>4 DEF n, p
<1>5. DOMAIN vs = 1..Len(s) /\ DOMAIN ms = 1..Len(s)
  BY <1>2
<1>6. vs \in Seq(Volumes) /\ ms \in Seq(Mounts)
  <2>1. vs \in [1..Len(s) -> Volumes] /\ ms \in [1..Len(s) -> Mounts]
    BY <1>2, <1>4
  <2> HIDE DEF vs, ms
  <2> QED
    BY <1>2, <2>1, FunctionIsList
<1> HIDE DEF vs, ms
<1>7. \A i, j \in 1..Len(s) : s[i] = s[j] => i = j
  BY <1>1, <1>2 DEF Distinct
<1>8. Apart(vs, "name")
  <2>1. \A x, y : secretVolumeName(x) = secretVolumeName(y) => x = y
    BY DEF secretVolumeName
  <2> SUFFICES ASSUME NEW i \in 1..Len(s), NEW j \in 1..Len(s), vs[i].name = vs[j].name
               PROVE  i = j
    BY <1>5 DEF Apart
  <2>2. s[i] = s[j]
    BY <1>4, <2>1
  <2> QED
    BY <1>7, <2>2
<1>9. Apart(ms, "path")
  <2>1. \A x, y : secretPath(x) = secretPath(y) => x = y
    BY DEF secretPath
  <2> SUFFICES ASSUME NEW i \in 1..Len(s), NEW j \in 1..Len(s), ms[i].path = ms[j].path
               PROVE  i = j
    BY <1>5 DEF Apart
  <2>2. s[i] = s[j]
    BY <1>4, <2>1
  <2> QED
    BY <1>7, <2>2
<1>10. Range(vs) = {vs[i] : i \in 1..Len(s)} /\ Range(ms) = {ms[i] : i \in 1..Len(s)}
  BY <1>5 DEF Range
<1>11. \A i \in 1..Len(s) : Backs(vs[i], ms[i])
  BY <1>4 DEF Backs
<1>12. \A m \in Range(ms) : \E v \in Range(vs) : Backs(v, m)
  BY <1>10, <1>11
<1>13. /\ \A v \in Range(vs) : v.name \in {secretVolumeName(n) : n \in needed}
       /\ \A m \in Range(ms) : m.path \in {secretPath(n) : n \in needed}
  BY <1>3, <1>4, <1>10
<1>14. /\ Fine(vs, ms, {secretVolumeName(n) : n \in needed})
       /\ Placed(ms, {secretPath(n) : n \in needed})
  BY <1>6, <1>8, <1>9, <1>12, <1>13 DEF Fine, Placed
<1> QED
  BY <1>14 DEF BuildSecretVolumes, vs, ms, s

\* The builders of a Job that can be built did not fail.
LEMMA BuildersPassed ==
  ASSUME Buildable
  PROVE  /\ BuildPromptProjection(spec, class).err = "none" /\ BuildConfigProjection(spec, class).err = "none"
         /\ class.promptMount \in Paths \cup {unset} /\ class.configMount \in Paths \cup {unset}
<1>1. buildJob(spec, class).err = "none"
  BY DEF Buildable
<1>2. class.promptMount \in Paths \cup {unset} /\ class.configMount \in Paths \cup {unset}
  BY DEF Buildable, AgentClass
<1>3. BuildPromptProjection(spec, class).err = "none" /\ BuildConfigProjection(spec, class).err = "none"
  BY <1>1 DEF buildJob
<1> QED
  BY <1>2, <1>3

\* One file of an object, where the class wants it.
LEMMA FineProjection ==
  ASSUME NEW name \in {"prompt", "config"}, NEW kind \in {"secret", "configMap"},
         NEW object \in {"referenced", InlinePromptConfigMapName, AgentConfigMapName},
         NEW path \in Paths, NEW key \in {"prompt", "referenced", "config.json"},
         object # "referenced" => [name |-> object, key |-> key] \in owned
  PROVE  LET p == projection(name, kind, object, path, key)
         IN  /\ Fine(p.volumes, p.mounts, {plain(name)}) /\ Placed(p.mounts, {path})
             /\ \E m \in Range(p.mounts) : m.name = plain(name)
<1> DEFINE v == Volume(plain(name), kind, object)
           m == Mount(plain(name), path, key)
<1>1. plain(name) \in VolumeNames /\ path \in MountPaths
  BY DEF VolumeNames, MountPaths
<1>2. v \in Volumes /\ m \in Mounts
  BY <1>1 DEF Volumes, Mounts, Volume, Mount
<1>3. v.name = plain(name) /\ v.object = object /\ m.name = plain(name) /\ m.key = key /\ m.path = path
  BY DEF Volume, Mount
<1> HIDE DEF v, m
<1>4. Backs(v, m)
  BY <1>3 DEF Backs, InlinePromptConfigMapName, AgentConfigMapName
<1>5. Fine(<<v>>, <<m>>, {plain(name)}) /\ Placed(<<m>>, {path}) /\ Range(<<m>>) = {m}
  BY <1>2, <1>3, <1>4, FineOne, OneElement
<1>6. /\ projection(name, kind, object, path, key).volumes = <<v>>
      /\ projection(name, kind, object, path, key).mounts = <<m>>
  BY DEF projection, NoProjection, v, m
<1> QED
  BY <1>3, <1>5, <1>6

\* The prompt of a class that mounts it: the ConfigMap that the controller writes
\* for an inline prompt, or the object that the Task refers to.
LEMMA FinePrompt ==
  ASSUME Buildable
  PROVE  LET p == BuildPromptProjection(spec, class)
         IN  /\ Fine(p.volumes, p.mounts, {plain("prompt")}) /\ Placed(p.mounts, {class.promptMount} \ {unset})
             /\ class.promptMount # unset => \E m \in Range(p.mounts) : m.name = plain("prompt")
<1> DEFINE p == BuildPromptProjection(spec, class)
           path == class.promptMount
           source == promptSource(spec.prompt)
           inline == projection("prompt", "configMap", InlinePromptConfigMapName, path, "prompt")
           configMap == projection("prompt", "configMap", "referenced", path, "referenced")
           secret == projection("prompt", "secret", "referenced", path, "referenced")
           Goal(q) == /\ Fine(q.volumes, q.mounts, {plain("prompt")}) /\ Placed(q.mounts, {path})
                      /\ \E m \in Range(q.mounts) : m.name = plain("prompt")
<1>1. p.err = "none" /\ path \in Paths \cup {unset}
  BY BuildersPassed
<1>2. source = "inline" => "inline" \in spec.prompt
  BY DEF promptSource
<1>3. source \in {"inline", "configMapRef", "secretRef", "none"}
  BY DEF promptSource
<1>4. CASE path = unset
  <2>1. p = NoProjection
    BY <1>4 DEF BuildPromptProjection
  <2>2. p.volumes = <<>> /\ p.mounts = <<>>
    BY <2>1 DEF NoProjection
  <2> QED
    BY <1>4, <2>2, FineNone
<1>5. CASE path # unset
  <2>1. path \in Paths /\ {path} \ {unset} = {path}
    BY <1>1, <1>5
  <2>2. source = "inline" => p = inline
    BY <1>5 DEF BuildPromptProjection
  <2>3. source = "configMapRef" => p = configMap
    BY <1>5 DEF BuildPromptProjection
  <2>4. source = "secretRef" => p = secret
    BY <1>5 DEF BuildPromptProjection
  <2>5. source # "none"
    <3>1. source = "none" => p.err = "plain"
      BY <1>5 DEF BuildPromptProjection, NoProjection
    <3> QED
      BY <1>1, <3>1
  <2>6. source = "inline" => [name |-> InlinePromptConfigMapName, key |-> "prompt"] \in owned
    BY <1>2 DEF owned, BuildInlinePromptConfigMap
  <2> HIDE DEF source, path, p
  <2>7. source = "inline" => Goal(inline)
    BY <2>1, <2>6, FineProjection
  <2>8. Goal(configMap) /\ Goal(secret)
    BY <2>1, FineProjection
  <2> HIDE DEF inline, configMap, secret, Goal
  <2>9. Goal(p)
    BY <1>3, <2>2, <2>3, <2>4, <2>5, <2>7, <2>8
  <2> QED
    BY <2>1, <2>9 DEF Goal, p, path
<1> QED
  BY <1>4, <1>5

\* The config as a file, for a class that mounts it.
LEMMA FineConfig ==
  ASSUME Buildable
  PROVE  LET c == BuildConfigProjection(spec, class)
         IN  /\ Fine(c.volumes, c.mounts, {plain("config")}) /\ Placed(c.mounts, {class.configMount} \ {unset})
             /\ spec.config.json = "object" /\ class.configMount # unset =>
                  \E m \in Range(c.mounts) : m.name = plain("config")
<1> DEFINE c == BuildConfigProjection(spec, class)
           path == class.configMount
           file == projection("config", "configMap", AgentConfigMapName, path, "config.json")
<1>1. c.err = "none" /\ path \in Paths \cup {unset}
  BY BuildersPassed
<1>2. CASE spec.config.json = "none" \/ path = unset
  <2>1. c.volumes = <<>> /\ c.mounts = <<>>
    BY <1>2 DEF BuildConfigProjection, NoProjection
  <2> QED
    BY <1>2, <2>1, FineNone
<1>3. CASE spec.config.json # "none" /\ path # unset
  <2>1. ~configError(spec, class)
    BY <1>1, <1>3 DEF BuildConfigProjection, NoProjection
  <2>2. c.volumes = file.volumes /\ c.mounts = file.mounts
    BY <1>3, <2>1 DEF BuildConfigProjection, projection, NoProjection
  <2>3. [name |-> AgentConfigMapName, key |-> "config.json"] \in owned
    BY <1>3 DEF owned, BuildAgentConfigMap
  <2>4. path \in Paths /\ {path} \ {unset} = {path}
    BY <1>1, <1>3
  <2>5. /\ Fine(file.volumes, file.mounts, {plain("config")}) /\ Placed(file.mounts, {path})
        /\ \E m \in Range(file.mounts) : m.name = plain("config")
    <3> HIDE DEF path
    <3> QED
      BY <2>3, <2>4, FineProjection
  <2> HIDE DEF c, file
  <2> QED
    BY <2>2, <2>4, <2>5 DEF c
<1> QED
  BY <1>2, <1>3

\* The whole pod: what each builder adds, and where the files are.
LEMMA FinePod ==
  ASSUME Buildable
  PROVE  LET j == buildJob(spec, class)
         IN  /\ Fine(j.volumes, j.mounts,
                     {plain(n) : n \in {"scratch", "prompt", "config"}} \cup {secretVolumeName(n) : n \in needed})
             /\ ~mountsClash => Apart(j.mounts, "path")
             /\ class.promptMount # unset => \E m \in Range(j.mounts) : m.name = plain("prompt")
             /\ spec.config.json = "object" /\ class.configMount # unset =>
                  \E m \in Range(j.mounts) : m.name = plain("config")
<1> DEFINE j == buildJob(spec, class)
           s == BuildSecretVolumes(effectiveSecrets(spec, class))
           p == BuildPromptProjection(spec, class)
           c == BuildConfigProjection(spec, class)
           v0 == Volume(plain("scratch"), "emptyDir", "")
           m0 == Mount(plain("scratch"), scratchPath, "")
           N1 == {secretVolumeName(n) : n \in needed}
           N2 == {plain("scratch")} \cup N1
           N3 == N2 \cup {plain("prompt")}
           P1 == {secretPath(n) : n \in needed}
           P2 == {scratchPath} \cup P1
           PP == {class.promptMount} \ {unset}
           PC == {class.configMount} \ {unset}
           P3 == P2 \cup PP
<1>1. /\ j.volumes = ((<<v0>> \o s.volumes) \o p.volumes) \o c.volumes
      /\ j.mounts = ((<<m0>> \o s.mounts) \o p.mounts) \o c.mounts
  BY DEF buildJob
<1>2. Fine(<<v0>>, <<m0>>, {plain("scratch")}) /\ Placed(<<m0>>, {scratchPath})
  <2>1. plain("scratch") \in VolumeNames /\ scratchPath \in MountPaths
    BY DEF VolumeNames, MountPaths
  <2>2. /\ v0 \in Volumes /\ m0 \in Mounts /\ v0.name = plain("scratch") /\ m0.name = plain("scratch")
        /\ v0.kind = "emptyDir" /\ m0.path = scratchPath
    BY <2>1 DEF Volumes, Mounts, Volume, Mount
  <2> HIDE DEF v0, m0
  <2>3. Backs(v0, m0)
    BY <2>2 DEF Backs
  <2> QED
    BY <2>2, <2>3, FineOne
<1>3. Fine(s.volumes, s.mounts, N1) /\ Placed(s.mounts, P1)
  BY FineSecrets
<1>4. /\ Fine(p.volumes, p.mounts, {plain("prompt")}) /\ Placed(p.mounts, PP)
      /\ class.promptMount # unset => \E m \in Range(p.mounts) : m.name = plain("prompt")
  BY FinePrompt
<1>5. /\ Fine(c.volumes, c.mounts, {plain("config")}) /\ Placed(c.mounts, PC)
      /\ spec.config.json = "object" /\ class.configMount # unset =>
           \E m \in Range(c.mounts) : m.name = plain("config")
  BY FineConfig
<1>6. /\ {plain("scratch")} \cap N1 = {} /\ N2 \cap {plain("prompt")} = {} /\ N3 \cap {plain("config")} = {}
  <2>1. \A n, m : plain(n) # secretVolumeName(m)
    BY DEF plain, secretVolumeName
  <2>2. plain("scratch") # plain("prompt") /\ plain("scratch") # plain("config") /\ plain("prompt") # plain("config")
    BY DEF plain
  <2> QED
    BY <2>1, <2>2
<1>7. {scratchPath} \cap P1 = {}
  <2>1. \A n : secretPath(n) # scratchPath
    BY DEF secretPath, scratchPath
  <2> QED
    BY <2>1
<1>8. ~mountsClash => P2 \cap PP = {} /\ P3 \cap PC = {}
  <2> SUFFICES ASSUME ~mountsClash PROVE P2 \cap PP = {} /\ P3 \cap PC = {}
    OBVIOUS
  <2>1. /\ ({class.promptMount, class.configMount} \ {unset}) \cap P2 = {}
        /\ class.promptMount # class.configMount \/ {class.promptMount, class.configMount} \ {unset} = {}
    BY DEF mountsClash, needed
  <2> HIDE DEF P2
  <2> QED
    BY <2>1
<1>9. N3 \cup {plain("config")} = {plain(n) : n \in {"scratch", "prompt", "config"}} \cup N1
  <2>1. {plain(n) : n \in {"scratch", "prompt", "config"}} = {plain("scratch"), plain("prompt"), plain("config")}
    OBVIOUS
  <2> HIDE DEF N1
  <2> QED
    BY <2>1
<1> HIDE DEF j, s, p, c, v0, m0, N1, N2, N3, P1, P2, P3, PP, PC
<1> DEFINE vs2 == <<v0>> \o s.volumes
           ms2 == <<m0>> \o s.mounts
           vs3 == vs2 \o p.volumes
           ms3 == ms2 \o p.mounts
<1>10. Fine(vs2, ms2, N2) /\ Placed(ms2, P2)
  <2>1. Fine(vs2, ms2, N2)
    BY <1>2, <1>3, <1>6, FineJoined DEF N2
  <2>2. Placed(ms2, P2)
    BY <1>2, <1>3, <1>7, PlacedJoined DEF P2
  <2> QED
    BY <2>1, <2>2
<1> HIDE DEF vs2, ms2
<1>11. Fine(vs3, ms3, N3) /\ (~mountsClash => Placed(ms3, P3))
  <2>1. Fine(vs3, ms3, N3)
    BY <1>4, <1>6, <1>10, FineJoined DEF N3
  <2>2. ~mountsClash => Placed(ms3, P3)
    BY <1>4, <1>8, <1>10, PlacedJoined DEF P3
  <2> QED
    BY <2>1, <2>2
<1> HIDE DEF vs3, ms3
<1>12. Fine(vs3 \o c.volumes, ms3 \o c.mounts, N3 \cup {plain("config")})
  BY <1>5, <1>6, <1>11, FineJoined
<1>13. ~mountsClash => Placed(ms3 \o c.mounts, P3 \cup PC)
  BY <1>5, <1>8, <1>11, PlacedJoined
<1>14. j.volumes = vs3 \o c.volumes /\ j.mounts = ms3 \o c.mounts
  BY <1>1 DEF vs3, ms3, vs2, ms2
<1>15. Range(j.mounts) = (Range(ms2) \cup Range(p.mounts)) \cup Range(c.mounts)
  <2>1. ms2 \in Seq(Mounts) /\ ms3 \in Seq(Mounts) /\ p.mounts \in Seq(Mounts) /\ c.mounts \in Seq(Mounts)
    BY <1>4, <1>5, <1>10, <1>11 DEF Fine
  <2>2. Range(ms3) = Range(ms2) \cup Range(p.mounts)
    BY <2>1, Joined DEF ms3
  <2>3. Range(ms3 \o c.mounts) = Range(ms3) \cup Range(c.mounts)
    BY <2>1, Joined
  <2> QED
    BY <1>14, <2>2, <2>3
<1>16. ~mountsClash => Apart(j.mounts, "path")
  BY <1>13, <1>14 DEF Placed
<1>17. Fine(j.volumes, j.mounts, {plain(n) : n \in {"scratch", "prompt", "config"}} \cup N1)
  BY <1>9, <1>12, <1>14
<1>18. /\ class.promptMount # unset => \E m \in Range(j.mounts) : m.name = plain("prompt")
       /\ spec.config.json = "object" /\ class.configMount # unset =>
            \E m \in Range(j.mounts) : m.name = plain("config")
  BY <1>4, <1>5, <1>15
<1> QED
  BY <1>16, <1>17, <1>18 DEF j, N1

\* The API server accepts the pod, unless the class puts two files on one path or
\* a Secret's name is too long or has a dot.
LEMMA Admissible ==
  ASSUME Buildable, ~mountsClash, needed \subseteq Labels
  PROVE  admitted(buildJob(spec, class))
<1> DEFINE j == buildJob(spec, class)
           Ns == {plain(n) : n \in {"scratch", "prompt", "config"}} \cup {secretVolumeName(n) : n \in needed}
<1>1. Fine(j.volumes, j.mounts, Ns) /\ Apart(j.mounts, "path")
  BY FinePod
<1>2. ASSUME NEW n \in Ns PROVE n[1] = "secret-" => n[2] \in Labels
  <2>1. CASE n \in {plain(k) : k \in {"scratch", "prompt", "config"}}
    <3>1. PICK k \in {"scratch", "prompt", "config"} : n = <<"", k>>
      BY <2>1 DEF plain
    <3>2. n[1] = "" /\ "" # "secret-"
      BY <3>1
    <3> QED
      BY <3>2
  <2>2. CASE n \in {secretVolumeName(k) : k \in needed}
    <3>1. PICK k \in needed : n = <<"secret-", k>>
      BY <2>2 DEF secretVolumeName
    <3>2. n[2] = k
      BY <3>1
    <3> QED
      BY <3>2
  <2> QED
    BY <2>1, <2>2
<1> HIDE DEF j, Ns
<1>3. \A v \in Range(j.volumes) : v.name[1] = "secret-" => v.name[2] \in Labels
  BY <1>1, <1>2 DEF Fine
<1>4. /\ \A i, k \in DOMAIN j.volumes : j.volumes[i].name = j.volumes[k].name => i = k
      /\ \A i, k \in DOMAIN j.mounts : j.mounts[i].path = j.mounts[k].path => i = k
  BY <1>1 DEF Fine, Apart
<1>5. \A m \in Range(j.mounts) : \E v \in Range(j.volumes) : v.name = m.name
  BY <1>1 DEF Fine, Backs
<1>6. admitted(j)
  BY <1>3, <1>4, <1>5 DEF admitted
<1> QED
  BY <1>6 DEF j

-----------------------------------------------------------------------------
(* The states of TaskBuild                                                 *)

\* Task and class stay what they were, a retry has its reason; a pod, its ConfigMaps
\* and its policy were built from them; a message and a result come from the pod of a completed Task.
BInv ==
  /\ spec \in TaskSpec /\ class \in AgentClass /\ answers \in AllAnswers
  /\ RetriedForAReason
  /\ phase \in {"Running", "Completed"} => job # None
  /\ job # None =>
       /\ job = buildJob(spec, class) /\ job.err = "none"
       /\ maps = owned
       /\ \E a \in AllAnswers : policy = BuildNetworkPolicy(a, egress, spec.ports)
       /\ policy.err = "none"
  /\ phase = "Completed" => \E r \in Reports : message = result_write(r.summary, r.links)
  /\ result # None => phase = "Completed" /\ result = ParseResult(message, egress)

\* validateTask counts the sources of the prompt, so the builder finds one.
LEMMA PromptIsFound ==
  ASSUME NEW s \in TaskSpec, NEW c \in AgentClass, validateTask(s)
  PROVE  BuildPromptProjection(s, c).err = "none"
<1>1. s.prompt \in SUBSET PromptSources /\ c.promptMount \in Paths \cup {unset}
  BY DEF TaskSpec, AgentClass
<1>2. IsFiniteSet(PromptSources)
  <2>1. IsFiniteSet({"inline"})
    BY FS_Singleton
  <2>2. IsFiniteSet({"inline"} \cup {"secretRef"})
    BY <2>1, FS_AddElement
  <2>3. IsFiniteSet(({"inline"} \cup {"secretRef"}) \cup {"configMapRef"})
    BY <2>2, FS_AddElement
  <2>4. PromptSources = ({"inline"} \cup {"secretRef"}) \cup {"configMapRef"}
    BY DEF PromptSources
  <2> QED
    BY <2>3, <2>4
<1>3. IsFiniteSet(s.prompt)
  BY <1>1, <1>2, FS_Subset
<1>4. PICK x : s.prompt = {x}
  BY <1>3, FS_Singleton DEF validateTask
<1>5. promptSource(s.prompt) \in PromptSources
  BY <1>1, <1>4 DEF promptSource, PromptSources
<1> DEFINE source == promptSource(s.prompt)
<1> HIDE DEF source
<1>6. source \in PromptSources
  BY <1>5 DEF source
<1> QED
  BY <1>1, <1>6 DEF BuildPromptProjection, source, PromptSources, projection, NoProjection

\* The builders fail for good or not at all on a Task that validateTask lets through.
LEMMA JobIsDecided ==
  ASSUME NEW s \in TaskSpec, NEW c \in AgentClass, validateTask(s)
  PROVE  buildJob(s, c).err \in {"none", "permanent"}
<1>1. BuildPromptProjection(s, c).err = "none"
  BY PromptIsFound
<1>2. BuildConfigProjection(s, c).err \in {"none", "permanent"}
  BY DEF BuildConfigProjection, projection, NoProjection
<1> QED
  BY <1>1, <1>2 DEF buildJob

\* The Tasks of Cases satisfy it.
LEMMA BInvInit == Init => BInv
<1> SUFFICES ASSUME Init PROVE BInv
  OBVIOUS
<1>1. PICK c \in Cases : spec = c.spec /\ class = c.class /\ answers = c.answers
  BY DEF Init
<1>2. spec \in TaskSpec /\ class \in AgentClass /\ answers \in AllAnswers
  BY <1>1, BuildAssumption
<1> QED
  BY <1>2 DEF Init, BInv, RetriedForAReason

\* The reason for a retry is one of the Task and its class, which do not change.
LEMMA SameReason ==
  ASSUME RetriedForAReason, UNCHANGED <<spec, class>>, err' = err \/ err' \in {"none", "transient"}
  PROVE  RetriedForAReason'
<1>1. mountsClash' = mountsClash
  BY DEF mountsClash
<1> QED
  BY <1>1 DEF RetriedForAReason

\* A step keeps the Task, its class and the answers in their sets.
LEMMA BInvNext == BInv /\ [Next]_vars => BInv'
<1> SUFFICES ASSUME BInv, [Next]_vars PROVE BInv'
  OBVIOUS
<1>1. spec \in TaskSpec /\ class \in AgentClass /\ answers \in AllAnswers /\ RetriedForAReason
  BY DEF BInv
<1>2. egress = effectiveEgress(spec, class)
  BY DEF egress
<1>3. CASE DNSChanges
  <2>1. RetriedForAReason'
    BY <1>1, <1>3, SameReason DEF DNSChanges
  <2> QED
    BY <1>3, <2>1 DEF BInv, DNSChanges, egress, owned
<1>4. CASE RejectSpec
  <2>1. RetriedForAReason'
    BY <1>1, <1>4, SameReason DEF RejectSpec, failTask
  <2> QED
    BY <1>4, <2>1 DEF BInv, RejectSpec, failTask, egress, owned
<1>5. CASE EgressFails
  <2>1. RetriedForAReason'
    BY <1>1, <1>5, SameReason DEF EgressFails, failTask
  <2> QED
    BY <1>5, <2>1 DEF BInv, EgressFails, failTask, egress, owned
<1>6. CASE Build
  <2> DEFINE p == BuildNetworkPolicy(answers, egress, spec.ports)
             j == buildJob(spec, class)
             refused == j.err = "none" /\ job = None /\ ~admitted(j)
  <2>1. /\ phase \in {"Pending", "Running"} /\ validateTask(spec) /\ p.err = "none" /\ policy' = p /\ maps' = owned
        /\ UNCHANGED <<spec, class, answers, message, result>>
        /\ IF j.err = "permanent" THEN (phase' = "InvalidSpec" /\ err' = "none") /\ UNCHANGED job
           ELSE /\ err' = IF refused THEN "refused" ELSE j.err
                /\ job' = IF job = None /\ err' = "none" THEN j ELSE job
                /\ phase' = IF err' = "none" THEN "Running" ELSE phase
    BY <1>6 DEF Build, failTask, owned
  <2>2. j.err \in {"none", "permanent"}
    BY <1>1, <2>1, JobIsDecided
  <2>3. j # None
    <3>1. "err" \in DOMAIN j
      BY DEF buildJob
    <3>2. DOMAIN None = 1..0
      BY DEF None
    <3>3. "err" \notin 1..0
      OBVIOUS
    <3> HIDE DEF j
    <3> QED
      BY <3>1, <3>2, <3>3
  <2>4. job # None => job = j /\ j.err = "none"
    BY DEF BInv
  <2>5. /\ egress' = egress /\ spec' = spec /\ class' = class
        /\ buildJob(spec', class') = j /\ owned' = owned /\ mountsClash' = mountsClash
        /\ BuildNetworkPolicy(answers, egress', spec'.ports) = p
    BY <2>1 DEF egress, owned, mountsClash
  <2>6. refused => mountsClash \/ \E n \in Range(effectiveSecrets(spec, class)) : n \notin Labels
    <3>1. refused => Buildable
      BY <1>1 DEF Buildable
    <3>2. Buildable /\ ~admitted(j) => mountsClash \/ ~(needed \subseteq Labels)
      BY Admissible
    <3> QED
      BY <3>1, <3>2 DEF needed
  <2> HIDE DEF p, j
  <2>7. phase' # "Completed" /\ result = None /\ err' \in {"none", "refused"} /\ (err' = "refused" => refused)
    BY <2>1, <2>2 DEF BInv
  <2>8. RetriedForAReason'
    BY <2>1, <2>5, <2>6, <2>7 DEF RetriedForAReason
  <2>9. job' # None => job' = j /\ j.err = "none"
    BY <2>1, <2>2, <2>4
  <2>10. phase' \in {"Running", "Completed"} => job' # None
    <3>1. phase = "Running" => job # None
      BY DEF BInv
    <3> QED
      BY <2>1, <2>2, <2>3, <3>1
  <2>11. \E a \in AllAnswers : policy' = BuildNetworkPolicy(a, egress', spec'.ports)
    BY <1>1, <2>1, <2>5
  <2> QED
    BY <1>1, <2>1, <2>5, <2>7, <2>8, <2>9, <2>10, <2>11 DEF BInv
<1>7. CASE AgentExits
  <2>1. /\ phase = "Running" /\ phase' = "Completed" /\ egress' = egress /\ owned' = owned
        /\ \E r \in Reports : message' = result_write(r.summary, r.links)
        /\ UNCHANGED <<spec, class, answers, err, policy, maps, job, result>>
    BY <1>7 DEF AgentExits, egress, owned
  <2>2. result = None /\ job # None
    BY <2>1 DEF BInv
  <2>3. /\ job' = buildJob(spec', class') /\ job'.err = "none" /\ maps' = owned'
        /\ \E a \in AllAnswers : policy' = BuildNetworkPolicy(a, egress', spec'.ports)
        /\ policy'.err = "none"
    BY <2>1, <2>2 DEF BInv
  <2>4. RetriedForAReason'
    BY <1>1, <2>1, SameReason
  <2> QED
    BY <1>1, <2>1, <2>2, <2>3, <2>4 DEF BInv
<1>8. CASE RecordResult
  <2>1. RetriedForAReason'
    BY <1>1, <1>8, SameReason DEF RecordResult
  <2> QED
    BY <1>8, <2>1 DEF BInv, RecordResult, egress, owned
<1>9. CASE UNCHANGED vars
  <2>1. RetriedForAReason'
    BY <1>1, <1>9, SameReason DEF vars
  <2> QED
    BY <1>9, <2>1 DEF BInv, vars, egress, owned
<1> QED
  BY <1>3, <1>4, <1>5, <1>6, <1>7, <1>8, <1>9 DEF Next

\* BInv holds in every reachable state.
THEOREM BuildInvariant == Spec => []BInv
BY BInvInit, BInvNext, PTL DEF Spec

\* RetriedForAReason of the runs, for every Task, class and answer: the builders
\* of a Task that validateTask lets through fail for good or not at all, and make
\* a pod that the API server takes, unless a Secret's name is no DNS label or the
\* class mounts two files on one path.
THEOREM RetriesHaveReasons == Spec => []RetriedForAReason
<1>1. BInv => RetriedForAReason
  BY DEF BInv
<1> QED
  BY <1>1, BuildInvariant, PTL

-----------------------------------------------------------------------------
(* The NetworkPolicy                                                       *)

\* The effective allowlist is a list of entries.
LEMMA EgressIsList == BInv => egress \in Seq(Entry)
<1> SUFFICES ASSUME BInv PROVE egress \in Seq(Entry)
  OBVIOUS
<1>1. spec.egress \in Seq(Entry) /\ class.egress \in Seq(Entry)
  BY DEF BInv, TaskSpec, AgentClass
<1> QED
  BY <1>1, Merged DEF egress, effectiveEgress

\* Answers that agree on every entry give the same policy.
LEMMA SamePolicy ==
  ASSUME NEW a, NEW b, NEW eg \in Seq(Entry), NEW ports,
         \A e \in Range(eg) : failure(a, e) = failure(b, e) /\ blocks(a, e) = blocks(b, e)
  PROVE  BuildNetworkPolicy(a, eg, ports) = BuildNetworkPolicy(b, eg, ports)
<1>1. Len(eg) \in Nat /\ \A i \in 1..Len(eg) : eg[i] \in Range(eg)
  BY Elements
<1>2. \A i \in 1..Len(eg) : failure(a, eg[i]) = failure(b, eg[i])
  BY <1>1
<1> DEFINE I(x) == {i \in 1..Len(eg) : failure(x, eg[i]) # "none"}
<1>3. I(a) = I(b)
  BY <1>2
<1>4. firstFailure(a, eg) = firstFailure(b, eg)
  <2>1. \A x : firstFailure(x, eg) = IF I(x) = {} THEN "none" ELSE failure(x, eg[Min(I(x))])
    <3>1. DOMAIN eg = 1..Len(eg)
      BY Elements
    <3> QED
      BY <3>1, Zenon DEF firstFailure
  <2>2. I(a) # {} => Min(I(a)) \in 1..Len(eg)
    <3>1. I(a) \in SUBSET Nat /\ \A i \in I(a) : i \in 1..Len(eg)
      OBVIOUS
    <3> HIDE DEF I
    <3> QED
      BY <3>1, MinMax
  <2> HIDE DEF I
  <2> QED
    BY <1>2, <1>3, <2>1, <2>2
<1>5. allBlocks(a, eg) = allBlocks(b, eg)
  BY DEF allBlocks
<1>6. resolveEgress(a, eg) = resolveEgress(b, eg)
  BY <1>4, <1>5 DEF resolveEgress
<1> QED
  BY <1>6 DEF BuildNetworkPolicy

\* PolicyIsCanonical of the runs: the policy depends on the records of the names
\* and on nothing else of the answers.
THEOREM PoliciesAreCanonical == Spec => []PolicyIsCanonical
<1>1. BInv => PolicyIsCanonical
  <2> SUFFICES ASSUME BInv, NEW a \in AllAnswers,
                      \A n \in Names : /\ a[n].err = answers[n].err
                                       /\ Range(a[n].addrs) = Range(answers[n].addrs)
               PROVE  BuildNetworkPolicy(a, egress, spec.ports) = BuildNetworkPolicy(answers, egress, spec.ports)
    BY DEF PolicyIsCanonical
  <2>1. ASSUME NEW e
        PROVE  failure(a, e) = failure(answers, e) /\ blocks(a, e) = blocks(answers, e)
    <3>1. trim(e) \in Names => /\ lookup(a, e).err = lookup(answers, e).err
                               /\ Range(lookup(a, e).addrs) = Range(lookup(answers, e).addrs)
      BY EgressAssumption DEF lookup
    <3>2. failure(a, e) = failure(answers, e)
      BY <3>1 DEF failure
    <3>3. blocks(a, e) = blocks(answers, e)
      BY <3>1 DEF blocks
    <3> QED
      BY <3>2, <3>3
  <2> QED
    BY <2>1, EgressIsList, SamePolicy
<1> QED
  BY <1>1, BuildInvariant, PTL

\* When every name fails alike and no block is bad, the failure of a name decides.
LEMMA NamesDecide ==
  ASSUME NEW eg \in Seq(Entry), \A e \in Range(eg) : trim(e) \notin BadCIDRs, HasHostnames(eg),
         NEW a, NEW why \in {"notFound", "timeout"}, \A n \in Names : a[n].err = why
  PROVE  firstFailure(a, eg) = IF why = "notFound" THEN "permanent" ELSE "transient"
<1> DEFINE I == {i \in 1..Len(eg) : failure(a, eg[i]) # "none"}
           f == IF why = "notFound" THEN "permanent" ELSE "transient"
<1>1. Len(eg) \in Nat /\ Range(eg) = {eg[i] : i \in 1..Len(eg)} /\ \A i \in 1..Len(eg) : eg[i] \in Entry
  BY Elements
<1>2. ASSUME NEW e \in Range(eg)
      PROVE  failure(a, e) = IF trim(e) \in Names THEN f ELSE "none"
  <2>1. trim(e) \in Names => lookup(a, e).err = why
    BY EgressAssumption DEF lookup
  <2> QED
    BY <2>1 DEF failure
<1>3. PICK k \in 1..Len(eg) : trim(eg[k]) \in Names
  BY <1>1 DEF HasHostnames, Entry, Texts, trim
<1>4. f # "none"
  OBVIOUS
<1> HIDE DEF f
<1>5. k \in I
  BY <1>1, <1>2, <1>3, <1>4
<1>6. \A i \in I : i \in 1..Len(eg) /\ failure(a, eg[i]) = f
  BY <1>1, <1>2
<1>7. I \in SUBSET Nat
  OBVIOUS
<1>8. firstFailure(a, eg) = IF I = {} THEN "none" ELSE failure(a, eg[Min(I)])
  <2>1. DOMAIN eg = 1..Len(eg)
    BY Elements
  <2> QED
    BY <2>1, Zenon DEF firstFailure
<1> HIDE DEF I
<1>9. Min(I) \in I /\ I # {}
  BY <1>5, <1>7, MinMax
<1>10. firstFailure(a, eg) = f
  BY <1>6, <1>8, <1>9
<1> QED
  BY <1>10 DEF f

\* RefreshedIfItMatters of the runs: exactly the Tasks whose allowlist has a name
\* can get another policy from another answer.
THEOREM RefreshMatters == Spec => []RefreshedIfItMatters
<1>1. BInv => RefreshedIfItMatters
  <2> DEFINE P(a) == BuildNetworkPolicy(a, egress, spec.ports)
  <2> SUFFICES ASSUME BInv, \A e \in Range(egress) : trim(e) \notin BadCIDRs
               PROVE  HasHostnames(egress) <=> \E a \in AllAnswers : P(a) # P(answers)
    BY DEF RefreshedIfItMatters
  <2>1. egress \in Seq(Entry)
    BY EgressIsList
  <2>2. ASSUME HasHostnames(egress) PROVE \E a \in AllAnswers : P(a) # P(answers)
    <3>1. PICK a \in AllAnswers : \A n \in Names : a[n].err = "notFound"
      BY BuildAssumption
    <3>2. PICK b \in AllAnswers : \A n \in Names : b[n].err = "timeout"
      BY BuildAssumption
    <3>3. firstFailure(a, egress) = "permanent"
      BY <2>1, <2>2, <3>1, NamesDecide
    <3>4. firstFailure(b, egress) = "transient"
      BY <2>1, <2>2, <3>2, NamesDecide
    <3>5. P(a).err = "permanent" /\ P(b).err = "transient"
      BY <3>3, <3>4 DEF BuildNetworkPolicy, resolveEgress
    <3> HIDE DEF P
    <3> QED
      BY <3>1, <3>2, <3>5
  <2>3. ASSUME ~HasHostnames(egress), NEW a \in AllAnswers PROVE P(a) = P(answers)
    <3>1. ASSUME NEW e \in Range(egress)
          PROVE  failure(a, e) = failure(answers, e) /\ blocks(a, e) = blocks(answers, e)
      <4>1. trim(e) \notin Names
        BY <2>3, EgressAssumption DEF HasHostnames
      <4> QED
        BY <4>1 DEF failure, blocks
    <3> QED
      BY <2>1, <3>1, SamePolicy
  <2> QED
    BY <2>2, <2>3
<1> QED
  BY <1>1, BuildInvariant, PTL

-----------------------------------------------------------------------------
(* Links                                                                   *)

\* The first n elements of a sequence.
LEMMA Prefix ==
  ASSUME NEW S, NEW s \in Seq(S), NEW n \in 0..Len(s)
  PROVE  /\ SubSeq(s, 1, n) \in Seq(S) /\ Len(SubSeq(s, 1, n)) = n
         /\ \A i \in 1..n : SubSeq(s, 1, n)[i] = s[i]
<1>1. n \in Nat /\ n <= Len(s) /\ s \in [1..Len(s) -> S]
  BY Elements
<1>2. Len(SubSeq(s, 1, n)) = n
  BY <1>1
<1>3. \A i \in 1..n : SubSeq(s, 1, n)[i] = s[i]
  BY <1>1
<1>4. SubSeq(s, 1, n) \in Seq(S)
  BY <1>1
<1> QED
  BY <1>2, <1>3, <1>4

\* Whether the loop takes l after out.
Takes(out, l, good) ==
  /\ l \in good /\ Len(out) < MaxResultLinks
  /\ \A i \in DOMAIN out : out[i].name # l.name

\* The loop over the links, from one link to the next.
LEMMA Keeping ==
  ASSUME NEW links \in Seq(Link), NEW good
  PROVE  /\ keeping(links, good) \in [0..Len(links) -> Seq(Link)]
         /\ keeping(links, good)[0] = <<>>
         /\ \A n \in 1..Len(links) :
              keeping(links, good)[n] =
                IF Takes(keeping(links, good)[n - 1], links[n], good)
                THEN Append(keeping(links, good)[n - 1], links[n])
                ELSE keeping(links, good)[n - 1]
<1> DEFINE N == Len(links)
           add(out, l) == IF Takes(out, l, good) THEN Append(out, l) ELSE out
           g == [p \in Seq(Link) \X (1..N) |-> add(p[1], links[p[2]])]
<1>1. g \in [Seq(Link) \X (1..N) -> Seq(Link)]
  <2>1. ASSUME NEW out \in Seq(Link), NEW n \in 1..N PROVE add(out, links[n]) \in Seq(Link)
    OBVIOUS
  <2> HIDE DEF add
  <2> QED
    BY <2>1
<1>2. \A s \in Seq(Link), n \in 1..N : g[<<s, n>>] = add(s, links[n])
  <2> HIDE DEF add
  <2> QED
    OBVIOUS
<1>3. N \in Nat /\ <<>> \in Seq(Link)
  OBVIOUS
<1>4. PICK f \in [0..N -> Seq(Link)] : f[0] = <<>> /\ \A n \in 1..N : f[n] = g[<<f[n - 1], n>>]
  <2> DEFINE S == Seq(Link)
             b == <<>>
  <2>1. N \in Nat
    OBVIOUS
  <2>2. b \in S
    OBVIOUS
  <2>3. g \in [S \X (1..N) -> S]
    BY <1>1
  <2> HIDE DEF N, g, S, b
  <2>4. \E f : IsLoop(f, S, N, b, g)
    BY <2>1, <2>2, <2>3, LoopExists
  <2> QED
    BY <2>4 DEF S, b, IsLoop
<1>5. \A n \in 1..N : f[n - 1] \in Seq(Link) /\ f[n] = add(f[n - 1], links[n])
  <2> SUFFICES ASSUME NEW n \in 1..N PROVE f[n - 1] \in Seq(Link) /\ f[n] = add(f[n - 1], links[n])
    OBVIOUS
  <2> HIDE DEF g, add, N
  <2>1. n - 1 \in 0..N
    BY <1>3
  <2> QED
    BY <1>2, <1>4, <2>1
<1>6. f = [n \in 0..N |-> IF n = 0 THEN <<>> ELSE add(f[n - 1], links[n])]
  <2> HIDE DEF add
  <2> QED
    BY <1>3, <1>4, <1>5
<1> DEFINE m == keeping(links, good)
<1>7. m = [n \in 0..N |-> IF n = 0 THEN <<>> ELSE add(m[n - 1], links[n])]
  BY <1>6 DEF keeping, Takes
<1>8. m[0] = <<>> /\ \A n \in 1..N : m[n] = add(m[n - 1], links[n])
  <2> HIDE DEF m, add
  <2> QED
    BY <1>3, <1>7
<1> DEFINE T == {n \in 0..N : m[n] \in Seq(Link)}
<1> HIDE DEF m
<1>9. \A n \in 0..N : n \in T
  <2>1. 0 \in T
    <3>1. m[0] \in Seq(Link)
      BY <1>3, <1>8
    <3> QED
      BY <1>3, <3>1
  <2>2. ASSUME NEW n \in 1..N, n - 1 \in T
        PROVE  n \in T
    <3>1. m[n - 1] \in Seq(Link) /\ links[n] \in Link
      BY <2>2
    <3>2. add(m[n - 1], links[n]) \in Seq(Link)
      BY <3>1
    <3> HIDE DEF add
    <3>3. m[n] \in Seq(Link)
      BY <1>8, <3>2
    <3> QED
      BY <3>3
  <2> HIDE DEF T
  <2> QED
    BY <1>3, <2>1, <2>2, UpTo
<1>10. m \in [0..N -> Seq(Link)]
  <2> HIDE DEF add
  <2> QED
    BY <1>3, <1>7, <1>9
<1> QED
  BY <1>8, <1>10 DEF m

\* The loop keeps good links of the list, no two of a name, and not too many.
LEMMA KeptIsGood ==
  ASSUME NEW links \in Seq(Link), NEW good
  PROVE  LET out == keeping(links, good)[Len(links)]
         IN  /\ out \in Seq(Link) /\ Len(out) <= MaxResultLinks /\ Apart(out, "name")
             /\ Range(out) \subseteq good
<1> DEFINE N == Len(links)
           m == keeping(links, good)
           Ok(out) == Len(out) <= MaxResultLinks /\ Apart(out, "name") /\ Range(out) \subseteq good
           T == {n \in 0..N : Ok(m[n])}
<1>1. /\ m \in [0..N -> Seq(Link)] /\ m[0] = <<>>
      /\ \A n \in 1..N : m[n] = IF Takes(m[n - 1], links[n], good) THEN Append(m[n - 1], links[n]) ELSE m[n - 1]
  BY Keeping
<1>2. N \in Nat /\ \A n \in 1..N : links[n] \in Link
  BY Elements
<1> HIDE DEF m, N
<1>3. 0 \in T
  <2>1. Ok(<<>>)
    BY DEF Apart, Range, MaxResultLinks
  <2> HIDE DEF Ok
  <2> QED
    BY <1>1, <1>2, <2>1
<1>4. ASSUME NEW n \in 1..N, n - 1 \in T
      PROVE  n \in T
  <2> DEFINE s == m[n - 1]
             l == links[n]
  <2>1. Ok(s) /\ n - 1 \in 0..N
    BY <1>4
  <2>2. s \in Seq(Link) /\ l \in Link
    BY <1>1, <1>2, <2>1
  <2>3. m[n] = IF Takes(s, l, good) THEN Append(s, l) ELSE s
    BY <1>1
  <2> HIDE DEF s, l
  <2>4. ASSUME Takes(s, l, good) PROVE Ok(Append(s, l))
    <3> DEFINE t == Append(s, l)
    <3>1. /\ t \in Seq(Link) /\ Len(t) = Len(s) + 1
          /\ \A i \in 1..Len(s) : t[i] = s[i]
          /\ t[Len(s) + 1] = l
          /\ Range(t) = Range(s) \cup {l}
      BY <2>2, Appended
    <3> HIDE DEF t
    <3>2. DOMAIN t = 1..(Len(s) + 1) /\ DOMAIN s = 1..Len(s) /\ Len(s) \in Nat
      BY <2>2, <3>1, Elements
    <3>3. Len(t) <= MaxResultLinks
      BY <2>4, <3>1, <3>2 DEF Takes, MaxResultLinks
    <3>4. Range(t) \subseteq good
      BY <2>1, <2>4, <3>1 DEF Takes
    <3>5. \A i \in 1..Len(s) : t[i].name # t[Len(s) + 1].name
      BY <2>4, <3>1, <3>2 DEF Takes
    <3>6. \A i, j \in 1..Len(s) : t[i].name = t[j].name => i = j
      BY <2>1, <3>1, <3>2 DEF Apart
    <3>7. Apart(t, "name")
      <4> SUFFICES ASSUME NEW i \in 1..(Len(s) + 1), NEW j \in 1..(Len(s) + 1), t[i].name = t[j].name
                   PROVE  i = j
        BY <3>2 DEF Apart
      <4>1. (i \in 1..Len(s) \/ i = Len(s) + 1) /\ (j \in 1..Len(s) \/ j = Len(s) + 1)
        BY <3>2
      <4> QED
        BY <3>5, <3>6, <4>1
    <3> QED
      BY <3>3, <3>4, <3>7 DEF t
  <2> HIDE DEF Ok
  <2>5. Ok(m[n])
    BY <2>1, <2>3, <2>4
  <2> QED
    BY <1>2, <2>5
<1>5. N \in T
  <2> HIDE DEF T
  <2>1. \A n \in 0..N : n \in T
    BY <1>2, <1>3, <1>4, UpTo
  <2> QED
    BY <1>2, <2>1
<1>6. m[N] \in Seq(Link) /\ Ok(m[N])
  BY <1>1, <1>2, <1>5
<1> QED
  BY <1>6 DEF m, N

\* A list that already is as the loop wants it is kept as it is.
LEMMA AllIsKept ==
  ASSUME NEW links \in Seq(Link), NEW good,
         Len(links) <= MaxResultLinks, Apart(links, "name"), Range(links) \subseteq good
  PROVE  keeping(links, good)[Len(links)] = links
<1> DEFINE N == Len(links)
           m == keeping(links, good)
           Same(out, n) == Len(out) = n /\ \A i \in 1..n : out[i] = links[i]
           T == {n \in 0..N : Same(m[n], n)}
<1>1. /\ m \in [0..N -> Seq(Link)] /\ m[0] = <<>>
      /\ \A n \in 1..N : m[n] = IF Takes(m[n - 1], links[n], good) THEN Append(m[n - 1], links[n]) ELSE m[n - 1]
  BY Keeping
<1>2. N \in Nat /\ DOMAIN links = 1..N /\ \A n \in 1..N : links[n] \in Link /\ links[n] \in good
  BY Elements
<1>3. N <= MaxResultLinks
  OBVIOUS
<1> HIDE DEF m, N
<1>4. 0 \in T
  <2>1. Same(<<>>, 0)
    OBVIOUS
  <2> HIDE DEF Same
  <2> QED
    BY <1>1, <1>2, <2>1
<1>5. ASSUME NEW n \in 1..N, n - 1 \in T
      PROVE  n \in T
  <2> DEFINE s == m[n - 1]
             l == links[n]
             t == Append(s, l)
  <2>1. n - 1 \in 0..N /\ Len(s) = n - 1 /\ \A i \in 1..(n - 1) : s[i] = links[i]
    BY <1>5
  <2>2. s \in Seq(Link) /\ l \in Link /\ l \in good
    BY <1>1, <1>2, <2>1
  <2>3. m[n] = IF Takes(s, l, good) THEN t ELSE s
    BY <1>1
  <2>4. n \in Nat /\ n <= N
    BY <1>2
  <2>5. \A i \in 1..(n - 1) : links[i].name # links[n].name
    BY <1>2, <2>4 DEF Apart
  <2> HIDE DEF s
  <2>6. DOMAIN s = 1..(n - 1)
    BY <2>1, <2>2, Elements
  <2>7. Takes(s, l, good)
    BY <1>2, <1>3, <2>1, <2>2, <2>4, <2>5, <2>6 DEF Takes, MaxResultLinks
  <2>8. Len(t) = Len(s) + 1 /\ (\A i \in 1..Len(s) : t[i] = s[i]) /\ t[Len(s) + 1] = l
    BY <2>2, Appended
  <2> HIDE DEF t
  <2>9. Same(t, n)
    <3>1. Len(t) = n /\ t[n] = links[n] /\ \A i \in 1..(n - 1) : t[i] = links[i]
      <4>1. Len(s) + 1 = n
        BY <2>1, <2>4
      <4>2. Len(t) = n /\ t[n] = links[n]
        BY <2>8, <4>1
      <4>3. \A i \in 1..(n - 1) : t[i] = s[i]
        BY <2>1, <2>8
      <4> QED
        BY <2>1, <4>2, <4>3
    <3>2. \A i \in 1..n : i \in 1..(n - 1) \/ i = n
      BY <2>4
    <3> QED
      BY <3>1, <3>2
  <2> HIDE DEF Same
  <2>10. Same(m[n], n)
    BY <2>3, <2>7, <2>9
  <2> QED
    BY <1>2, <2>10
<1>6. N \in T
  <2> HIDE DEF T
  <2>1. \A n \in 0..N : n \in T
    BY <1>2, <1>4, <1>5, UpTo
  <2> QED
    BY <1>2, <2>1
<1>7. m[N] \in Seq(Link) /\ Len(m[N]) = N /\ \A i \in 1..N : m[N][i] = links[i]
  BY <1>1, <1>2, <1>6
<1>8. m[N] = links
  <2>1. DOMAIN m[N] = 1..N /\ m[N] \in [1..N -> Link]
    BY <1>7, Elements
  <2>2. links \in [1..N -> Link]
    BY Elements DEF N
  <2> QED
    BY <1>7, <2>1, <2>2
<1> QED
  BY <1>8 DEF m, N

-----------------------------------------------------------------------------
(* The Result                                                              *)

\* trimmed takes characters of B away at both ends, and the first that is left is
\* not one of them.
LEMMA Trimmed ==
  ASSUME NEW s \in Summary, NEW B
  PROVE  LET t == trimmed(s, B)
         IN  /\ t \in Summary /\ t.chars <= s.chars
             /\ t.blank = s.blank /\ t.nbsp = s.nbsp /\ t.hidden = s.hidden
             /\ places(t) \subseteq places(s) /\ places(s) \ places(t) \subseteq B
             /\ t.chars = 0 \/ (t.skip + 1 \in places(t) /\ t.skip + 1 \notin B)
<1> DEFINE k == s.skip
           c == s.chars
           end == k + c
           F == {n \in 0..c : (k + 1)..(k + n) \subseteq B}
           lead == Max(F)
           G == {n \in 0..(c - lead) : (end - n + 1)..end \subseteq B}
           tail == Max(G)
           t == [s EXCEPT !.skip = k + lead, !.chars = c - lead - tail]
<1>1. k \in Nat /\ c \in Nat
  BY DEF Summary
<1> HIDE DEF k, c
<1>2. F \in SUBSET (0..c) /\ 0 \in F
  BY <1>1
<1>3. lead \in F /\ \A n \in F : n <= lead
  <2> HIDE DEF F
  <2> QED
    BY <1>1, <1>2, MinMax
<1>4. lead \in 0..c /\ (k + 1)..(k + lead) \subseteq B
  BY <1>3
<1>5. lead # c => k + lead + 1 \notin B
  <2> SUFFICES ASSUME lead # c, k + lead + 1 \in B PROVE FALSE
    OBVIOUS
  <2> HIDE DEF lead
  <2>1. lead + 1 \in 0..c
    BY <1>1, <1>4
  <2>2. (k + 1)..(k + (lead + 1)) \subseteq B
    BY <1>1, <1>4
  <2>3. lead + 1 \in F
    BY <2>1, <2>2
  <2> HIDE DEF F
  <2> QED
    BY <1>1, <1>3, <1>4, <2>3
<1> HIDE DEF F, lead
<1>6. G \in SUBSET (0..(c - lead)) /\ 0 \in G /\ c - lead \in Nat
  BY <1>1, <1>4
<1>7. tail \in G
  <2> HIDE DEF G
  <2> QED
    BY <1>6, MinMax
<1>8. tail \in 0..(c - lead) /\ (end - tail + 1)..end \subseteq B
  BY <1>7
<1> HIDE DEF G, tail
<1>9. trimmed(s, B) = t
  BY DEF trimmed, t, k, c, F, lead, G, tail
<1>10. /\ t.skip = k + lead /\ t.chars = c - lead - tail
       /\ t.blank = s.blank /\ t.nbsp = s.nbsp /\ t.hidden = s.hidden
  BY DEF Summary
<1>11. k + lead \in Nat /\ c - lead - tail \in Nat /\ c - lead - tail <= c
  BY <1>1, <1>4, <1>8
<1>12. t \in Summary
  BY <1>11 DEF Summary
<1> HIDE DEF t
<1>13. places(s) = (k + 1)..(k + c)
  BY DEF places, k, c
<1>14. places(t) = (k + lead + 1)..(k + c - tail)
  BY <1>1, <1>4, <1>8, <1>10 DEF places
<1>15. places(t) \subseteq places(s)
  BY <1>1, <1>4, <1>8, <1>13, <1>14
<1>16. places(s) \ places(t) \subseteq B
  <2> SUFFICES ASSUME NEW x \in (k + 1)..(k + c), x \notin (k + lead + 1)..(k + c - tail)
               PROVE  x \in B
    BY <1>13, <1>14
  <2>1. x \in (k + 1)..(k + lead) \/ x \in (end - tail + 1)..end
    BY <1>1, <1>4, <1>8
  <2> QED
    BY <1>4, <1>8, <2>1
<1>17. t.chars = 0 \/ (t.skip + 1 \in places(t) /\ t.skip + 1 \notin B)
  <2>1. t.chars # 0 => lead # c /\ k + lead + 1 \in (k + lead + 1)..(k + c - tail)
    BY <1>1, <1>4, <1>8, <1>10
  <2> QED
    BY <1>5, <1>10, <1>14, <2>1
<1> QED
  BY <1>1, <1>9, <1>10, <1>11, <1>12, <1>15, <1>16, <1>17 DEF c

\* Trimming white space and hidden characters loses nothing that can be seen, and
\* leaves nothing only when there was nothing to see.
LEMMA VisibleStays ==
  ASSUME NEW s \in Summary
  PROVE  LET t == trimmed(s, white(s) \cup s.hidden)
         IN  visible(t) = visible(s) /\ (t.chars = 0 <=> visible(s) = {})
<1> DEFINE B == white(s) \cup s.hidden
           t == trimmed(s, B)
<1>1. /\ t \in Summary /\ white(t) \cup t.hidden = B
      /\ places(t) \subseteq places(s) /\ places(s) \ places(t) \subseteq B
      /\ t.chars = 0 \/ (t.skip + 1 \in places(t) /\ t.skip + 1 \notin B)
  <2> HIDE DEF B
  <2>1. /\ t \in Summary /\ t.blank = s.blank /\ t.nbsp = s.nbsp /\ t.hidden = s.hidden
        /\ places(t) \subseteq places(s) /\ places(s) \ places(t) \subseteq B
        /\ t.chars = 0 \/ (t.skip + 1 \in places(t) /\ t.skip + 1 \notin B)
    BY Trimmed
  <2> HIDE DEF t
  <2> QED
    BY <2>1 DEF B, white
<1>2. visible(s) = places(s) \ B
  BY DEF visible
<1> HIDE DEF B, t
<1>3. visible(t) = places(t) \ B
  BY <1>1 DEF visible
<1>4. visible(t) = visible(s)
  BY <1>1, <1>2, <1>3
<1>5. t.chars = 0 => places(t) = {}
  <2>1. t.skip \in Nat
    BY <1>1 DEF Summary
  <2> QED
    BY <2>1 DEF places
<1>6. t.chars = 0 <=> visible(s) = {}
  BY <1>1, <1>3, <1>4, <1>5
<1> QED
  BY <1>4, <1>6 DEF t, B

\* A text of the contract's length is not cut, only trimmed.
LEMMA Sanitized ==
  ASSUME NEW s \in Summary, s.chars <= MaxResultSummaryChars
  PROVE  sanitizeSummary(s) = trimmed(s, white(s) \cup s.hidden)
<1> DEFINE H == s.hidden \cap ((s.skip + 1)..(s.skip + s.chars))
<1>1. s.skip \in Nat /\ s.chars \in Nat /\ MaxResultSummaryChars \in Nat
  BY DEF Summary, MaxResultSummaryChars
<1>2. IsFiniteSet((s.skip + 1)..(s.skip + s.chars))
  <2> DEFINE a == s.skip + 1
             b == s.skip + s.chars
  <2>1. a \in Int /\ b \in Int
    BY <1>1
  <2> HIDE DEF a, b
  <2>2. IsFiniteSet(a..b)
    BY <2>1, FS_Interval
  <2> QED
    BY <2>2 DEF a, b
<1>3. IsFiniteSet(H)
  BY <1>2, FS_Subset
<1>4. Cardinality(H) \in Nat
  BY <1>3, FS_CardinalityType
<1> HIDE DEF H
<1>5. s.chars - Cardinality(H) <= MaxResultSummaryChars
  BY <1>1, <1>4
<1> QED
  BY <1>5 DEF sanitizeSummary, H

\* The size of the links is a number.
LEMMA LinkBytes ==
  ASSUME NEW links \in Seq(Link)
  PROVE  linkBytes(links)[Len(links)] \in Nat
<1> DEFINE N == Len(links)
           g == [p \in Nat \X (1..N) |-> p[1] + links[p[2]].bytes]
<1>1. N \in Nat /\ \A n \in 1..N : links[n].bytes \in Nat
  <2>1. N \in Nat /\ \A n \in 1..N : links[n] \in Link
    BY Elements
  <2> QED
    BY <2>1 DEF Link
<1>2. g \in [Nat \X (1..N) -> Nat] /\ \A k \in Nat, n \in 1..N : g[<<k, n>>] = k + links[n].bytes
  BY <1>1
<1> HIDE DEF g, N
<1>3. PICK f : IsLoop(f, Nat, N, 0, g)
  <2> DEFINE b == 0
  <2>1. b \in Nat
    OBVIOUS
  <2> HIDE DEF b
  <2>2. \E f : IsLoop(f, Nat, N, b, g)
    BY <1>1, <1>2, <2>1, LoopExists
  <2> QED
    BY <2>2 DEF b
<1>4. f \in [0..N -> Nat] /\ f[0] = 0 /\ \A n \in 1..N : f[n] = g[<<f[n - 1], n>>]
  BY <1>3 DEF IsLoop
<1>5. \A n \in 1..N : f[n] = f[n - 1] + links[n].bytes
  <2> SUFFICES ASSUME NEW n \in 1..N PROVE f[n] = f[n - 1] + links[n].bytes
    OBVIOUS
  <2>1. n - 1 \in 0..N
    BY <1>1
  <2>2. f[n - 1] \in Nat
    BY <1>4, <2>1
  <2> QED
    BY <1>2, <1>4, <2>2
<1>6. f = [n \in 0..N |-> IF n = 0 THEN 0 ELSE f[n - 1] + links[n].bytes]
  BY <1>1, <1>4, <1>5
<1> DEFINE m == linkBytes(links)
<1>7. m = [n \in 0..N |-> IF n = 0 THEN 0 ELSE m[n - 1] + links[n].bytes]
  BY <1>6 DEF linkBytes, N
<1> HIDE DEF m
<1>8. m[0] = 0 /\ \A n \in 1..N : m[n] = m[n - 1] + links[n].bytes
  BY <1>1, <1>7
<1> DEFINE T == {n \in 0..N : m[n] \in Nat}
<1>9. 0 \in T
  BY <1>1, <1>8
<1>10. ASSUME NEW n \in 1..N, n - 1 \in T
       PROVE  n \in T
  <2>1. m[n - 1] \in Nat /\ links[n].bytes \in Nat
    BY <1>1, <1>10
  <2> QED
    BY <1>1, <1>8, <2>1
<1>11. N \in T
  <2> HIDE DEF T
  <2>1. \A n \in 0..N : n \in T
    BY <1>1, <1>9, <1>10, UpTo
  <2> QED
    BY <1>1, <2>1
<1> QED
  BY <1>11 DEF m, N

\* The size of the JSON is a number, and small without text and links.
LEMMA JsonSize ==
  ASSUME NEW s \in Summary, NEW links \in Seq(Link)
  PROVE  /\ _result_json(s, links) \in Nat
         /\ s.chars = 0 /\ links = <<>> => fits(s, links)
<1>1. s.chars \in Nat /\ s.width \in Nat
  BY DEF Summary
<1>2. s.chars * s.width \in Nat
  BY <1>1
<1>3. linkBytes(links)[Len(links)] \in Nat /\ Len(links) \in Nat
  BY LinkBytes, Elements
<1>4. _result_json(s, links) \in Nat
  BY <1>2, <1>3 DEF _result_json
<1>5. s.chars = 0 /\ links = <<>> => _result_json(s, links) = 14
  <2>1. s.chars = 0 => s.chars * s.width = 0
    BY <1>1
  <2> QED
    BY <2>1 DEF _result_json
<1> QED
  BY <1>4, <1>5 DEF fits, MaxResultBytes

\* dropLinks keeps a beginning of the links: none, or one that fits.
LEMMA LinksDropped ==
  ASSUME NEW s \in Summary, NEW links \in Seq(Link)
  PROVE  /\ dropLinks(s, links) \in Seq(Link) /\ Len(dropLinks(s, links)) \in 0..Len(links)
         /\ \A i \in 1..Len(dropLinks(s, links)) : dropLinks(s, links)[i] = links[i]
         /\ dropLinks(s, links) = <<>> \/ fits(s, dropLinks(s, links))
<1> DEFINE M == {0} \cup {n \in DOMAIN links : fits(s, SubSeq(links, 1, n))}
           k == Max(M)
           ls == SubSeq(links, 1, k)
<1>1. Len(links) \in Nat /\ DOMAIN links = 1..Len(links)
  BY Elements
<1>2. M \in SUBSET (0..Len(links)) /\ M # {}
  BY <1>1
<1>3. k \in M
  <2> HIDE DEF M
  <2> QED
    BY <1>1, <1>2, MinMax
<1>4. k \in 0..Len(links) /\ (k = 0 \/ fits(s, ls))
  BY <1>2, <1>3
<1> HIDE DEF k
<1>5. ls \in Seq(Link) /\ Len(ls) = k /\ \A i \in 1..k : ls[i] = links[i]
  BY <1>4, Prefix
<1>6. k = 0 => ls = <<>>
  BY <1>5
<1>7. dropLinks(s, links) = ls
  BY DEF dropLinks, k
<1> QED
  BY <1>4, <1>5, <1>6, <1>7

\* shorten leaves text that fits, when the links are none or fit with all of it.
LEMMA Shortened ==
  ASSUME NEW s \in Summary, NEW links \in Seq(Link), links = <<>> \/ fits(s, links)
  PROVE  /\ shorten(s, links) \in Summary /\ shorten(s, links).chars <= s.chars
         /\ fits(shorten(s, links), links)
<1> DEFINE left == {0} \cup {n \in 1..s.chars : (s.chars - n) % 16 = 0}
           cut(n) == [s EXCEPT !.chars = n]
           M == {n \in left : n = 0 \/ fits(cut(n), links)}
           k == Max(M)
<1>1. s.chars \in Nat /\ s.width \in 1..4
  BY DEF Summary
<1>2. M \in SUBSET (0..s.chars) /\ M # {}
  BY <1>1
<1>3. k \in M /\ \A n \in M : n <= k
  <2> HIDE DEF M
  <2> QED
    BY <1>1, <1>2, MinMax
<1>4. \A n \in Nat : cut(n) \in Summary /\ cut(n).chars = n
  BY DEF Summary
<1>5. cut(s.chars) = s
  BY DEF Summary
<1>6. k \in 0..s.chars /\ k \in Nat
  BY <1>1, <1>2, <1>3
<1> SUFFICES fits(cut(k), links)
  <2>1. shorten(s, links) = cut(k)
    BY DEF shorten
  <2> HIDE DEF cut, k
  <2> QED
    BY <1>1, <1>4, <1>6, <2>1
<1>7. CASE k # 0
  BY <1>3, <1>7
<1>8. CASE k = 0 /\ links = <<>>
  <2>1. fits(cut(0), links)
    BY <1>4, <1>8, JsonSize
  <2> QED
    BY <1>8, <2>1
<1>9. CASE k = 0 /\ fits(s, links)
  <2>1. s.chars = 0
    <3> SUFFICES ASSUME s.chars # 0 PROVE FALSE
      OBVIOUS
    <3>1. s.chars \in 1..s.chars /\ (s.chars - s.chars) % 16 = 0
      BY <1>1
    <3>2. s.chars \in M
      BY <1>5, <1>9, <3>1
    <3> HIDE DEF M, k
    <3> QED
      BY <1>1, <1>3, <1>9, <3>2
  <2>2. cut(k) = s
    BY <1>5, <1>9, <2>1
  <2> HIDE DEF cut, k
  <2> QED
    BY <1>9, <2>2
<1> QED
  BY <1>7, <1>8, <1>9

\* What result_write writes: links of the contract and a text of the contract's
\* length, in at most MaxResultBytes and a line break.
LEMMA Written ==
  ASSUME NEW summary \in Summary, NEW links \in Seq(Link)
  PROVE  LET w == result_write(summary, links)
         IN  /\ w.links \in Seq(Link) /\ Len(w.links) <= MaxResultLinks /\ Apart(w.links, "name")
             /\ \A l \in Range(w.links) : l.name # 0
             /\ w.summary \in Summary /\ w.summary.chars <= MaxResultSummaryChars
             /\ w.bytes \in Nat /\ w.bytes <= MaxResultBytes + 1
<1> DEFINE s == _clean_summary(summary)
           acc == accepted(links)
           ls == dropLinks(s, acc)
           short == shorten(s, ls)
<1>1. s \in Summary /\ s.chars <= MaxResultSummaryChars
  <2> DEFINE t == trimmed(summary, summary.blank)
             M == {t.chars, MaxResultSummaryChars}
  <2>1. t \in Summary
    BY Trimmed
  <2>2. s = [t EXCEPT !.chars = Min(M)]
    BY DEF _clean_summary
  <2> HIDE DEF s, t
  <2>3. M \in SUBSET Nat /\ M # {} /\ MaxResultSummaryChars \in M
    BY <2>1 DEF Summary, MaxResultSummaryChars
  <2> HIDE DEF M
  <2>4. Min(M) \in Nat /\ Min(M) <= MaxResultSummaryChars
    BY <2>3, MinMax
  <2> QED
    BY <2>1, <2>2, <2>4 DEF Summary
<1>2. /\ acc \in Seq(Link) /\ Len(acc) <= MaxResultLinks /\ Apart(acc, "name")
      /\ Range(acc) \subseteq {l \in Range(links) : _valid_link(l)}
  BY KeptIsGood DEF accepted
<1> HIDE DEF s, acc
<1>3. /\ ls \in Seq(Link) /\ Len(ls) \in 0..Len(acc) /\ \A i \in 1..Len(ls) : ls[i] = acc[i]
      /\ ls = <<>> \/ fits(s, ls)
  BY <1>1, <1>2, LinksDropped
<1> HIDE DEF ls
<1>4. short \in Summary /\ short.chars <= s.chars /\ fits(short, ls)
  BY <1>1, <1>3, Shortened
<1> HIDE DEF short
<1>5. result_write(summary, links) = [summary |-> short, links |-> ls, bytes |-> _result_json(short, ls) + 1]
  BY DEF result_write, short, ls, acc, s
<1>6. /\ DOMAIN ls = 1..Len(ls) /\ Range(ls) = {ls[i] : i \in 1..Len(ls)} /\ Len(ls) \in Nat
      /\ DOMAIN acc = 1..Len(acc) /\ Range(acc) = {acc[i] : i \in 1..Len(acc)} /\ Len(acc) \in Nat
  BY <1>2, <1>3, Elements
<1>7. \A i \in 1..Len(ls) : i \in 1..Len(acc)
  BY <1>3, <1>6
<1>8. Len(ls) <= MaxResultLinks /\ Apart(ls, "name")
  <2>1. Len(ls) <= MaxResultLinks
    BY <1>2, <1>3, <1>6 DEF MaxResultLinks
  <2>2. Apart(ls, "name")
    BY <1>2, <1>3, <1>6, <1>7 DEF Apart
  <2> QED
    BY <2>1, <2>2
<1>9. \A l \in Range(ls) : l.name # 0
  BY <1>2, <1>3, <1>6, <1>7 DEF _valid_link
<1>10. short.chars <= MaxResultSummaryChars
  <2>1. short.chars \in Nat /\ s.chars \in Nat
    BY <1>1, <1>4 DEF Summary
  <2>2. short.chars <= s.chars /\ s.chars <= MaxResultSummaryChars /\ MaxResultSummaryChars \in Nat
    BY <1>1, <1>4 DEF MaxResultSummaryChars
  <2> QED
    BY <2>1, <2>2
<1>11. _result_json(short, ls) \in Nat /\ _result_json(short, ls) <= MaxResultBytes
  BY <1>3, <1>4, JsonSize DEF fits
<1>12. _result_json(short, ls) + 1 \in Nat /\ _result_json(short, ls) + 1 <= MaxResultBytes + 1
  BY <1>11 DEF MaxResultBytes
<1> DEFINE w == result_write(summary, links)
<1>13. w.links = ls /\ w.summary = short /\ w.bytes = _result_json(short, ls) + 1
  BY <1>5
<1> HIDE DEF w
<1>14. w.links \in Seq(Link) /\ Len(w.links) <= MaxResultLinks /\ Apart(w.links, "name")
  BY <1>3, <1>8, <1>13
<1>15. \A l \in Range(w.links) : l.name # 0
  BY <1>9, <1>13
<1>16. w.summary \in Summary /\ w.summary.chars <= MaxResultSummaryChars
  BY <1>4, <1>10, <1>13
<1>17. w.bytes \in Nat /\ w.bytes <= MaxResultBytes + 1
  BY <1>12, <1>13
<1> QED
  BY <1>14, <1>15, <1>16, <1>17 DEF w

\* WrittenIsRecorded of the runs, for every summary and every list of links: the
\* controller keeps what can be seen of a summary that result_write wrote, wherever
\* its blanks and its hidden characters are, and all of the links.
THEOREM ResultsAreRecorded == Spec => []WrittenIsRecorded
<1>1. BInv => WrittenIsRecorded
  <2> DEFINE ls == message.links
             s == message.summary
             t == trimmed(s, white(s) \cup s.hidden)
  <2> SUFFICES ASSUME BInv, result # None,
                      \A l \in Range(ls) : readable(l) /\ hostAllowed(l.host, egress)
               PROVE  \/ /\ Len(result.links) = Len(ls)
                         /\ \A i \in DOMAIN result.links : result.links[i] = normalized(ls[i])
                         /\ visible(result.summary) = visible(s)
                         /\ result.outcome = IF visible(s) = {} /\ ls = <<>> THEN "NotProvided" ELSE "Recorded"
                      \/ message.bytes = MaxResultBytes + 1
    BY DEF WrittenIsRecorded
  <2>1. phase = "Completed" /\ result = ParseResult(message, egress)
    BY DEF BInv
  <2>2. PICK r \in Reports : message = result_write(r.summary, r.links)
    BY <2>1 DEF BInv
  <2>3. r.summary \in Summary /\ r.links \in Seq(Link)
    BY BuildAssumption
  <2>4. /\ ls \in Seq(Link) /\ Len(ls) <= MaxResultLinks /\ Apart(ls, "name")
        /\ \A l \in Range(ls) : l.name # 0
        /\ s \in Summary /\ s.chars <= MaxResultSummaryChars
        /\ message.bytes \in Nat /\ message.bytes <= MaxResultBytes + 1
    BY <2>2, <2>3, Written
  <2> DEFINE good == {l \in Range(ls) : validateLink(l, egress)}
  <2>5. Range(ls) \subseteq good
    BY <2>4 DEF validateLink
  <2>6. keptLinks(ls, egress) = ls
    <3> HIDE DEF good, ls
    <3>1. keeping(ls, good)[Len(ls)] = ls
      BY <2>4, <2>5, AllIsKept
    <3> QED
      BY <3>1 DEF keptLinks, good
  <2>7. sanitizeSummary(s) = t
    BY <2>4, Sanitized
  <2>8. visible(t) = visible(s) /\ (t.chars = 0 <=> visible(s) = {})
    BY <2>4, VisibleStays
  <2> HIDE DEF t
  <2>9. CASE message.bytes > MaxResultBytes
    <3>1. message.bytes = MaxResultBytes + 1
      BY <2>4, <2>9 DEF MaxResultBytes
    <3> QED
      BY <3>1
  <2>10. CASE ~(message.bytes > MaxResultBytes)
    <3>1. Len(ls) \in Nat /\ DOMAIN ls = 1..Len(ls) /\ Len(ls) - Len(ls) = 0
      BY <2>4, Elements
    <3>2. /\ result.links = [i \in DOMAIN ls |-> normalized(ls[i])] /\ result.summary = t
          /\ result.outcome = IF t.chars = 0 /\ ls = <<>> THEN "NotProvided" ELSE "Recorded"
      <4>1. ParseResult(message, egress).links = [i \in DOMAIN ls |-> normalized(ls[i])]
        BY <2>6, <2>10 DEF ParseResult
      <4>2. ParseResult(message, egress).summary = t
        BY <2>7, <2>10 DEF ParseResult
      <4>3. ~(Len(ls) - Len(ls) > 0)
        BY <3>1
      <4>4. ParseResult(message, egress).outcome = IF t.chars = 0 /\ ls = <<>> THEN "NotProvided" ELSE "Recorded"
        BY <2>6, <2>7, <2>10, <4>3 DEF ParseResult
      <4> QED
        BY <2>1, <4>1, <4>2, <4>4
    <3> HIDE DEF ls, s
    <3>3. DOMAIN result.links = 1..Len(ls) /\ \A i \in 1..Len(ls) : result.links[i] = normalized(ls[i])
      BY <3>1, <3>2
    <3>4. Len(result.links) = Len(ls)
      <4> DEFINE rl == result.links
                 N == Len(ls)
      <4>1. N \in Nat /\ rl = [i \in 1..N |-> normalized(ls[i])]
        BY <3>1, <3>2
      <4> HIDE DEF rl, N
      <4>2. Len(rl) = N
        BY <4>1
      <4> QED
        BY <4>2 DEF rl, N
    <3> QED
      BY <2>8, <3>2, <3>3, <3>4
  <2> QED
    BY <2>9, <2>10
<1> QED
  BY <1>1, BuildInvariant, PTL

\* A sequence has finitely many elements.
LEMMA ElementsFinite ==
  ASSUME NEW S, NEW s \in Seq(S)
  PROVE  IsFiniteSet(Range(s))
<1>1. Len(s) \in Nat /\ s \in [1..Len(s) -> S] /\ Range(s) = {s[i] : i \in 1..Len(s)}
  BY Elements
<1>2. s \in Surjection(1..Len(s), Range(s))
  BY <1>1 DEF Surjection
<1>3. IsFiniteSet(1..Len(s))
  BY <1>1, FS_Interval
<1> QED
  BY <1>2, <1>3, FS_Surjection

\* The allowlist resolves to finitely many blocks, so resolveEgress lists them.
LEMMA BlocksAreListed ==
  ASSUME NEW a \in AllAnswers, NEW eg \in Seq(Entry)
  PROVE  Range(resolveEgress(a, eg).cidrs) = allBlocks(a, eg)
<1>1. a \in [Names -> Answer]
  BY BuildAssumption
<1>2. ASSUME NEW e \in Range(eg)
      PROVE  IsFiniteSet(blocks(a, e))
  <2>1. CASE trim(e) \notin Names
    <3>1. CASE trim(e) \in CIDRs
      <4>1. blocks(a, e) = {trim(e)}
        BY <2>1, <3>1, EgressAssumption DEF blocks
      <4> QED
        BY <4>1, FS_Singleton
    <3>2. CASE trim(e) \in IPs
      <4>1. blocks(a, e) = {Single[trim(e)]}
        BY <2>1, <3>2, EgressAssumption DEF blocks
      <4> QED
        BY <4>1, FS_Singleton
    <3>3. CASE trim(e) \notin CIDRs \cup IPs
      <4>1. blocks(a, e) = {}
        BY <2>1, <3>3 DEF blocks
      <4> QED
        BY <4>1, FS_EmptySet
    <3> QED
      BY <3>1, <3>2, <3>3
  <2>2. CASE trim(e) \in Names
    <3> DEFINE A == Range(lookup(a, e).addrs) \cap IPs
               f == [x \in A |-> Single[x]]
    <3>1. lookup(a, e) \in Answer
      BY <1>1, <2>2, EgressAssumption DEF lookup
    <3>2. lookup(a, e).addrs \in Seq(IPs \cup {"unreadable"})
      BY <3>1 DEF Answer
    <3>3. IsFiniteSet(A)
      BY <3>2, ElementsFinite, FS_Intersection
    <3>4. blocks(a, e) = {Single[x] : x \in A}
      BY <2>2, EgressAssumption DEF blocks
    <3> HIDE DEF A
    <3>5. f \in Surjection(A, {Single[x] : x \in A})
      BY DEF Surjection
    <3> QED
      BY <3>3, <3>4, <3>5, FS_Surjection
  <2> QED
    BY <2>1, <2>2
<1> DEFINE B == {blocks(a, e) : e \in Range(eg)}
           h == [e \in Range(eg) |-> blocks(a, e)]
<1>3. IsFiniteSet(B)
  <2>1. h \in Surjection(Range(eg), B)
    BY DEF Surjection
  <2> HIDE DEF h, B
  <2> QED
    BY <2>1, ElementsFinite, FS_Surjection
<1>4. IsFiniteSet(allBlocks(a, eg))
  <2>1. \A T \in B : IsFiniteSet(T)
    BY <1>2
  <2>2. allBlocks(a, eg) = UNION B
    BY DEF allBlocks
  <2> HIDE DEF B
  <2> QED
    BY <1>3, <2>1, <2>2, FS_UNION
<1> QED
  BY <1>4, Listed DEF resolveEgress

\* LinkIsReachable of the runs: a link to an address is kept only when the policy
\* lets the pod reach it, whatever the allowlist and the answers were.
THEOREM LinksAreReachable == Spec => []LinkIsReachable
<1>1. BInv => LinkIsReachable
  <2> SUFFICES ASSUME BInv, result # None, NEW l \in Range(result.links), l.host \in IPs
               PROVE  /\ Len(policy.rules) = 2
                      /\ \E c \in Range(policy.rules[2].to) : l.host \in Block[c]
    BY DEF LinkIsReachable
  <2>1. phase = "Completed" /\ result = ParseResult(message, egress)
    BY DEF BInv
  <2>2. PICK r \in Reports : message = result_write(r.summary, r.links)
    BY <2>1 DEF BInv
  <2>3. PICK a \in AllAnswers : policy = BuildNetworkPolicy(a, egress, spec.ports)
    BY <2>1 DEF BInv
  <2>4. policy.err = "none"
    BY <2>1 DEF BInv
  <2>5. message.links \in Seq(Link)
    <3>1. r.summary \in Summary /\ r.links \in Seq(Link)
      BY BuildAssumption
    <3> QED
      BY <2>2, <3>1, Written
  <2> DEFINE good == {k \in Range(message.links) : validateLink(k, egress)}
  <2>6. Range(keptLinks(message.links, egress)) \subseteq good
    BY <2>5, KeptIsGood DEF keptLinks
  <2> DEFINE kept == keptLinks(message.links, egress)
             links == [i \in DOMAIN kept |-> normalized(kept[i])]
  <2>7. result.links = <<>> \/ result.links = links
    BY <2>1 DEF ParseResult
  <2>8. PICK k \in good : k.host = l.host
    <3>1. Range(<<>>) = {}
      BY DEF Range
    <3> HIDE DEF good, kept
    <3>2. l \in Range(links)
      BY <2>7, <3>1
    <3>3. PICK i \in DOMAIN kept : l = normalized(kept[i])
      BY <3>2 DEF Range
    <3>4. kept[i] \in good
      BY <2>6 DEF Range, kept
    <3>5. kept[i] \in Link
      BY <2>5, <3>4, Elements DEF good
    <3>6. kept[i].host = l.host
      BY <3>3, <3>5 DEF normalized, Link
    <3> QED
      BY <3>4, <3>6
  <2>9. PICK e \in Range(egress) : (trim(e) \in CIDRs /\ l.host \in Block[trim(e)]) \/ trim(e) = l.host
    BY <2>8 DEF validateLink, hostAllowed
  <2>10. PICK c \in blocks(a, e) : l.host \in Block[c]
    <3>1. CASE trim(e) \in CIDRs /\ l.host \in Block[trim(e)]
      <4>1. blocks(a, e) = {trim(e)}
        BY <3>1, EgressAssumption DEF blocks
      <4> QED
        BY <3>1, <4>1
    <3>2. CASE trim(e) = l.host
      <4>1. blocks(a, e) = {Single[l.host]}
        BY <3>2, EgressAssumption DEF blocks
      <4>2. Block[Single[l.host]] = {l.host}
        BY EgressAssumption
      <4> QED
        BY <4>1, <4>2
    <3> QED
      BY <2>9, <3>1, <3>2
  <2> DEFINE cidrs == resolveEgress(a, egress).cidrs
  <2>11. egress \in Seq(Entry)
    BY EgressIsList
  <2>12. c \in Range(cidrs)
    <3>1. c \in allBlocks(a, egress)
      BY <2>9, <2>10 DEF allBlocks
    <3> QED
      BY <2>11, <3>1, BlocksAreListed
  <2>13. cidrs # <<>> /\ egress # <<>>
    <3>1. Range(<<>>) = {}
      BY DEF Range
    <3> HIDE DEF cidrs
    <3> QED
      BY <2>9, <2>12, <3>1
  <2> HIDE DEF cidrs
  <2>14. policy.rules = <<dnsEgressRule, [to |-> cidrs, ports |-> egressPorts(spec.ports)]>>
    BY <2>3, <2>4, <2>13 DEF BuildNetworkPolicy, cidrs
  <2>15. Len(policy.rules) = 2 /\ policy.rules[2].to = cidrs
    <3> DEFINE rule == [to |-> cidrs, ports |-> egressPorts(spec.ports)]
               dns == dnsEgressRule
    <3>1. rule.to = cidrs
      OBVIOUS
    <3> HIDE DEF rule, dns
    <3>2. Len(<<dns, rule>>) = 2 /\ <<dns, rule>>[2] = rule
      OBVIOUS
    <3> QED
      BY <2>14, <3>1, <3>2 DEF rule, dns
  <2> QED
    BY <2>10, <2>12, <2>15
<1> QED
  BY <1>1, BuildInvariant, PTL

-----------------------------------------------------------------------------
(* What the pod finds                                                      *)

\* The Job of a Task is the one that buildJob made.
LEMMA JobIsBuilt == ASSUME BInv, job # None PROVE Buildable /\ job = buildJob(spec, class) /\ maps = owned
BY DEF BInv, Buildable

\* PodIsComplete of the runs: an owned ConfigMap that the pod projects exists and
\* holds the key, and the prompt is there when the class mounts it.
THEOREM PodsAreComplete == Spec => []PodIsComplete
<1>1. BInv => PodIsComplete
  <2> SUFFICES ASSUME BInv, job # None
               PROVE  /\ \A m \in Range(job.mounts), v \in Range(job.volumes) :
                           (v.name = m.name /\ v.kind = "configMap"
                             /\ v.object \in {InlinePromptConfigMapName, AgentConfigMapName})
                               => [name |-> v.object, key |-> m.key] \in maps
                      /\ class.promptMount # unset => mounted(plain("prompt"))
    BY DEF PodIsComplete
  <2>1. Buildable /\ job = buildJob(spec, class) /\ maps = owned
    BY JobIsBuilt
  <2>2. /\ \E Ns : Fine(job.volumes, job.mounts, Ns)
        /\ class.promptMount # unset => \E m \in Range(job.mounts) : m.name = plain("prompt")
    BY <2>1, FinePod
  <2>3. ASSUME NEW m \in Range(job.mounts), NEW v \in Range(job.volumes), v.name = m.name
        PROVE  Backs(v, m)
    <3>1. PICK w \in Range(job.volumes) : Backs(w, m)
      BY <2>2 DEF Fine
    <3>2. w.name = v.name
      BY <2>3, <3>1 DEF Backs
    <3>3. Apart(job.volumes, "name")
      BY <2>2 DEF Fine
    <3>4. w = v
      BY <3>2, <3>3 DEF Apart, Range
    <3> QED
      BY <3>1, <3>4
  <2>4. \A m \in Range(job.mounts), v \in Range(job.volumes) :
          (v.name = m.name /\ v.kind = "configMap"
            /\ v.object \in {InlinePromptConfigMapName, AgentConfigMapName})
              => [name |-> v.object, key |-> m.key] \in maps
    BY <2>1, <2>3 DEF Backs
  <2>5. class.promptMount # unset => mounted(plain("prompt"))
    BY <2>2 DEF mounted, Range
  <2> QED
    BY <2>4, <2>5
<1> QED
  BY <1>1, BuildInvariant, PTL

\* The last variable of a name that a list has.
LEMMA LastOfName ==
  ASSUME NEW S, NEW env \in Seq(S), NEW name, NEW i \in 1..Len(env), env[i].name = name
  PROVE  \E j \in 1..Len(env) : env[j].name = name /\ i <= j /\ lastValue(env, name) = env[j].value
<1> DEFINE I == {n \in 1..Len(env) : env[n].name = name}
           j == Max(I)
<1>1. Len(env) \in Nat /\ DOMAIN env = 1..Len(env)
  OBVIOUS
<1>2. I \in SUBSET (0..Len(env)) /\ i \in I
  BY <1>1
<1>4. lastValue(env, name) = env[j].value
  BY <1>1, <1>2 DEF lastValue
<1>5. j \in I /\ i <= j
  <2> HIDE DEF I
  <2> QED
    BY <1>1, <1>2, MinMax
<1>6. j \in 1..Len(env) /\ env[j].name = name
  BY <1>5
<1> HIDE DEF j
<1> QED
  BY <1>4, <1>5, <1>6

\* Every top-level field of the config reaches the agent of a Task that runs: as an
\* env var that no other one hides, inside the full JSON in an env var, or in the
\* file of the config.
THEOREM ConfigsReachAgents == Spec => []ConfigReachesAgent
<1>1. BInv => ConfigReachesAgent
  <2> SUFFICES ASSUME BInv, job # None, NEW k \in DOMAIN spec.config.fields
               PROVE  \/ lastValue(job.env, k) = k
                      \/ class.configEnv # "" /\ lastValue(job.env, class.configEnv) = whole
                      \/ mounted(plain("config"))
    BY DEF ConfigReachesAgent
  <2> DEFINE K == {f \in DOMAIN spec.config.fields : asEnv(spec.config, f)}
             keys == sorted(K)
             scalars == [i \in DOMAIN keys |-> [name |-> keys[i], value |-> keys[i]]]
             last == [name |-> class.configEnv, value |-> whole]
             Var == [name : Keys \cup {""}, value : Keys \cup {whole}]
  <2>1. spec.config \in Config /\ class.configEnv \in Keys \cup {""}
    BY DEF BInv, TaskSpec, AgentClass
  <2>2. spec.config.json = "object" /\ DOMAIN spec.config.fields \subseteq Keys
    BY <2>1 DEF Config
  <2>3. /\ ~configError(spec, class)
        /\ job.env = scalars \o (IF class.configEnv = "" THEN <<>> ELSE <<last>>)
    <3>1. job = buildJob(spec, class) /\ BuildConfigProjection(spec, class).err = "none"
      BY JobIsBuilt, BuildersPassed
    <3>2. ~configError(spec, class)
      BY <2>2, <3>1 DEF BuildConfigProjection, NoProjection
    <3>3. job.env = BuildConfigProjection(spec, class).env
      BY <3>1 DEF buildJob
    <3> QED
      BY <2>2, <3>2, <3>3 DEF BuildConfigProjection, projection, NoProjection
  <2>4. keys \in Seq(K) /\ Range(keys) = K
    <3>1. K \subseteq Keys
      BY <2>2
    <3> HIDE DEF K
    <3>2. IsFiniteSet(K)
      BY <3>1, FS_Subset, JobAssumption
    <3> QED
      BY <3>2, Listed
  <2> HIDE DEF keys
  <2>5. /\ Len(keys) \in Nat /\ DOMAIN keys = 1..Len(keys) /\ keys \in [1..Len(keys) -> K]
        /\ Range(keys) = {keys[i] : i \in 1..Len(keys)}
    BY <2>4, Elements
  <2>6. \A i \in 1..Len(keys) : keys[i] \in Keys
    BY <2>2, <2>5
  <2>7. \A i \in 1..Len(keys) : scalars[i] = [name |-> keys[i], value |-> keys[i]]
    BY <2>5
  <2>8. scalars \in Seq(Var) /\ Len(scalars) = Len(keys)
    <3>1. scalars \in [1..Len(keys) -> Var]
      BY <2>5, <2>6
    <3> HIDE DEF scalars, Var
    <3> QED
      BY <2>5, <3>1, FunctionIsList
  <2> HIDE DEF scalars
  <2>9. CASE class.configEnv # ""
    <3>1. last \in Var /\ last.name = class.configEnv /\ last.value = whole
      BY <2>1
    <3> HIDE DEF last, Var
    <3> DEFINE env == scalars \o <<last>>
    <3>2. <<last>> \in Seq(Var) /\ Len(<<last>>) = 1 /\ <<last>>[1] = last
      BY <3>1
    <3>3. env \in Seq(Var) /\ Len(env) = Len(keys) + 1 /\ env[Len(keys) + 1] = last
      BY <2>8, <3>2, Joined
    <3>4. job.env = env
      BY <2>3, <2>9
    <3> HIDE DEF env
    <3>5. Len(keys) + 1 \in 1..Len(env)
      BY <2>5, <3>3
    <3>6. PICK j \in 1..Len(env) : Len(keys) + 1 <= j /\ lastValue(env, class.configEnv) = env[j].value
      BY <3>1, <3>3, <3>5, LastOfName
    <3>7. j = Len(keys) + 1
      BY <2>5, <3>3, <3>6
    <3> QED
      BY <2>9, <3>1, <3>3, <3>4, <3>6, <3>7
  <2>10. CASE class.configEnv = "" /\ asEnv(spec.config, k)
    <3>1. job.env = scalars
      <4>1. job.env = scalars \o <<>>
        BY <2>3, <2>10
      <4> HIDE DEF Var
      <4> QED
        BY <2>8, <4>1
    <3>2. PICK i \in 1..Len(keys) : keys[i] = k
      BY <2>4, <2>5, <2>10
    <3>3. PICK j \in 1..Len(scalars) : scalars[j].name = k /\ lastValue(scalars, k) = scalars[j].value
      <4>1. i \in 1..Len(scalars) /\ scalars[i].name = k
        <5>1. scalars[i] = [name |-> k, value |-> k]
          BY <2>7, <3>2
        <5> HIDE DEF Var
        <5> QED
          BY <2>8, <5>1
      <4> HIDE DEF Var
      <4> QED
        BY <2>8, <4>1, LastOfName
    <3>4. scalars[j].value = scalars[j].name
      <4>1. scalars[j] = [name |-> keys[j], value |-> keys[j]]
        BY <2>7, <2>8, <3>3
      <4> QED
        BY <4>1
    <3> QED
      BY <3>1, <3>3, <3>4
  <2>11. CASE class.configEnv = "" /\ ~asEnv(spec.config, k)
    <3>1. class.configMount # unset
      BY <2>2, <2>3, <2>11 DEF configError
    <3>2. Buildable /\ job = buildJob(spec, class)
      BY JobIsBuilt
    <3>3. \E m \in Range(job.mounts) : m.name = plain("config")
      BY <2>2, <3>1, <3>2, FinePod
    <3> QED
      BY <3>3 DEF mounted, Range
  <2> QED
    BY <2>9, <2>10, <2>11
<1> QED
  BY <1>1, BuildInvariant, PTL

=============================================================================
