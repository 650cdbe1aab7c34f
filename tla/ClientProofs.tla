----------------------------- MODULE ClientProofs -----------------------------
(***************************************************************************)
(* Theorems about Client, for any calls, servers, sentinels, faults, keys, *)
(* slot function and fan-outs.  What is true of ValkeyConn is true of the  *)
(* client; for the fan-out the parts of the induction say how far every    *)
(* group is:                                                               *)
(*   Shapes    the variables that are functions, and their domains         *)
(*   Applied   which groups changed the data                               *)
(*   Replied   what the groups that were executed answered                 *)
(*   Merged    the answer put together so far                              *)
(*   Judged    what the verdict and a refusal say about the groups         *)
(***************************************************************************)
EXTENDS Client, ValkeyConnProofs, FiniteSetTheorems

CallKeys == fanout.keys

\* The group of a key, and the positions and keys of a group.
Group(k) == ClusterSlot[k]
Positions(s) == {i \in DOMAIN CallKeys : Group(CallKeys[i]) = s}
Named(s) == {CallKeys[i] : i \in Positions(s)}
Groups == {Group(CallKeys[i]) : i \in DOMAIN CallKeys}

Executed(s) == tasks[s] \in {"answered", "gone", "joined"}
Untouched(s) == tasks[s] \in {"spawned", "dropped", "refused"}

Shapes ==
    /\ fanout.op \in {"mget", "mset", "del", "exists"}
    /\ CallKeys \in Seq(Keys)
    /\ tasks \in [Groups -> {"spawned", "answered", "failed", "refused", "dropped",
                            "gone", "joined"}]
    /\ reply = [s \in Groups |-> reply[s]]
    /\ before \in [Keys -> {"old", Missing}]
    /\ data \in [Keys -> {"old", "new", Missing}]
    /\ verdict \in {"running", "ok", "error"}

Applied ==
    /\ \A k \in Keys \ Range(CallKeys) : data[k] = before[k]
    /\ \A s \in Groups : \A k \in Named(s) :
          /\ Executed(s) => data[k] = Effect(fanout.op, before, CallKeys)[k]
          /\ Untouched(s) => data[k] = before[k]

Replied ==
    \A s \in Groups : Executed(s) => reply[s] = Answer(fanout.op, before, KeysOf(s))

\* The positions and the keys whose group was joined.
Done(i) == tasks[Group(CallKeys[i])] = "joined"

Merged ==
    /\ fanout.op = "mget" =>
          out = [i \in 1..Len(CallKeys) |-> IF Done(i) THEN before[CallKeys[i]] ELSE Missing]
    /\ fanout.op = "mset" => out = 0
    /\ fanout.op = "del" =>
          out = Cardinality({k \in Range(CallKeys) :
                                before[k] # Missing /\ tasks[Group(k)] = "joined"})
    /\ fanout.op = "exists" =>
          out = Cardinality({i \in DOMAIN CallKeys : before[CallKeys[i]] # Missing /\ Done(i)})

Judged ==
    /\ verdict = "ok" => \A s \in Groups : tasks[s] = "joined"
    /\ verdict = "error" => \E s \in Groups : tasks[s] \in {"failed", "refused"}
    /\ \A s \in Groups :
          tasks[s] = "refused" => \E k \in Range(KeysOf(s)) : HashedPart(k) # ServerPart(k)

FanoutInv == Shapes /\ Applied /\ Replied /\ Merged /\ Judged

-----------------------------------------------------------------------------
(* The positions of a group.                                               *)

LEMMA AscendingIsBijection ==
    ASSUME NEW S \in SUBSET Nat, IsFiniteSet(S)
    PROVE  Ascending(S) \in Bijection(1..Cardinality(S), S)
<1> DEFINE n == Cardinality(S)
           Below(x) == {y \in S : y < x}
           rank == [x \in S |-> Cardinality(Below(x)) + 1]
<1>1. n \in Nat
  BY FS_CardinalityType
<1>2. ASSUME NEW x \in S
      PROVE  IsFiniteSet(Below(x)) /\ Cardinality(Below(x)) \in Nat /\ Cardinality(Below(x)) < n
  <2>1. Below(x) \in SUBSET S /\ x \notin Below(x)
    OBVIOUS
  <2>2. IsFiniteSet(Below(x)) /\ Cardinality(Below(x)) <= n /\ Cardinality(Below(x)) # n
    <3> HIDE DEF Below
    <3> QED BY <2>1, FS_Subset
  <2>3. Cardinality(Below(x)) \in Nat
    BY <2>2, FS_CardinalityType
  <2> QED BY <1>1, <2>2, <2>3
<1>3. ASSUME NEW x \in S, NEW y \in S, x < y
      PROVE  Cardinality(Below(x)) # Cardinality(Below(y))
  <2>1. Below(x) \in SUBSET Below(y) /\ x \in Below(y) /\ x \notin Below(x)
    <3>1. x \in Nat /\ y \in Nat /\ \A z \in S : z \in Nat
      OBVIOUS
    <3>2. \A z \in S : z < x => z < y
      BY <1>3, <3>1
    <3>3. ~ (x < x)
      BY <3>1
    <3> QED BY <1>3, <3>2, <3>3
  <2>2. IsFiniteSet(Below(y))
    BY <1>2
  <2> HIDE DEF Below
  <2>3. Below(x) # Below(y)
    BY <2>1
  <2> QED BY <2>1, <2>2, <2>3, FS_Subset
<1>4. rank \in [S -> 1..n]
  <2> HIDE DEF Below
  <2> QED BY <1>1, <1>2
<1>5. \A x, y \in S : rank[x] = rank[y] => x = y
  <2> SUFFICES ASSUME NEW x \in S, NEW y \in S, x # y
               PROVE  rank[x] # rank[y]
    OBVIOUS
  <2>1. Cardinality(Below(x)) # Cardinality(Below(y))
    <3>1. x < y \/ y < x
      OBVIOUS
    <3> HIDE DEF Below
    <3> QED BY <3>1, <1>3
  <2> HIDE DEF Below
  <2> QED BY <1>2, <2>1
<1>6. rank \in Surjection(S, 1..n)
  <2>1. rank \in Injection(S, 1..n)
    <3> HIDE DEF rank
    <3> QED BY <1>4, <1>5 DEF Injection, IsInjective
  <2>2. IsFiniteSet(1..n) /\ Cardinality(1..n) = n
    BY <1>1, FS_Interval
  <2> HIDE DEF rank
  <2> QED BY <2>1, <2>2, FS_Injection
<1>7. ASSUME NEW i \in 1..n
      PROVE  Ascending(S)[i] \in S /\ rank[Ascending(S)[i]] = i
  <2>1. PICK x \in S : rank[x] = i
    <3> HIDE DEF rank
    <3> QED BY <1>6 DEF Surjection
  <2>2. Cardinality(Below(x)) = i - 1
    <3> HIDE DEF Below
    <3> QED BY <2>1, <1>2
  <2>3. \E y \in S : Cardinality(Below(y)) = i - 1
    <3> HIDE DEF Below
    <3> QED BY <2>2
  <2>4. Ascending(S)[i] = CHOOSE y \in S : Cardinality({z \in S : z < y}) = i - 1
    BY DEF Ascending
  <2>5. Ascending(S)[i] \in S /\ Cardinality(Below(Ascending(S)[i])) = i - 1
    <3>1. Ascending(S)[i] = CHOOSE y \in S : Cardinality(Below(y)) = i - 1
      BY <2>4
    <3> HIDE DEF Below
    <3> QED BY <2>3, <3>1
  <2> HIDE DEF Below
  <2> QED BY <2>5, <1>1
<1>8. Ascending(S) \in [1..n -> S]
  <2> DEFINE Nth(i) == CHOOSE x \in S : Cardinality({y \in S : y < x}) = i - 1
  <2>1. Ascending(S) = [i \in 1..n |-> Nth(i)]
    BY DEF Ascending
  <2> HIDE DEF n, Nth
  <2>2. \A i \in 1..n : Nth(i) = Ascending(S)[i]
    BY <2>1
  <2> QED BY <2>1, <2>2, <1>7
<1>9. \A i, j \in 1..n : Ascending(S)[i] = Ascending(S)[j] => i = j
  <2> HIDE DEF rank, n
  <2> QED BY <1>7
<1>10. \A x \in S : \E i \in 1..n : Ascending(S)[i] = x
  <2> HIDE DEF rank, n
  <2> QED BY <1>4, <1>5, <1>7
<1> HIDE DEF n
<1> QED BY <1>8, <1>9, <1>10 DEF Bijection, Injection, Surjection, IsInjective, n

\* What a group is: every position of it once, and the keys at them.
LEMMA TheGroups ==
    ASSUME CallKeys \in Seq(Keys)
    PROVE  /\ DOMAIN GroupBySlot(CallKeys) = Groups
           /\ DOMAIN CallKeys = 1..Len(CallKeys) /\ IsFiniteSet(DOMAIN CallKeys)
           /\ \A s \in Groups : /\ IsFiniteSet(Positions(s))
                                /\ Cardinality(Positions(s)) \in Nat
<1>1. DOMAIN GroupBySlot(CallKeys) = Groups
  BY DEF GroupBySlot, Groups, Group
<1>2. DOMAIN CallKeys = 1..Len(CallKeys) /\ Len(CallKeys) \in Nat
  OBVIOUS
<1>3. IsFiniteSet(DOMAIN CallKeys)
  BY <1>2, FS_Interval
<1>4. \A s \in Groups : Positions(s) \in SUBSET DOMAIN CallKeys
  BY DEF Positions
<1> QED BY <1>1, <1>2, <1>3, <1>4, FS_Subset, FS_CardinalityType

LEMMA TheGroup ==
    ASSUME CallKeys \in Seq(Keys), NEW s \in Groups
    PROVE  LET g == GroupBySlot(CallKeys)[s]
               n == Cardinality(Positions(s))
           IN  /\ g \in Bijection(1..n, Positions(s))
               /\ Len(g) = n /\ DOMAIN g = 1..n
               /\ KeysOf(s) = [j \in 1..n |-> CallKeys[g[j]]]
               /\ KeysOf(s) \in Seq(Keys) /\ Len(KeysOf(s)) = n
               /\ Range(KeysOf(s)) = Named(s)
<1> DEFINE g == GroupBySlot(CallKeys)[s]
           n == Cardinality(Positions(s))
<1>1. DOMAIN CallKeys = 1..Len(CallKeys) /\ IsFiniteSet(Positions(s)) /\ n \in Nat
  BY TheGroups
<1>2. g = Ascending(Positions(s))
  BY DEF GroupBySlot, Groups, Positions, Group
<1>3. Positions(s) \in SUBSET Nat /\ Positions(s) \subseteq DOMAIN CallKeys
  BY <1>1 DEF Positions
<1>4. g \in Bijection(1..n, Positions(s))
  BY <1>1, <1>2, <1>3, AscendingIsBijection
<1> HIDE DEF n, g
<1>5. g \in [1..n -> Positions(s)] /\ DOMAIN g = 1..n
  BY <1>4 DEF Bijection, Injection
<1>6. g \in Seq(Nat) /\ Len(g) = n
  BY <1>1, <1>3, <1>5
<1>7. KeysOf(s) = [j \in 1..n |-> CallKeys[g[j]]]
  BY <1>6 DEF KeysOf, g, CallKeys
<1>8. \A j \in 1..n : CallKeys[g[j]] \in Keys
  BY <1>1, <1>3, <1>5
<1>9. KeysOf(s) \in Seq(Keys) /\ Len(KeysOf(s)) = n /\ DOMAIN KeysOf(s) = 1..n
  BY <1>1, <1>7, <1>8
<1>10. Range(KeysOf(s)) = Named(s)
  <2>1. \A i \in Positions(s) : \E j \in 1..n : g[j] = i
    BY <1>4 DEF Bijection, Surjection
  <2>2. \A j \in 1..n : KeysOf(s)[j] = CallKeys[g[j]] /\ g[j] \in Positions(s)
    BY <1>5, <1>7
  <2>3. Range(KeysOf(s)) = {KeysOf(s)[j] : j \in 1..n}
    BY <1>9 DEF Range
  <2> QED BY <2>1, <2>2, <2>3 DEF Named
<1> QED BY <1>4, <1>5, <1>6, <1>7, <1>9, <1>10 DEF g, n

LEMMA KeysInGroups ==
    ASSUME CallKeys \in Seq(Keys)
    PROVE  /\ Range(CallKeys) \subseteq Keys
           /\ \A k \in Range(CallKeys) : Group(k) \in Groups /\ k \in Named(Group(k))
           /\ \A s : \A k \in Named(s) : Group(k) = s /\ k \in Range(CallKeys)
           /\ \A s : \A i \in Positions(s) : i \in DOMAIN CallKeys /\ Group(CallKeys[i]) = s
           /\ \A i \in DOMAIN CallKeys : Group(CallKeys[i]) \in Groups
BY DEF Range, Groups, Named, Positions

-----------------------------------------------------------------------------
(* One group's command.                                                    *)

LEMMA EffectType ==
    ASSUME fanout.op \in {"mget", "mset", "del", "exists"},
           NEW d \in [Keys -> {"old", "new", Missing}], NEW keys
    PROVE  Effect(fanout.op, d, keys) \in [Keys -> {"old", "new", Missing}]
BY DEF Effect

\* The command of a group does to its own keys what the call does, and
\* leaves the others alone.
LEMMA EffectOnGroup ==
    ASSUME Shapes, NEW s \in Groups, NEW k \in Keys
    PROVE  /\ k \in Named(s) /\ data[k] = before[k] =>
                Effect(fanout.op, data, KeysOf(s))[k] = Effect(fanout.op, before, CallKeys)[k]
           /\ k \notin Named(s) => Effect(fanout.op, data, KeysOf(s))[k] = data[k]
<1>1. CallKeys \in Seq(Keys) /\ fanout.op \in {"mget", "mset", "del", "exists"}
  BY DEF Shapes
<1>2. Range(KeysOf(s)) = Named(s)
  BY <1>1, TheGroup
<1>3. k \in Named(s) => k \in Range(CallKeys)
  BY <1>1, KeysInGroups
<1> QED BY <1>1, <1>2, <1>3 DEF Effect

\* The answer depends on the keys of the group alone.
LEMMA AnswerOfGroup ==
    ASSUME Shapes, NEW s \in Groups, \A k \in Named(s) : data[k] = before[k]
    PROVE  Answer(fanout.op, data, KeysOf(s)) = Answer(fanout.op, before, KeysOf(s))
<1> DEFINE K == KeysOf(s)
<1>1. CallKeys \in Seq(Keys) /\ fanout.op \in {"mget", "mset", "del", "exists"}
  BY DEF Shapes
<1>2. Range(K) = Named(s) /\ K \in Seq(Keys)
  BY <1>1, TheGroup
<1> HIDE DEF K
<1>3. DOMAIN K = 1..Len(K) /\ \A i \in DOMAIN K : K[i] \in Range(K)
  BY <1>2 DEF Range
<1>4. \A i \in DOMAIN K : data[K[i]] = before[K[i]]
  BY <1>2, <1>3
<1>5. [i \in 1..Len(K) |-> data[K[i]]] = [i \in 1..Len(K) |-> before[K[i]]]
  BY <1>3, <1>4
<1>6. {k \in Range(K) : data[k] # Missing} = {k \in Range(K) : before[k] # Missing}
  BY <1>2
<1>7. {i \in DOMAIN K : data[K[i]] # Missing} = {i \in DOMAIN K : before[K[i]] # Missing}
  BY <1>4
<1> QED BY <1>1, <1>5, <1>6, <1>7 DEF Answer, K

-----------------------------------------------------------------------------
(* The answer put together.                                                *)

LEMMA RangeIsFinite ==
    ASSUME CallKeys \in Seq(Keys) PROVE IsFiniteSet(Range(CallKeys))
<1>1. CallKeys \in Surjection(DOMAIN CallKeys, Range(CallKeys))
  BY DEF Surjection, Range
<1> QED BY <1>1, TheGroups, FS_Surjection

\* Two parts of a whole that have nothing in common.
LEMMA CountParts ==
    ASSUME NEW S, NEW T, IsFiniteSet(S), IsFiniteSet(T), S \cap T = {}
    PROVE  Cardinality(S \cup T) = Cardinality(S) + Cardinality(T)
<1>1. Cardinality(S \cap T) = 0
  BY FS_EmptySet
<1>2. Cardinality(S) \in Nat /\ Cardinality(T) \in Nat
  BY FS_CardinalityType
<1>3. Cardinality(S \cup T) = Cardinality(S) + Cardinality(T) - Cardinality(S \cap T)
  BY FS_Union
<1> QED BY <1>1, <1>2, <1>3

\* The answers of a del and of an exists over a group count the group.
LEMMA CountOfGroup ==
    ASSUME Shapes, NEW s \in Groups
    PROVE  /\ fanout.op = "del" =>
                Answer(fanout.op, before, KeysOf(s)) =
                    Cardinality({k \in Range(CallKeys) : before[k] # Missing /\ Group(k) = s})
           /\ fanout.op = "exists" =>
                Answer(fanout.op, before, KeysOf(s)) =
                    Cardinality({i \in DOMAIN CallKeys :
                                    before[CallKeys[i]] # Missing /\ Group(CallKeys[i]) = s})
<1> DEFINE K == KeysOf(s)
           g == GroupBySlot(CallKeys)[s]
           n == Cardinality(Positions(s))
           From == {j \in 1..n : before[K[j]] # Missing}
           To == {i \in Positions(s) : before[CallKeys[i]] # Missing}
<1>1. CallKeys \in Seq(Keys)
  BY DEF Shapes
<1>2. /\ g \in Bijection(1..n, Positions(s)) /\ K = [j \in 1..n |-> CallKeys[g[j]]]
      /\ Range(K) = Named(s) /\ n \in Nat
  BY <1>1, TheGroup, TheGroups
<1>3. {k \in Range(CallKeys) : before[k] # Missing /\ Group(k) = s}
         = {k \in Range(K) : before[k] # Missing}
  <2>1. \A k : k \in Range(CallKeys) /\ Group(k) = s <=> k \in Named(s)
    BY <1>1, KeysInGroups
  <2> QED BY <1>2, <2>1
<1>4. {i \in DOMAIN CallKeys : before[CallKeys[i]] # Missing /\ Group(CallKeys[i]) = s} = To
  BY DEF Positions
<1>5. Cardinality(From) = Cardinality(To)
  <2> DEFINE h == [j \in From |-> g[j]]
  <2> HIDE DEF K, g, n
  <2>1. \A j \in 1..n : K[j] = CallKeys[g[j]] /\ g[j] \in Positions(s)
    BY <1>2 DEF Bijection, Injection
  <2>2. h \in [From -> To]
    BY <2>1
  <2>3. \A i, j \in From : g[i] = g[j] => i = j
    BY <1>2 DEF Bijection, Injection, IsInjective
  <2>4. \A t \in To : \E j \in From : g[j] = t
    BY <1>2, <2>1 DEF Bijection, Surjection
  <2>5. h \in Bijection(From, To)
    <3> HIDE DEF From, To
    <3> QED BY <2>2, <2>3, <2>4 DEF Bijection, Injection, Surjection, IsInjective
  <2>6. IsFiniteSet(1..n) /\ From \in SUBSET 1..n
    BY <1>2, FS_Interval
  <2>7. IsFiniteSet(From)
    <3> HIDE DEF From
    <3> QED BY <2>6, FS_Subset
  <2> HIDE DEF From, To, h
  <2> QED BY <2>5, <2>7, FS_Bijection DEF ExistsBijection
<1>6. DOMAIN K = 1..n
  BY <1>2
<1>7. fanout.op = "exists" => Answer(fanout.op, before, K) = Cardinality(From)
  <2> HIDE DEF K, n
  <2> QED BY <1>6 DEF Answer
<1>8. fanout.op = "del" =>
         Answer(fanout.op, before, K) = Cardinality({k \in Range(K) : before[k] # Missing})
  BY DEF Answer
<1> HIDE DEF From, To
<1> QED BY <1>3, <1>4, <1>5, <1>7, <1>8

\* Merging a group turns the answer over the groups joined so far into the
\* answer over one group more.
LEMMA MergeGroup ==
    ASSUME Shapes, Merged, Replied, NEW s \in Groups, tasks[s] = "answered",
           out' = Merge(s), tasks' = [tasks EXCEPT ![s] = "joined"],
           UNCHANGED <<fanout, before>>
    PROVE  Merged'
<1> DEFINE K == KeysOf(s)
           g == GroupBySlot(CallKeys)[s]
           n == Cardinality(Positions(s))
<1>1. /\ CallKeys \in Seq(Keys) /\ fanout.op \in {"mget", "mset", "del", "exists"}
      /\ tasks \in [Groups -> {"spawned", "answered", "failed", "refused", "dropped",
                              "gone", "joined"}]
  BY DEF Shapes
<1>2. reply[s] = Answer(fanout.op, before, K)
  BY DEF Replied, Executed
<1>3. \A t \in Groups : tasks'[t] = "joined" <=> t = s \/ tasks[t] = "joined"
  BY <1>1
<1>4. CallKeys' = CallKeys /\ Groups' = Groups
  BY DEF CallKeys, Groups, Group
<1>5. DOMAIN CallKeys = 1..Len(CallKeys)
  BY <1>1, TheGroups
<1>6. \A i \in DOMAIN CallKeys : Group(CallKeys[i]) \in Groups
  BY <1>1, KeysInGroups
<1>7. CASE fanout.op = "mget"
  <2>1. out = [i \in 1..Len(CallKeys) |-> IF Done(i) THEN before[CallKeys[i]] ELSE Missing]
    BY <1>7 DEF Merged
  <2>2. out' = [i \in DOMAIN out |->
                  IF \E j \in DOMAIN g : g[j] = i
                  THEN reply[s][CHOOSE j \in DOMAIN g : g[j] = i] ELSE out[i]]
    BY <1>7 DEF Merge, CallKeys
  <2>3. /\ g \in Bijection(1..n, Positions(s)) /\ DOMAIN g = 1..n
        /\ K = [j \in 1..n |-> CallKeys[g[j]]] /\ Len(K) = n
    BY <1>1, TheGroup
  <2> HIDE DEF K, g, n
  <2>4. reply[s] = [j \in 1..n |-> before[K[j]]]
    BY <1>2, <1>7, <2>3 DEF Answer
  <2>5. \A i : (\E j \in 1..n : g[j] = i) <=> i \in Positions(s)
    BY <2>3 DEF Bijection, Injection, Surjection
  <2>6. ASSUME NEW i \in Positions(s)
        PROVE  reply[s][CHOOSE j \in 1..n : g[j] = i] = before[CallKeys[i]]
    <3>1. PICK j \in 1..n : j = CHOOSE m \in 1..n : g[m] = i
      BY <2>5
    <3>2. g[j] = i
      BY <2>5, <3>1
    <3>3. reply[s][j] = before[CallKeys[g[j]]]
      BY <2>3, <2>4
    <3> QED BY <3>1, <3>2, <3>3
  <2>7. ASSUME NEW i \in 1..Len(CallKeys)
        PROVE  out'[i] = IF Done(i)' THEN before[CallKeys[i]] ELSE Missing
    <3>1. Done(i)' <=> Group(CallKeys[i]) = s \/ Done(i)
      BY <1>3, <1>4, <1>5, <1>6 DEF Done, Group
    <3>2. out'[i] = IF i \in Positions(s) THEN before[CallKeys[i]] ELSE out[i]
      <4>1. DOMAIN out = 1..Len(CallKeys) /\ DOMAIN g = 1..n
        BY <2>1, <2>3
      <4>2. out'[i] = IF \E j \in 1..n : g[j] = i
                      THEN reply[s][CHOOSE j \in 1..n : g[j] = i] ELSE out[i]
        BY <2>2, <4>1
      <4>3. CASE i \in Positions(s)
        BY <2>5, <2>6, <4>2, <4>3
      <4>4. CASE i \notin Positions(s)
        BY <2>5, <4>2, <4>4
      <4> QED BY <4>3, <4>4
    <3>3. i \in Positions(s) <=> Group(CallKeys[i]) = s
      BY <1>5 DEF Positions
    <3> QED BY <2>1, <3>1, <3>2, <3>3
  <2>8. out' = [i \in 1..Len(CallKeys) |-> IF Done(i)' THEN before[CallKeys[i]] ELSE Missing]
    BY <2>1, <2>2, <2>7
  <2> QED BY <1>4, <1>7, <2>8 DEF Merged
<1>8. CASE fanout.op = "mset"
  BY <1>2, <1>8 DEF Merged, Merge, Answer
<1>9. CASE fanout.op = "del"
  <2> DEFINE Before == {k \in Range(CallKeys) : before[k] # Missing /\ tasks[Group(k)] = "joined"}
             Mine == {k \in Range(CallKeys) : before[k] # Missing /\ Group(k) = s}
             After == {k \in Range(CallKeys) : before[k] # Missing /\ tasks'[Group(k)] = "joined"}
  <2>1. out = Cardinality(Before)
    BY <1>9 DEF Merged
  <2>2. reply[s] = Cardinality(Mine)
    BY <1>2, <1>9, CountOfGroup
  <2>3. Before \cap Mine = {} /\ After = Before \cup Mine
    BY <1>1, <1>3, KeysInGroups
  <2>4. IsFiniteSet(Before) /\ IsFiniteSet(Mine)
    <3>1. Before \in SUBSET Range(CallKeys) /\ Mine \in SUBSET Range(CallKeys)
      OBVIOUS
    <3> HIDE DEF Before, Mine
    <3> QED BY <1>1, <3>1, RangeIsFinite, FS_Subset
  <2>5. out' = out + reply[s]
    BY <1>9 DEF Merge
  <2>6. out' = Cardinality(After)
    <3> HIDE DEF Before, Mine, After
    <3> QED BY <2>1, <2>2, <2>3, <2>4, <2>5, CountParts
  <2> QED BY <1>4, <1>9, <2>6 DEF Merged, Group
<1>10. CASE fanout.op = "exists"
  <2> DEFINE Before == {i \in DOMAIN CallKeys : before[CallKeys[i]] # Missing /\ Done(i)}
             Mine == {i \in DOMAIN CallKeys : before[CallKeys[i]] # Missing /\ Group(CallKeys[i]) = s}
             After == {i \in DOMAIN CallKeys : before[CallKeys[i]] # Missing /\ Done(i)'}
  <2>1. out = Cardinality(Before)
    BY <1>10 DEF Merged
  <2>2. reply[s] = Cardinality(Mine)
    BY <1>2, <1>10, CountOfGroup
  <2>3. Before \cap Mine = {} /\ After = Before \cup Mine
    <3>1. \A i \in DOMAIN CallKeys : Done(i)' <=> Group(CallKeys[i]) = s \/ Done(i)
      BY <1>3, <1>4, <1>6 DEF Done, Group
    <3>2. \A i \in DOMAIN CallKeys : Group(CallKeys[i]) = s => ~ Done(i)
      BY DEF Done
    <3> QED BY <3>1, <3>2
  <2>4. IsFiniteSet(Before) /\ IsFiniteSet(Mine)
    <3>1. Before \in SUBSET DOMAIN CallKeys /\ Mine \in SUBSET DOMAIN CallKeys
      OBVIOUS
    <3> HIDE DEF Before, Mine
    <3> QED BY <1>1, <3>1, TheGroups, FS_Subset
  <2>5. out' = out + reply[s]
    BY <1>10 DEF Merge
  <2>6. out' = Cardinality(After)
    <3> HIDE DEF Before, Mine, After
    <3> QED BY <2>1, <2>2, <2>3, <2>4, <2>5, CountParts
  <2> QED BY <1>4, <1>10, <2>6 DEF Merged
<1> QED BY <1>1, <1>7, <1>8, <1>9, <1>10

-----------------------------------------------------------------------------
(* The initial states.                                                     *)

LEMMA CallsHaveKeys ==
    ASSUME NEW c \in FanoutCalls
    PROVE  c.op \in {"mget", "mset", "del", "exists"} /\ c.keys \in Seq(Keys)
<1>1. c \in [op : {"mget", "mset", "del", "exists"}, keys : Seq(Seq(0..255))]
  BY FanoutAssumption
<1>2. c.keys \in Seq(Seq(0..255)) /\ Range(c.keys) \subseteq Keys
  BY <1>1 DEF Keys
<1>3. \A i \in 1..Len(c.keys) : c.keys[i] \in Keys
  BY <1>2 DEF Range
<1> QED BY <1>1, <1>2, <1>3

\* Nothing is answered, applied or merged where no group is executed.
LEMMA NothingDoneYet ==
    ASSUME Shapes, data = before, \A s \in Groups : tasks[s] = "spawned",
           FanoutMget \/ FanoutMset \/ FanoutDel \/ FanoutExists
    PROVE  Applied /\ Replied /\ Merged
<1>1. CallKeys \in Seq(Keys)
  BY DEF Shapes
<1>2. Applied /\ Replied
  BY DEF Applied, Replied, Executed
<1>3. \A i \in DOMAIN CallKeys : ~ Done(i)
  BY <1>1, KeysInGroups DEF Done
<1>4. \A k \in Range(CallKeys) : tasks[Group(k)] # "joined"
  BY <1>1, KeysInGroups
<1>5. Cardinality({}) = 0
  BY FS_EmptySet
<1>6. {k \in Range(CallKeys) : before[k] # Missing /\ tasks[Group(k)] = "joined"} = {}
  BY <1>4
<1>7. {i \in DOMAIN CallKeys : before[CallKeys[i]] # Missing /\ Done(i)} = {}
  BY <1>3
<1>8. CASE FanoutMget
  <2>1. fanout.op = "mget" /\ out = [i \in 1..Len(CallKeys) |-> Missing]
    BY <1>8 DEF FanoutMget, CallKeys
  <2>2. DOMAIN CallKeys = 1..Len(CallKeys)
    BY <1>1
  <2> QED BY <1>2, <1>3, <2>1, <2>2 DEF Merged
<1>9. CASE FanoutMset
  BY <1>2, <1>9 DEF Merged, FanoutMset
<1>10. CASE FanoutDel
  BY <1>2, <1>5, <1>6, <1>10 DEF Merged, FanoutDel
<1>11. CASE FanoutExists
  BY <1>2, <1>5, <1>7, <1>11 DEF Merged, FanoutExists
<1> QED BY <1>8, <1>9, <1>10, <1>11

LEMMA InitEstablishes == ASSUME Init PROVE FanoutInv
<1>1. CASE ConnectedInit
  <2>1. fanout = [op |-> "mget", keys |-> << >>] /\ CallKeys = << >> /\ fanout.op = "mget"
    BY <1>1 DEF ConnectedInit, CallKeys
  <2>2. Groups = {}
    BY <2>1 DEF Groups
  <2>3. Shapes
    <3>1. CallKeys \in Seq(Keys)
      BY <2>1
    <3>2. /\ before = [k \in Keys |-> Missing] /\ data = before /\ tasks = << >>
          /\ reply = << >> /\ verdict = "ok"
      BY <1>1 DEF ConnectedInit
    <3>3. tasks \in [{} -> {"spawned", "answered", "failed", "refused", "dropped",
                            "gone", "joined"}]
          /\ reply = [s \in {} |-> reply[s]]
      BY <3>2
    <3> QED BY <2>1, <2>2, <3>1, <3>2, <3>3 DEF Shapes
  <2>4. FanoutMget /\ data = before
    BY <1>1, <2>1 DEF ConnectedInit, FanoutMget
  <2>5. Judged
    BY <1>1, <2>2 DEF Judged, ConnectedInit
  <2> QED BY <2>2, <2>3, <2>4, <2>5, NothingDoneYet DEF FanoutInv
<1>2. CASE ClusterInit
  <2>1. FanoutInit
    BY <1>2 DEF ClusterInit
  <2>2. fanout.op \in {"mget", "mset", "del", "exists"} /\ CallKeys \in Seq(Keys)
    BY <2>1, CallsHaveKeys DEF FanoutInit, CallKeys
  <2>3. DOMAIN GroupBySlot(fanout.keys) = Groups
    BY <2>2, TheGroups DEF CallKeys
  <2>4. /\ tasks = [s \in Groups |-> "spawned"] /\ reply = [s \in Groups |-> Missing]
        /\ verdict = IF CallKeys = << >> THEN "ok" ELSE "running"
    BY <2>1, <2>3 DEF FanoutInit, Spawn, CallKeys
  <2>5. before \in [Keys -> {"old", Missing}] /\ data = before
    BY <2>1 DEF FanoutInit
  <2>6. Shapes
    BY <2>2, <2>4, <2>5 DEF Shapes
  <2>7. Judged
    <3>1. CallKeys = << >> => Groups = {}
      BY DEF Groups
    <3> QED BY <2>4, <3>1 DEF Judged
  <2>8. FanoutMget \/ FanoutMset \/ FanoutDel \/ FanoutExists
    BY <2>1 DEF FanoutInit
  <2> QED BY <2>4, <2>5, <2>6, <2>7, <2>8, NothingDoneYet DEF FanoutInv
<1> QED BY <1>1, <1>2 DEF Init

-----------------------------------------------------------------------------
(* The steps.  What depends on the call alone stays.                       *)

LEMMA TheCallStays ==
    ASSUME UNCHANGED <<fanout, before>>
    PROVE  /\ CallKeys' = CallKeys /\ Groups' = Groups
           /\ \A s : Named(s)' = Named(s) /\ KeysOf(s)' = KeysOf(s)
BY DEF CallKeys, Groups, Group, Named, Positions, KeysOf

\* A step that joins no group leaves the answer as it was put together.
LEMMA MergedStays ==
    ASSUME Shapes, Merged, UNCHANGED <<fanout, before, out>>,
           \A t \in Groups : tasks'[t] = "joined" <=> tasks[t] = "joined"
    PROVE  Merged'
<1>1. CallKeys \in Seq(Keys)
  BY DEF Shapes
<1>2. CallKeys' = CallKeys
  BY TheCallStays
<1>3. DOMAIN CallKeys = 1..Len(CallKeys)
  BY <1>1
<1>4. \A i \in DOMAIN CallKeys : Done(i)' <=> Done(i)
  BY <1>1, <1>2, KeysInGroups DEF Done, Group
<1>5. [i \in 1..Len(CallKeys) |-> IF Done(i)' THEN before[CallKeys[i]] ELSE Missing]
         = [i \in 1..Len(CallKeys) |-> IF Done(i) THEN before[CallKeys[i]] ELSE Missing]
  BY <1>3, <1>4
<1>6. {k \in Range(CallKeys) : before[k] # Missing /\ tasks'[Group(k)] = "joined"}
         = {k \in Range(CallKeys) : before[k] # Missing /\ tasks[Group(k)] = "joined"}
  BY <1>1, KeysInGroups
<1>7. {i \in DOMAIN CallKeys : before[CallKeys[i]] # Missing /\ Done(i)'}
         = {i \in DOMAIN CallKeys : before[CallKeys[i]] # Missing /\ Done(i)}
  BY <1>4
<1>8. CASE fanout.op = "mget"
  BY <1>2, <1>5, <1>8 DEF Merged
<1>9. CASE fanout.op = "mset"
  BY <1>9 DEF Merged
<1>10. CASE fanout.op = "del"
  BY <1>2, <1>6, <1>10 DEF Merged, Group
<1>11. CASE fanout.op = "exists"
  BY <1>2, <1>7, <1>11 DEF Merged
<1> QED BY <1>8, <1>9, <1>10, <1>11 DEF Shapes

\* A step that changes the state of one group.
OneGroup(s, to) ==
    /\ tasks' = [tasks EXCEPT ![s] = to]
    /\ UNCHANGED <<fanout, before>>

LEMMA ExecuteKeeps ==
    ASSUME FanoutInv, NEW s \in Groups, Execute(s)
    PROVE  FanoutInv'
<1>1. /\ CallKeys \in Seq(Keys) /\ fanout.op \in {"mget", "mset", "del", "exists"}
      /\ Shapes /\ Applied /\ Replied /\ Merged /\ Judged
  BY DEF FanoutInv, Shapes
<1>2. PICK to \in {"answered", "gone"} : OneGroup(s, to)
  BY DEF Execute, OneGroup
<1>3. /\ tasks[s] \in {"spawned", "dropped"}
      /\ reply' = [reply EXCEPT ![s] = Answer(fanout.op, data, KeysOf(s))]
      /\ data' = Effect(fanout.op, data, KeysOf(s))
      /\ UNCHANGED <<fanout, before, out, verdict>>
  BY DEF Execute
<1>4. /\ CallKeys' = CallKeys /\ Groups' = Groups
      /\ \A t : Named(t)' = Named(t) /\ KeysOf(t)' = KeysOf(t)
  BY <1>3, TheCallStays
<1>5. tasks'[s] = to /\ \A t \in Groups \ {s} : tasks'[t] = tasks[t]
  BY <1>1, <1>2 DEF OneGroup, Shapes
<1>6. \A k \in Named(s) : data[k] = before[k]
  BY <1>1, <1>3 DEF Applied, Untouched
<1>7. \A t : Named(t) \subseteq Keys /\ \A k \in Named(t) : Group(k) = t
  BY <1>1, KeysInGroups
<1>8. Shapes'
  <2>1. tasks' \in [Groups -> {"spawned", "answered", "failed", "refused", "dropped",
                              "gone", "joined"}]
    BY <1>1, <1>2 DEF OneGroup, Shapes
  <2>2. reply' = [t \in Groups |-> reply'[t]]
    BY <1>1, <1>3 DEF Shapes
  <2>3. data' \in [Keys -> {"old", "new", Missing}]
    BY <1>1, <1>3, EffectType DEF Shapes
  <2> QED BY <1>1, <1>3, <1>4, <2>1, <2>2, <2>3 DEF Shapes
<1>9. Applied'
  <2>1. \A k \in Keys \ Range(CallKeys) : data'[k] = before[k]
    <3> SUFFICES ASSUME NEW k \in Keys \ Range(CallKeys) PROVE data'[k] = before[k]
      OBVIOUS
    <3>1. k \notin Named(s)
      BY <1>1, KeysInGroups
    <3> QED BY <1>1, <1>3, <3>1, EffectOnGroup DEF Applied
  <2>2. ASSUME NEW t \in Groups, NEW k \in Named(t)
        PROVE  /\ Executed(t)' => data'[k] = Effect(fanout.op, before, CallKeys)[k]
               /\ Untouched(t)' => data'[k] = before[k]
    <3>0. k \in Keys
      BY <1>7
    <3>1. CASE t = s
      <4>1. data'[k] = Effect(fanout.op, before, CallKeys)[k]
        BY <1>1, <1>3, <1>6, <3>0, <3>1, EffectOnGroup
      <4>2. ~ Untouched(t)'
        BY <1>5, <3>1 DEF Untouched
      <4> QED BY <4>1, <4>2
    <3>2. CASE t # s
      <4>1. k \notin Named(s)
        BY <1>7, <3>2
      <4>2. data'[k] = data[k]
        BY <1>1, <1>3, <3>0, <4>1, EffectOnGroup
      <4>3. tasks'[t] = tasks[t]
        BY <1>5, <3>2
      <4> QED BY <1>1, <4>2, <4>3 DEF Applied, Executed, Untouched
    <3> QED BY <3>1, <3>2
  <2> QED BY <1>3, <1>4, <2>1, <2>2 DEF Applied
<1>10. Replied'
  <2>1. ASSUME NEW t \in Groups, Executed(t)'
        PROVE  reply'[t] = Answer(fanout.op, before, KeysOf(t))
    <3>1. CASE t = s
      <4>1. reply'[s] = Answer(fanout.op, data, KeysOf(s))
        BY <1>1, <1>3 DEF Shapes
      <4> QED BY <1>1, <1>6, <3>1, <4>1, AnswerOfGroup
    <3>2. CASE t # s
      <4>1. reply'[t] = reply[t] /\ Executed(t)
        BY <1>1, <1>3, <1>5, <2>1, <3>2 DEF Shapes, Executed
      <4> QED BY <1>1, <4>1 DEF Replied
    <3> QED BY <3>1, <3>2
  <2> QED BY <1>3, <1>4, <2>1 DEF Replied
<1>11. Merged'
  BY <1>1, <1>3, <1>5, MergedStays
<1>12. Judged'
  BY <1>1, <1>3, <1>4, <1>5 DEF Judged
<1> QED BY <1>8, <1>9, <1>10, <1>11, <1>12 DEF FanoutInv

\* A group that ends without an answer, and with its own keys the only ones
\* that may have changed.
LEMMA GroupEnds ==
    ASSUME FanoutInv, NEW s \in Groups, NEW to \in {"refused", "failed"},
           tasks[s] \in {"spawned", "dropped"}, OneGroup(s, to),
           data' \in [Keys -> {"old", "new", Missing}],
           \A k \in Keys \ Named(s) : data'[k] = data[k],
           to = "refused" => data' = data,
           UNCHANGED <<reply, out, verdict>>
    PROVE  Shapes' /\ Applied' /\ Replied' /\ Merged'
<1>1. /\ CallKeys \in Seq(Keys) /\ Shapes /\ Applied /\ Replied /\ Merged
      /\ UNCHANGED <<fanout, before>>
  BY DEF FanoutInv, Shapes, OneGroup
<1>2. /\ CallKeys' = CallKeys /\ Groups' = Groups
      /\ \A t : Named(t)' = Named(t) /\ KeysOf(t)' = KeysOf(t)
  BY <1>1, TheCallStays
<1>3. tasks'[s] = to /\ \A t \in Groups \ {s} : tasks'[t] = tasks[t]
  BY <1>1 DEF OneGroup, Shapes
<1>4. Shapes'
  <2>1. tasks' \in [Groups -> {"spawned", "answered", "failed", "refused", "dropped",
                              "gone", "joined"}]
    BY <1>1 DEF OneGroup, Shapes
  <2> QED BY <1>1, <1>2, <2>1 DEF Shapes
<1>5. Applied'
  <2>1. \A k \in Keys \ Range(CallKeys) : data'[k] = before[k]
    <3>1. \A k \in Keys \ Range(CallKeys) : k \in Keys \ Named(s)
      BY <1>1, KeysInGroups
    <3> QED BY <1>1, <3>1 DEF Applied
  <2>2. ASSUME NEW t \in Groups, NEW k \in Named(t)
        PROVE  /\ Executed(t)' => data'[k] = Effect(fanout.op, before, CallKeys)[k]
               /\ Untouched(t)' => data'[k] = before[k]
    <3>1. CASE t = s
      <4>1. ~ Executed(t)' /\ (Untouched(t)' => to = "refused") /\ Untouched(s)
        BY <1>3, <3>1 DEF Executed, Untouched
      <4> QED BY <1>1, <3>1, <4>1 DEF Applied
    <3>2. CASE t # s
      <4>1. k \in Keys \ Named(s)
        BY <1>1, <3>2, KeysInGroups
      <4>2. tasks'[t] = tasks[t] /\ data'[k] = data[k]
        BY <1>3, <3>2, <4>1
      <4> QED BY <1>1, <4>2 DEF Applied, Executed, Untouched
    <3> QED BY <3>1, <3>2
  <2> QED BY <1>1, <1>2, <2>1, <2>2 DEF Applied
<1>6. Replied'
  <2>1. \A t \in Groups : Executed(t)' => Executed(t)
    BY <1>3 DEF Executed
  <2> QED BY <1>1, <1>2, <2>1 DEF Replied
<1>7. Merged'
  BY <1>1, <1>3, MergedStays
<1> QED BY <1>4, <1>5, <1>6, <1>7

LEMMA RefuseKeeps ==
    ASSUME FanoutInv, NEW s \in Groups, Refuse(s)
    PROVE  FanoutInv'
<1>1. /\ tasks[s] \in {"spawned", "dropped"} /\ OneGroup(s, "refused")
      /\ UNCHANGED <<data, reply, out, verdict, fanout, before>>
  BY DEF Refuse, OneGroup
<1>2. CallKeys \in Seq(Keys) /\ Shapes /\ Judged
  BY DEF FanoutInv, Shapes
<1>3. Shapes' /\ Applied' /\ Replied' /\ Merged'
  BY <1>1, <1>2, GroupEnds DEF Shapes
<1>4. /\ CallKeys' = CallKeys /\ Groups' = Groups
      /\ \A t : KeysOf(t)' = KeysOf(t)
  BY <1>1, TheCallStays
<1>5. tasks'[s] = "refused" /\ \A t \in Groups \ {s} : tasks'[t] = tasks[t]
  BY <1>1, <1>2 DEF OneGroup, Shapes
<1>6. \E k \in Range(KeysOf(s)) : HashedPart(k) # ServerPart(k)
  <2>1. PICK k, j \in Range(KeysOf(s)) : ServerSlot[k] # ServerSlot[j]
    BY DEF Refuse
  <2>2. \A m \in Range(KeysOf(s)) : m \in Keys /\ ClusterSlot[m] = s
    BY <1>2, TheGroup, KeysInGroups DEF Group
  <2>3. \A m \in Range(KeysOf(s)) :
           ClusterSlot[m] = SlotOf(HashedPart(m)) /\ ServerSlot[m] = SlotOf(ServerPart(m))
    BY <2>2 DEF ClusterSlot, ServerSlot
  <2> QED BY <2>1, <2>2, <2>3
<1>7. Judged'
  BY <1>1, <1>2, <1>4, <1>5, <1>6 DEF Judged
<1> QED BY <1>3, <1>7 DEF FanoutInv

LEMMA NodeFailsKeeps ==
    ASSUME FanoutInv, NEW s \in Groups, NodeFails(s)
    PROVE  FanoutInv'
<1>1. /\ tasks[s] = "spawned" /\ OneGroup(s, "failed")
      /\ data' \in {data, Effect(fanout.op, data, KeysOf(s))}
      /\ UNCHANGED <<reply, out, verdict, fanout, before>>
  BY DEF NodeFails, OneGroup
<1>2. CallKeys \in Seq(Keys) /\ Shapes /\ Judged
  BY DEF FanoutInv, Shapes
<1>3. data' \in [Keys -> {"old", "new", Missing}]
  BY <1>1, <1>2, EffectType DEF Shapes
<1>4. \A k \in Keys \ Named(s) : data'[k] = data[k]
  BY <1>1, <1>2, EffectOnGroup
<1>5. Shapes' /\ Applied' /\ Replied' /\ Merged'
  BY <1>1, <1>3, <1>4, GroupEnds
<1>6. /\ CallKeys' = CallKeys /\ Groups' = Groups
      /\ \A t : KeysOf(t)' = KeysOf(t)
  BY <1>1, TheCallStays
<1>7. tasks'[s] = "failed" /\ \A t \in Groups \ {s} : tasks'[t] = tasks[t]
  BY <1>1, <1>2 DEF OneGroup, Shapes
<1>8. Judged'
  BY <1>1, <1>2, <1>6, <1>7 DEF Judged
<1> QED BY <1>5, <1>8 DEF FanoutInv

LEMMA JoinNextKeeps ==
    ASSUME FanoutInv, NEW s \in Groups, JoinNext(s)
    PROVE  FanoutInv'
<1>1. /\ CallKeys \in Seq(Keys) /\ Shapes /\ Applied /\ Replied /\ Merged /\ Judged
  BY DEF FanoutInv, Shapes
<1>2. UNCHANGED <<fanout, before, data, reply>> /\ verdict = "running"
  BY DEF JoinNext
<1>3. /\ CallKeys' = CallKeys /\ Groups' = Groups
      /\ \A t : Named(t)' = Named(t) /\ KeysOf(t)' = KeysOf(t)
  BY <1>2, TheCallStays
<1>4. DOMAIN tasks = Groups
  BY <1>1 DEF Shapes
<1>5. SUFFICES Shapes' /\ Applied' /\ Replied' /\ Merged' /\ Judged'
  BY DEF FanoutInv
<1>6. CASE /\ tasks[s] = "answered" /\ out' = Merge(s)
           /\ tasks' = [tasks EXCEPT ![s] = "joined"]
           /\ verdict' = IF \A u \in DOMAIN tasks \ {s} : tasks[u] = "joined"
                         THEN "ok" ELSE "running"
  <2>1. tasks'[s] = "joined" /\ \A t \in Groups \ {s} : tasks'[t] = tasks[t]
    BY <1>1, <1>6 DEF Shapes
  <2>2. \A t \in Groups : /\ Executed(t)' => Executed(t)
                          /\ Untouched(t)' => Untouched(t)
                          /\ tasks'[t] = "refused" => tasks[t] = "refused"
    BY <1>6, <2>1 DEF Executed, Untouched
  <2>3. Shapes'
    <3>1. tasks' \in [Groups -> {"spawned", "answered", "failed", "refused", "dropped",
                                "gone", "joined"}]
      BY <1>1, <1>6 DEF Shapes
    <3>2. verdict' \in {"running", "ok", "error"}
      BY <1>6
    <3> QED BY <1>1, <1>2, <1>3, <3>1, <3>2 DEF Shapes
  <2>4. Applied'
    BY <1>1, <1>2, <1>3, <2>2 DEF Applied
  <2>5. Replied'
    BY <1>1, <1>2, <1>3, <2>2 DEF Replied
  <2>6. Merged'
    BY <1>1, <1>2, <1>6, MergeGroup
  <2>7. Judged'
    <3>1. verdict' = "ok" => \A t \in Groups : tasks'[t] = "joined"
      BY <1>4, <1>6, <2>1
    <3>2. verdict' # "error"
      BY <1>6
    <3> QED BY <1>1, <1>3, <2>2, <3>1, <3>2 DEF Judged
  <2> QED BY <2>3, <2>4, <2>5, <2>6, <2>7
<1>7. CASE /\ tasks[s] \in {"failed", "refused"} /\ verdict' = "error"
           /\ tasks' = [u \in DOMAIN tasks |->
                           IF tasks[u] = "spawned" THEN "dropped" ELSE tasks[u]]
           /\ UNCHANGED out
  <2>1. \A t \in Groups : tasks'[t] = IF tasks[t] = "spawned" THEN "dropped" ELSE tasks[t]
    BY <1>4, <1>7
  <2>2. \A t \in Groups : /\ Executed(t)' => Executed(t)
                          /\ Untouched(t)' => Untouched(t)
                          /\ tasks'[t] = "refused" => tasks[t] = "refused"
                          /\ tasks'[t] = "joined" <=> tasks[t] = "joined"
    BY <2>1 DEF Executed, Untouched
  <2>3. Shapes'
    <3>1. tasks' \in [Groups -> {"spawned", "answered", "failed", "refused", "dropped",
                                "gone", "joined"}]
      BY <1>1, <1>4, <1>7 DEF Shapes
    <3> QED BY <1>1, <1>2, <1>3, <1>7, <3>1 DEF Shapes
  <2>4. Applied'
    BY <1>1, <1>2, <1>3, <2>2 DEF Applied
  <2>5. Replied'
    BY <1>1, <1>2, <1>3, <2>2 DEF Replied
  <2>6. Merged'
    BY <1>1, <1>2, <1>7, <2>2, MergedStays
  <2>7. Judged'
    <3>1. tasks'[s] \in {"failed", "refused"}
      BY <1>7, <2>1
    <3> QED BY <1>1, <1>3, <1>7, <2>2, <3>1 DEF Judged
  <2> QED BY <2>3, <2>4, <2>5, <2>6, <2>7
<1> QED BY <1>6, <1>7 DEF JoinNext

LEMMA StepKeeps == ASSUME FanoutInv, [Next]_clientVars PROVE FanoutInv'
<1>1. CASE UNCHANGED fanoutVars
  <2>1. UNCHANGED <<fanout, before, data, tasks, reply, out, verdict>>
    BY <1>1 DEF fanoutVars
  <2>2. /\ CallKeys' = CallKeys /\ Groups' = Groups
        /\ \A t : Named(t)' = Named(t) /\ KeysOf(t)' = KeysOf(t)
    BY <2>1, TheCallStays
  <2>3. \A t : Executed(t)' = Executed(t) /\ Untouched(t)' = Untouched(t)
    BY <2>1 DEF Executed, Untouched
  <2>4. Shapes' /\ Applied' /\ Replied' /\ Judged'
    BY <2>1, <2>2, <2>3 DEF FanoutInv, Shapes, Applied, Replied, Judged
  <2>5. Merged'
    BY <2>1, MergedStays DEF FanoutInv
  <2> QED BY <2>4, <2>5 DEF FanoutInv
<1>2. CASE FanoutNext
  <2>1. DOMAIN tasks = Groups
    BY DEF FanoutInv, Shapes
  <2>2. PICK s \in Groups : Execute(s) \/ Refuse(s) \/ NodeFails(s) \/ JoinNext(s)
    BY <1>2, <2>1 DEF FanoutNext
  <2> QED BY <2>2, ExecuteKeeps, RefuseKeeps, NodeFailsKeeps, JoinNextKeeps
<1> QED BY <1>1, <1>2 DEF Next, clientVars

-----------------------------------------------------------------------------
(* The theorems.                                                           *)

\* What the groups did and answered adds up to the call.
LEMMA GroupsMakeTheCall ==
    ASSUME Shapes, Applied, Merged, \A s \in Groups : tasks[s] = "joined"
    PROVE  /\ out = Answer(fanout.op, before, CallKeys)
           /\ data = Effect(fanout.op, before, CallKeys)
<1>1. CallKeys \in Seq(Keys) /\ fanout.op \in {"mget", "mset", "del", "exists"}
  BY DEF Shapes
<1>2. DOMAIN CallKeys = 1..Len(CallKeys)
  BY <1>1
<1>3. \A i \in DOMAIN CallKeys : Done(i)
  BY <1>1, KeysInGroups DEF Done
<1>4. \A k \in Range(CallKeys) : tasks[Group(k)] = "joined"
  BY <1>1, KeysInGroups
<1>5. out = Answer(fanout.op, before, CallKeys)
  <2>1. [i \in 1..Len(CallKeys) |-> IF Done(i) THEN before[CallKeys[i]] ELSE Missing]
           = [i \in 1..Len(CallKeys) |-> before[CallKeys[i]]]
    BY <1>2, <1>3
  <2>2. {k \in Range(CallKeys) : before[k] # Missing /\ tasks[Group(k)] = "joined"}
           = {k \in Range(CallKeys) : before[k] # Missing}
    BY <1>4
  <2>3. {i \in DOMAIN CallKeys : before[CallKeys[i]] # Missing /\ Done(i)}
           = {i \in DOMAIN CallKeys : before[CallKeys[i]] # Missing}
    BY <1>3
  <2> QED BY <1>1, <2>1, <2>2, <2>3 DEF Merged, Answer
<1>6. data = Effect(fanout.op, before, CallKeys)
  <2> DEFINE E == Effect(fanout.op, before, CallKeys)
  <2>1. before \in [Keys -> {"old", "new", Missing}] /\ data \in [Keys -> {"old", "new", Missing}]
    BY DEF Shapes
  <2>2. E \in [Keys -> {"old", "new", Missing}]
    BY <1>1, <2>1, EffectType
  <2>3. \A k \in Range(CallKeys) : data[k] = E[k]
    BY <1>1, <1>4, KeysInGroups DEF Applied, Executed
  <2>4. \A k \in Keys \ Range(CallKeys) : data[k] = E[k]
    BY DEF Applied, Effect
  <2> HIDE DEF E
  <2>5. \A k \in Keys : data[k] = E[k]
    BY <2>3, <2>4
  <2>6. data = E
    BY <2>1, <2>2, <2>5
  <2> QED BY <2>6 DEF E
<1> QED BY <1>5, <1>6

LEMMA InvImpliesOneCommand == ASSUME FanoutInv PROVE FanoutIsOneCommand
<1>1. CallKeys \in Seq(Keys) /\ Shapes /\ Applied /\ Merged /\ Judged
  BY DEF FanoutInv, Shapes
<1>2. DOMAIN tasks = Groups
  BY <1>1 DEF Shapes
<1>3. verdict = "ok" => /\ out = Answer(fanout.op, before, fanout.keys)
                        /\ data = Effect(fanout.op, before, fanout.keys)
  BY <1>1, GroupsMakeTheCall DEF Judged, CallKeys
<1> QED BY <1>1, <1>2, <1>3 DEF FanoutIsOneCommand, Judged

\* Whatever keys a call names, whatever function takes a key to its slot,
\* however many nodes fail and in whatever order the tasks finish: a
\* fan-out that succeeds did and answered what the one command would have
\* (group_by_slot, fanout_mget, fanout_mset, fanout_del, fanout_exists),
\* and a group is refused only for a key whose hash tag cluster_slot misreads.
THEOREM FanoutsAreOneCommand == Spec => []FanoutIsOneCommand
<1>1. Init => FanoutInv
  BY InitEstablishes
<1>2. FanoutInv /\ [Next]_clientVars => FanoutInv'
  BY StepKeeps
<1>3. FanoutInv => FanoutIsOneCommand
  BY InvImpliesOneCommand
<1> QED BY <1>1, <1>2, <1>3, PTL DEF Spec

\* The client's connection behaves as ValkeyConn says, whichever arm of
\* ValkeyConnInner it has: its steps are those of ValkeyConn and steps that
\* leave the connection alone.
THEOREM ClientHasConnection == Spec => ConnSpec
<1>1. Init => ConnInit
  BY DEF Init, ConnectedInit, ClusterInit
<1>2. [Next]_clientVars => [ConnNext]_connVars
  BY DEF Next, clientVars
<1> QED BY <1>1, <1>2, PTL DEF Spec, ConnSpec

\* So a caller of the client hears what became of its command (sentinel_retry).
THEOREM ClientTellsTheTruth == Spec => []TellsTheTruth
BY ClientHasConnection, CallersHearTheTruth, PTL

\* And keeps the promise of CommandCall to each caller: tried at most twice,
\* the second time not before the first is over, and final once answered.
THEOREM ClientImplementsCall == Spec => ImplementsCall
BY ClientHasConnection, Refinement, PTL

\* And a call in whose way nothing is succeeds (sentinel_retry, get_blocking).
THEOREM ClientCalmCallsSucceed == Spec => []CalmCallSucceeds
BY ClientHasConnection, CalmCallsSucceed, PTL

=============================================================================
