--------------------------- MODULE ReasoningProofs ---------------------------
(***************************************************************************)
(* Proofs about Reasoning: the entities Stage C stores are of the right    *)
(* type, names are lost to their keys only and none is added twice, and     *)
(* ranked items are dropped last.  The loops of the code are folds over lists of any        *)
(* length; what they compute is shown by the least number principle.       *)
(***************************************************************************)
EXTENDS Reasoning, FiniteSetTheorems, SequenceTheorems, WellFoundedInduction, TLAPS

-----------------------------------------------------------------------------
(* Folds.                                                                  *)

\* The least number principle, for sets.
LEMMA LeastOf ==
    ASSUME NEW T, T \subseteq Nat, T # {}
    PROVE  \E x \in T : \A y \in T : x <= y
<1>1. PICK x \in T : \A y \in T : <<y, x>> \notin OpToRel(<, Nat)
    BY NatLessThanWellFounded, WFMin
<1>2. ASSUME NEW y \in T
      PROVE  x <= y
    <2>1. <<y, x>> \in Nat \X Nat
        BY <1>1
    <2>2. ~(y < x)
        BY <1>1, <2>1 DEF OpToRel
    <2>. QED BY <2>1, <2>2
<1>. QED BY <1>1, <1>2

\* Induction up to n, for a set G of numbers.
LEMMA InductionTo ==
    ASSUME NEW n \in Nat, NEW G, 0 \in G,
           \A k \in 0..n : k \in G /\ k < n => k + 1 \in G
    PROVE  n \in G
<1>. SUFFICES ASSUME n \notin G PROVE FALSE
    OBVIOUS
<1>. DEFINE B == 0..n \ G
<1>1. B \subseteq Nat /\ n \in B
    OBVIOUS
<1>2. PICK x \in B : \A y \in B : x <= y
    BY <1>1, LeastOf
<1>3. x \in 0..n /\ x # 0 /\ x \notin G
    BY <1>2
<1>4. x - 1 \in 0..n /\ x - 1 < n /\ x - 1 \notin B
    BY <1>2, <1>3
<1>5. (x - 1) + 1 \in G
    BY <1>4
<1>. QED BY <1>3, <1>5

\* The greatest element of a set of positions.
LEMMA MaxProperties ==
    ASSUME NEW n \in Nat, NEW s, s \subseteq 1..n, s # {}
    PROVE  Max(s) \in s /\ \A i \in s : i <= Max(s)
<1>4. \A j \in s : j \in Int
    OBVIOUS
<1>. DEFINE D == {n - i : i \in s}
<1>1. D \subseteq Nat /\ D # {}
    <2>1. \A i \in s : n - i \in Nat
        OBVIOUS
    <2>. QED BY <2>1
<1>2. PICK d \in D : \A e \in D : d <= e
    BY <1>1, LeastOf
<1>3. PICK i \in s : d = n - i
    BY <1>2
<1>5. \A j \in s : i >= j
    <2>. SUFFICES ASSUME NEW j \in s PROVE i >= j
        OBVIOUS
    <2>1. n - j \in D
        OBVIOUS
    <2>2. n - i <= n - j
        BY <1>2, <1>3, <2>1
    <2>. HIDE DEF D
    <2>. QED BY <1>3, <1>4, <2>2
<1>6. Max(s) \in s /\ \A j \in s : Max(s) >= j
    BY <1>5 DEF Max
<1>. QED BY <1>4, <1>6

\* g[s] is the fold of the step F over the positions in s, the greatest last.
IsFold(g, n, base, F) ==
    \A s \in SUBSET (1..n) :
        g[s] = IF s = {} THEN base ELSE F[<<Max(s), g[s \ {Max(s)}]>>]

\* A fold over the positions in a list is well defined.
LEMMA FoldExists ==
    ASSUME NEW T, NEW base \in T, NEW n \in Nat, NEW F \in [(1..n) \X T -> T]
    PROVE  \E g \in [SUBSET (1..n) -> T] : IsFold(g, n, base, F)
<1>. DEFINE Good(k, g) ==
                /\ g \in [SUBSET (1..k) -> T]
                /\ \A s \in SUBSET (1..k) :
                    g[s] = IF s = {} THEN base ELSE F[<<Max(s), g[s \ {Max(s)}]>>]
            G == {k \in 0..n : \E g : Good(k, g)}
<1>1. 0 \in G
    <2>. DEFINE g == [s \in SUBSET (1..0) |-> base]
    <2>1. \A s \in SUBSET (1..0) : s = {}
        OBVIOUS
    <2>2. Good(0, g)
        BY <2>1
    <2>. HIDE DEF g, Good
    <2>. QED BY <2>2
<1>2. ASSUME NEW k \in 0..n, k \in G, k < n
      PROVE  k + 1 \in G
    <2>1. PICK g : Good(k, g)
        BY <1>2
    <2>. DEFINE h == [s \in SUBSET (1..(k + 1)) |->
                        IF k + 1 \in s THEN F[<<k + 1, g[s \ {k + 1}]>>] ELSE g[s]]
    <2>2. \A s \in SUBSET (1..(k + 1)) :
                /\ s \ {k + 1} \in SUBSET (1..k)
                /\ k + 1 \notin s => s \in SUBSET (1..k)
        OBVIOUS
    <2>3. k \in Nat /\ k + 1 \in Nat /\ k + 1 \in 1..n
        BY <1>2
    <2>4. h \in [SUBSET (1..(k + 1)) -> T]
        BY <2>1, <2>2, <2>3
    <2>5. ASSUME NEW s \in SUBSET (1..(k + 1))
          PROVE  h[s] = IF s = {} THEN base ELSE F[<<Max(s), h[s \ {Max(s)}]>>]
        <3>1. CASE s = {}
            BY <2>1, <3>1
        <3>2. CASE k + 1 \in s
            <4>1. Max(s) \in s /\ k + 1 <= Max(s)
                BY <2>3, <3>2, MaxProperties
            <4>2. Max(s) = k + 1
                <5>1. Max(s) \in 1..(k + 1)
                    BY <4>1
                <5>. QED BY <2>3, <4>1, <5>1
            <4>3. h[s] = F[<<k + 1, g[s \ {k + 1}]>>]
                BY <3>2
            <4>4. s \ {k + 1} \in SUBSET (1..(k + 1)) /\ k + 1 \notin s \ {k + 1}
                OBVIOUS
            <4>5. h[s \ {k + 1}] = g[s \ {k + 1}]
                BY <4>4
            <4>. QED BY <3>2, <4>2, <4>3, <4>5
        <3>3. CASE s # {} /\ k + 1 \notin s
            <4>1. Max(s) \in s
                BY <2>3, <3>3, MaxProperties
            <4>2. s \in SUBSET (1..k)
                BY <2>2, <3>3
            <4>3. g[s] = F[<<Max(s), g[s \ {Max(s)}]>>]
                BY <2>1, <3>3, <4>2
            <4>4. h[s] = g[s]
                BY <3>3
            <4>5. h[s \ {Max(s)}] = g[s \ {Max(s)}]
                BY <3>3, <4>2
            <4>. QED BY <3>3, <4>3, <4>4, <4>5
        <3>. QED BY <3>1, <3>2, <3>3
    <2>6. Good(k + 1, h)
        <3>. HIDE DEF h
        <3>. QED BY <2>4, <2>5
    <2>7. k + 1 \in 0..n
        BY <2>3
    <2>. HIDE DEF h, Good
    <2>. QED BY <2>6, <2>7
<1>3. n \in G
    <2>. HIDE DEF G
    <2>. QED BY <1>1, <1>2, InductionTo
<1>. QED BY <1>3 DEF IsFold

-----------------------------------------------------------------------------
(* Select.                                                                 *)

\* One step of Select takes the element at a position.
Taking(list, P, S) ==
    [x \in (1..Len(list)) \X Seq(S) |->
        IF x[1] \in P THEN Append(x[2], list[x[1]]) ELSE x[2]]

\* Select satisfies its equation.
LEMMA SelectUnfolds ==
    ASSUME NEW list, Len(list) \in Nat, NEW P, P \subseteq 1..Len(list),
           NEW S, \A i \in P : list[i] \in S
    PROVE  \E g : /\ \A s \in SUBSET P :
                        g[s] = IF s = {} THEN <<>>
                               ELSE Append(g[s \ {Max(s)}], list[Max(s)])
                  /\ Select(list, P) = g[P]
<1>. DEFINE n == Len(list)
            F == Taking(list, P, S)
            Step(g, s) == IF s = {} THEN <<>> ELSE Append(g[s \ {Max(s)}], list[Max(s)])
<1>1. F \in [(1..n) \X Seq(S) -> Seq(S)]
    <2>1. ASSUME NEW x \in (1..n) \X Seq(S)
          PROVE  (IF x[1] \in P THEN Append(x[2], list[x[1]]) ELSE x[2]) \in Seq(S)
        BY AppendProperties
    <2>. QED BY <2>1 DEF Taking
<1>2. PICK g \in [SUBSET (1..n) -> Seq(S)] :
            \A s \in SUBSET (1..n) :
                g[s] = IF s = {} THEN <<>> ELSE F[<<Max(s), g[s \ {Max(s)}]>>]
    <2>1. <<>> \in Seq(S)
        BY EmptySeq
    <2>2. n \in Nat
        OBVIOUS
    <2>. DEFINE T == Seq(S)
    <2>3. F \in [(1..n) \X T -> T] /\ <<>> \in T
        BY <1>1, <2>1
    <2>4. \E g \in [SUBSET (1..n) -> T] : IsFold(g, n, <<>>, F)
        <3>. HIDE DEF F, n, T
        <3>. QED BY <2>2, <2>3, FoldExists
    <2>. QED BY <2>4 DEF IsFold
<1>. DEFINE h == [s \in SUBSET P |-> g[s]]
<1>3. ASSUME NEW s \in SUBSET P
      PROVE  h[s] = Step(h, s)
    <2>1. CASE s = {}
        BY <1>2, <2>1
    <2>2. CASE s # {}
        <3>1. Max(s) \in s
            BY <2>2, MaxProperties
        <3>2. s \in SUBSET (1..n) /\ s \ {Max(s)} \in SUBSET (1..n) /\ s \ {Max(s)} \in SUBSET P
            OBVIOUS
        <3>3. g[s] = F[<<Max(s), g[s \ {Max(s)}]>>]
            BY <1>2, <2>2, <3>2
        <3>4. g[s \ {Max(s)}] \in Seq(S)
            BY <1>2, <3>2
        <3>5. F[<<Max(s), g[s \ {Max(s)}]>>] = Append(g[s \ {Max(s)}], list[Max(s)])
            BY <3>1, <3>4 DEF Taking
        <3>. QED BY <2>2, <3>2, <3>3, <3>5
    <2>. QED BY <2>1, <2>2
<1>4. h = [s \in SUBSET P |-> Step(h, s)]
    <2>1. h = [s \in SUBSET P |-> h[s]]
        OBVIOUS
    <2>. HIDE DEF h, Step
    <2>. QED BY <1>3, <2>1
<1>. DEFINE f == CHOOSE f : f = [s \in SUBSET P |-> Step(f, s)]
<1>5. f = [s \in SUBSET P |-> Step(f, s)]
    <2>. HIDE DEF h, Step
    <2>. QED BY <1>4
<1>6. Select(list, P) = f[P]
    BY DEF Select, MapThenFoldSet
<1>7. \A s \in SUBSET P : f[s] = Step(f, s)
    <2>. HIDE DEF f, Step
    <2>. QED BY <1>5
<1>. HIDE DEF f
<1>. QED BY <1>6, <1>7

\* The first m elements of a list are those of another.
Prefixed(out, list, m) == m <= Len(out) /\ \A i \in 1..m : out[i] = list[i]

\* Select yields elements of the list, and as long as it leaves nothing out
\* they stay where they are.
LEMMA SelectProperties ==
    ASSUME NEW list, Len(list) \in Nat, NEW P, P \subseteq 1..Len(list),
           NEW S, \A i \in P : list[i] \in S
    PROVE  /\ Select(list, P) \in Seq(S)
           /\ \A m \in 0..Len(list) :
                1..m \subseteq P => Prefixed(Select(list, P), list, m)
<1>. DEFINE n == Len(list)
<1>1. PICK g : /\ \A s \in SUBSET P :
                        g[s] = IF s = {} THEN <<>>
                               ELSE Append(g[s \ {Max(s)}], list[Max(s)])
               /\ Select(list, P) = g[P]
    BY SelectUnfolds
<1>. DEFINE Good(s, k) ==
                /\ g[s] \in Seq(S) /\ Len(g[s]) <= k
                /\ \A m \in 0..k : 1..m \subseteq s =>
                    m <= Len(g[s]) /\ \A i \in 1..m : g[s][i] = list[i]
            G == {k \in 0..n : \A s \in SUBSET P : s \subseteq 1..k => Good(s, k)}
<1>2. 0 \in G
    <2>. SUFFICES ASSUME NEW s \in SUBSET P, s \subseteq 1..0 PROVE Good(s, 0)
        OBVIOUS
    <2>1. s = {}
        OBVIOUS
    <2>2. g[s] = <<>> /\ g[s] \in Seq(S) /\ Len(g[s]) = 0
        BY <1>1, <2>1, EmptySeq
    <2>. QED BY <2>2
<1>3. ASSUME NEW k \in 0..n, k \in G, k < n, NEW s \in SUBSET P, s \subseteq 1..(k + 1)
      PROVE  Good(s, k + 1)
    <2>1. k \in Nat /\ k + 1 \in Nat
        OBVIOUS
    <2>2. CASE k + 1 \notin s
        <3>1. s \subseteq 1..k
            BY <1>3, <2>1, <2>2
        <3>2. Good(s, k)
            BY <1>3, <3>1
        <3>3. Len(g[s]) \in Nat
            BY <3>2, LenProperties
        <3>4. ASSUME NEW m \in 0..(k + 1), 1..m \subseteq s
              PROVE  m \in 0..k
            BY <2>1, <2>2, <3>4
        <3>. QED BY <2>1, <3>2, <3>3, <3>4
    <2>3. CASE k + 1 \in s
        <3>. DEFINE t == s \ {k + 1}
        <3>1. Max(s) = k + 1
            <4>1. Max(s) \in s /\ k + 1 <= Max(s)
                BY <1>3, <2>1, <2>3, MaxProperties
            <4>2. Max(s) \in 1..(k + 1)
                BY <1>3, <4>1
            <4>. QED BY <2>1, <4>1, <4>2
        <3>2. g[s] = Append(g[t], list[k + 1]) /\ list[k + 1] \in S
            BY <1>1, <2>3, <3>1
        <3>3. Good(t, k)
            <4>1. t \in SUBSET P /\ t \subseteq 1..k
                BY <1>3, <2>1
            <4>. QED BY <1>3, <4>1
        <3>4. Len(g[t]) \in Nat /\ g[t] \in Seq(S) /\ Len(g[t]) <= k
            BY <3>3, LenProperties
        <3>5. /\ g[s] \in Seq(S) /\ Len(g[s]) = Len(g[t]) + 1
              /\ \A i \in 1..Len(g[t]) : g[s][i] = g[t][i]
              /\ g[s][Len(g[t]) + 1] = list[k + 1]
            BY <3>2, <3>4, AppendProperties
        <3>6. ASSUME NEW m \in 0..(k + 1), 1..m \subseteq s
              PROVE  m <= Len(g[s]) /\ \A i \in 1..m : g[s][i] = list[i]
            <4>1. CASE m \in 0..k
                <5>1. 1..m \subseteq t
                    BY <2>1, <3>6, <4>1
                <5>2. m <= Len(g[t]) /\ \A i \in 1..m : g[t][i] = list[i]
                    BY <3>3, <4>1, <5>1
                <5>. HIDE DEF t
                <5>. QED BY <3>4, <3>5, <4>1, <5>2
            <4>2. CASE m = k + 1
                <5>1. 1..k \subseteq t /\ k \in 0..k
                    BY <2>1, <3>6, <4>2
                <5>2. k <= Len(g[t]) /\ \A i \in 1..k : g[t][i] = list[i]
                    BY <3>3, <5>1
                <5>3. Len(g[t]) = k
                    BY <2>1, <3>4, <5>2
                <5>. HIDE DEF t
                <5>. QED BY <2>1, <3>5, <4>2, <5>2, <5>3
            <4>. QED BY <2>1, <4>1, <4>2
        <3>7. Len(g[s]) <= k + 1
            BY <2>1, <3>4, <3>5
        <3>. QED BY <3>5, <3>6, <3>7
    <2>. QED BY <2>2, <2>3
<1>4. ASSUME NEW k \in 0..n, k \in G, k < n
      PROVE  k + 1 \in G
    <2>1. k + 1 \in 0..n
        BY <1>4
    <2>. HIDE DEF Good
    <2>. QED BY <1>3, <1>4, <2>1
<1>5. n \in G
    <2>1. n \in Nat /\ 0 \in G /\ \A k \in 0..n : k \in G /\ k < n => k + 1 \in G
        BY <1>2, <1>4
    <2>. HIDE DEF G, n
    <2>. QED BY <2>1, InductionTo
<1>6. Good(P, n)
    <2>. HIDE DEF Good
    <2>. QED BY <1>5
<1>. QED BY <1>1, <1>6 DEF Prefixed

-----------------------------------------------------------------------------
(* Merged.                                                                 *)

\* What _merge_entities does with an entity found in the segments.
Add(list, e) ==
    IF Key[e.name] \in Keys(list) \cup {NoKey} THEN list ELSE Append(list, e)

Adding(heuristic, S) ==
    [x \in (1..Len(heuristic)) \X Seq(S) |-> Add(x[2], heuristic[x[1]])]

\* Merged adds one entity after the other.
LEMMA MergedUnfolds ==
    ASSUME NEW S, NEW groq \in Seq(S), NEW heuristic \in Seq(S)
    PROVE  \E a \in [0..Len(heuristic) -> Seq(S)] :
                /\ a[0] = groq
                /\ \A k \in 1..Len(heuristic) : a[k] = Add(a[k - 1], heuristic[k])
                /\ Merged(groq, heuristic) = a[Len(heuristic)]
<1>. DEFINE n == Len(heuristic)
            F == Adding(heuristic, S)
            Step(g, s) == IF s = {} THEN groq
                          ELSE Add(g[s \ {Max(s)}], heuristic[Max(s)])
<1>1. n \in Nat /\ DOMAIN heuristic = 1..n /\ \A i \in 1..n : heuristic[i] \in S
    BY LenProperties, ElementOfSeq
<1>2. ASSUME NEW list \in Seq(S), NEW e \in S
      PROVE  Add(list, e) \in Seq(S)
    BY AppendProperties DEF Add
<1>3. F \in [(1..n) \X Seq(S) -> Seq(S)]
    BY <1>1, <1>2 DEF Adding
<1>4. PICK g \in [SUBSET (1..n) -> Seq(S)] :
            \A s \in SUBSET (1..n) :
                g[s] = IF s = {} THEN groq ELSE F[<<Max(s), g[s \ {Max(s)}]>>]
    <2>. DEFINE T == Seq(S)
    <2>1. groq \in T /\ F \in [(1..n) \X T -> T]
        BY <1>3
    <2>2. \E g \in [SUBSET (1..n) -> T] : IsFold(g, n, groq, F)
        <3>. HIDE DEF F, n, T
        <3>. QED BY <1>1, <2>1, FoldExists
    <2>. QED BY <2>2 DEF IsFold
<1>5. ASSUME NEW s \in SUBSET (1..n)
      PROVE  g[s] = Step(g, s)
    <2>1. CASE s = {}
        BY <1>4, <2>1
    <2>2. CASE s # {}
        <3>1. Max(s) \in 1..n /\ s \ {Max(s)} \in SUBSET (1..n)
            BY <1>1, <2>2, MaxProperties
        <3>2. g[s] = F[<<Max(s), g[s \ {Max(s)}]>>] /\ g[s \ {Max(s)}] \in Seq(S)
            BY <1>4, <2>2, <3>1
        <3>. QED BY <2>2, <3>1, <3>2 DEF Adding
    <2>. QED BY <2>1, <2>2
<1>6. g = [s \in SUBSET (1..n) |-> Step(g, s)]
    <2>1. g = [s \in SUBSET (1..n) |-> g[s]]
        BY <1>4
    <2>. HIDE DEF Step, n
    <2>. QED BY <1>5, <2>1
<1>. DEFINE f == CHOOSE f : f = [s \in SUBSET (1..n) |-> Step(f, s)]
<1>7. f = [s \in SUBSET (1..n) |-> Step(f, s)]
    <2>. HIDE DEF Step, n
    <2>. QED BY <1>6
<1>8. Merged(groq, heuristic) = f[DOMAIN heuristic]
    <2>1. Merged(groq, heuristic) =
            (CHOOSE h : h = [s \in SUBSET (DOMAIN heuristic) |-> Step(h, s)])[DOMAIN heuristic]
        BY DEF Merged, FoldLeft, MapThenFoldSet, Add
    <2>. QED BY <1>1, <2>1
<1>9. \A s \in SUBSET (1..n) : f[s] = Step(f, s)
    <2>. HIDE DEF f, Step, n
    <2>. QED BY <1>7
<1>. DEFINE a == [k \in 0..n |-> f[1..k]]
<1>. HIDE DEF f
<1>10. a[0] = groq
    <2>1. 0 \in 0..n /\ 1..0 = {} /\ {} \in SUBSET (1..n)
        BY <1>1
    <2>. QED BY <1>9, <2>1
<1>11. ASSUME NEW k \in 1..n
       PROVE  a[k] = Add(a[k - 1], heuristic[k])
    <2>1. k \in Nat /\ k - 1 \in 0..n /\ k \in 0..n
        BY <1>1
    <2>2. 1..k # {} /\ 1..k \in SUBSET (1..n)
        BY <1>1, <2>1
    <2>3. Max(1..k) = k
        <3>. DEFINE s == 1..k
        <3>1. s \subseteq 1..k /\ k \in s /\ s # {}
            BY <2>1, <2>2
        <3>. HIDE DEF s
        <3>2. Max(s) \in s /\ k <= Max(s)
            BY <2>1, <3>1, MaxProperties
        <3>3. Max(s) \in 1..k
            BY <3>1, <3>2
        <3>4. Max(s) = k
            BY <2>1, <3>2, <3>3
        <3>. QED BY <3>4 DEF s
    <2>4. (1..k) \ {k} = 1..(k - 1)
        BY <2>1
    <2>5. f[1..k] = Add(f[(1..k) \ {Max(1..k)}], heuristic[Max(1..k)])
        BY <1>9, <2>2
    <2>. QED BY <2>1, <2>3, <2>4, <2>5
<1>12. a[n] = Merged(groq, heuristic)
    BY <1>1, <1>8
<1>13. a \in [0..n -> Seq(S)]
    <2>. DEFINE G == {k \in 0..n : a[k] \in Seq(S)}
    <2>1. 0 \in G
        BY <1>1, <1>10
    <2>2. ASSUME NEW k \in 0..n, k \in G, k < n
          PROVE  k + 1 \in G
        <3>1. k + 1 \in 1..n /\ k + 1 \in 0..n /\ (k + 1) - 1 = k
            BY <1>1, <2>2
        <3>2. a[k + 1] = Add(a[k], heuristic[k + 1])
            BY <1>11, <3>1
        <3>. HIDE DEF a
        <3>. QED BY <1>1, <1>2, <2>2, <3>1, <3>2
    <2>. SUFFICES ASSUME NEW k \in 0..n PROVE a[k] \in Seq(S)
        OBVIOUS
    <2>3. k \in Nat /\ \A l \in 0..k : l \in G /\ l < k => l + 1 \in G
        BY <1>1, <2>2
    <2>4. k \in G
        <3>. HIDE DEF G
        <3>. QED BY <2>1, <2>3, InductionTo
    <2>. QED BY <2>4
<1>14. \A k \in 1..n : a[k] = Add(a[k - 1], heuristic[k])
    BY <1>11
<1>. HIDE DEF a
<1>. QED BY <1>10, <1>12, <1>13, <1>14

\* What has become of the first k entities found: all that Groq has named is
\* still in front, each of the k has a key in the list unless it has none,
\* and what has been added has a key no entity before it has.
Gathered(list, groq, heuristic, k, S) ==
    /\ list \in Seq(S)
    /\ Prefixed(list, groq, Len(groq))
    /\ \A i \in 1..k : Key[heuristic[i].name] \in Keys(list) \cup {NoKey}
    /\ \A j \in (Len(groq) + 1)..Len(list) :
        /\ Key[list[j].name] # NoKey
        /\ \A i \in 1..(j - 1) : Key[list[i].name] # Key[list[j].name]

LEMMA AddGathers ==
    ASSUME NEW S, NEW groq \in Seq(S), NEW heuristic \in Seq(S),
           NEW k \in Nat, k + 1 \in 1..Len(heuristic),
           NEW list, Gathered(list, groq, heuristic, k, S)
    PROVE  Gathered(Add(list, heuristic[k + 1]), groq, heuristic, k + 1, S)
<1>. DEFINE e == heuristic[k + 1]
            key == Key[e.name]
<1>1. /\ Len(groq) \in Nat /\ list \in Seq(S) /\ Len(list) \in Nat
      /\ DOMAIN list = 1..Len(list) /\ Len(groq) <= Len(list)
    BY LenProperties DEF Gathered, Prefixed
<1>2. e \in S
    BY ElementOfSeq
<1>3. \A i \in 1..(k + 1) : i \in 1..k \/ i = k + 1
    OBVIOUS
<1>4. CASE key \in Keys(list) \cup {NoKey}
    <2>1. Add(list, e) = list
        BY <1>4 DEF Add
    <2>. QED BY <1>3, <1>4, <2>1 DEF Gathered
<1>5. CASE key \notin Keys(list) \cup {NoKey}
    <2>. DEFINE new == Append(list, e)
    <2>1. Add(list, e) = new
        BY <1>5 DEF Add
    <2>2. /\ new \in Seq(S) /\ Len(new) = Len(list) + 1
          /\ \A i \in 1..Len(list) : new[i] = list[i]
          /\ new[Len(list) + 1] = e
        BY <1>1, <1>2, AppendProperties
    <2>3. DOMAIN new = 1..(Len(list) + 1)
        BY <2>2, LenProperties
    <2>. HIDE DEF new
    <2>4. Keys(list) \subseteq Keys(new)
        <3>1. \A i \in DOMAIN list : i \in DOMAIN new /\ new[i] = list[i]
            BY <1>1, <2>2, <2>3
        <3>. QED BY <3>1 DEF Keys
    <2>5. key \in Keys(new)
        <3>1. Len(list) + 1 \in DOMAIN new
            BY <1>1, <2>3
        <3>. QED BY <1>5, <2>2, <3>1 DEF Keys
    <2>6. \A i \in 1..(k + 1) : Key[heuristic[i].name] \in Keys(new) \cup {NoKey}
        BY <1>3, <2>4, <2>5 DEF Gathered
    <2>7. Prefixed(new, groq, Len(groq))
        BY <1>1, <2>2 DEF Gathered, Prefixed
    <2>8. ASSUME NEW j \in (Len(groq) + 1)..Len(new)
          PROVE  /\ Key[new[j].name] # NoKey
                 /\ \A i \in 1..(j - 1) : Key[new[i].name] # Key[new[j].name]
        <3>1. CASE j <= Len(list)
            <4>1. j \in (Len(groq) + 1)..Len(list) /\ new[j] = list[j]
                BY <1>1, <2>2, <2>8, <3>1
            <4>2. \A i \in 1..(j - 1) : new[i] = list[i]
                BY <1>1, <2>2, <4>1
            <4>. QED BY <4>1, <4>2 DEF Gathered
        <3>2. CASE j = Len(list) + 1
            <4>1. new[j] = e
                BY <2>2, <3>2
            <4>2. \A i \in 1..(j - 1) : i \in DOMAIN list /\ new[i] = list[i]
                BY <1>1, <2>2, <3>2
            <4>. QED BY <1>5, <4>1, <4>2 DEF Keys
        <3>. QED BY <1>1, <2>2, <2>8, <3>1, <3>2
    <2>. QED BY <2>1, <2>2, <2>6, <2>7, <2>8 DEF Gathered
<1>. QED BY <1>4, <1>5

\* _merge_entities, for lists of any length.
LEMMA MergedProperties ==
    ASSUME NEW S, NEW groq \in Seq(S), NEW heuristic \in Seq(S)
    PROVE  Gathered(Merged(groq, heuristic), groq, heuristic, Len(heuristic), S)
<1>. DEFINE n == Len(heuristic)
<1>1. PICK a \in [0..n -> Seq(S)] :
            /\ a[0] = groq
            /\ \A k \in 1..n : a[k] = Add(a[k - 1], heuristic[k])
            /\ Merged(groq, heuristic) = a[n]
    BY MergedUnfolds
<1>2. n \in Nat /\ Len(groq) \in Nat
    BY LenProperties
<1>. DEFINE G == {k \in 0..n : Gathered(a[k], groq, heuristic, k, S)}
<1>3. 0 \in G
    BY <1>1, <1>2 DEF Gathered, Prefixed
<1>4. ASSUME NEW k \in 0..n, k \in G, k < n
      PROVE  k + 1 \in G
    <2>1. k \in Nat /\ k + 1 \in 1..n /\ k + 1 \in 0..n /\ (k + 1) - 1 = k
        BY <1>2, <1>4
    <2>2. a[k + 1] = Add(a[k], heuristic[k + 1])
        BY <1>1, <2>1
    <2>3. Gathered(a[k + 1], groq, heuristic, k + 1, S)
        BY <1>4, <2>1, <2>2, AddGathers
    <2>. QED BY <2>1, <2>3
<1>5. n \in G
    <2>1. \A k \in 0..n : k \in G /\ k < n => k + 1 \in G
        BY <1>4
    <2>. HIDE DEF G, n
    <2>. QED BY <1>2, <1>3, <2>1, InductionTo
<1>. QED BY <1>1, <1>5

-----------------------------------------------------------------------------
(* The other lists of Stage C.                                             *)

\* The entities the contract of an ExtractedEntity accepts.
Sound == {e \in Entity : Readable(e)}

LEMMA SoundIsEntity ==
    ASSUME NEW list \in Seq(Sound)
    PROVE  list \in Seq(Entity)
BY SeqMonotonic DEF Sound

LEMMA MakesSound ==
    ASSUME NEW name \in Name, NEW type \in EntityType, NEW confidence \in 0..1000
    PROVE  [name |-> name, type |-> type, confidence |-> confidence] \in Sound
<1>. DEFINE r == [name |-> name, type |-> type, confidence |-> confidence]
<1>1. type \in EntityType \cup {"gizmo"}
    OBVIOUS
<1>2. r \in Entity
    BY <1>1 DEF Entity
<1>3. Readable(r)
    BY DEF Readable, Confidence
<1>. QED BY <1>2, <1>3 DEF Sound

\* Candidates: the ranked items are sound, sure and in front.
LEMMA CandidatesProperties ==
    ASSUME NEW e \in Evidence
    PROVE  /\ Candidates(e) \in Seq(Sound)
           /\ Len(e.ranked) \in 0..Len(Candidates(e))
           /\ \A i \in 1..Len(e.ranked) :
                /\ Candidates(e)[i].name = e.ranked[i]
                /\ Candidates(e)[i].confidence = 1000
<1>1. e.ranked \in Seq(Name) /\ e.phrases \in Seq(Phrase)
    BY DEF Evidence
<1>2. /\ Len(e.ranked) \in Nat /\ DOMAIN e.ranked = 1..Len(e.ranked)
      /\ Len(e.phrases) \in Nat /\ DOMAIN e.phrases = 1..Len(e.phrases)
    BY <1>1, LenProperties
<1>3. ASSUME NEW i \in DOMAIN e.ranked
      PROVE  [name |-> e.ranked[i], type |-> "unknown", confidence |-> 1000] \in Sound
    <2>1. e.ranked[i] \in Name
        BY <1>1, <1>2, ElementOfSeq
    <2>2. "unknown" \in EntityType
        BY DEF EntityType
    <2>3. 1000 \in 0..1000
        OBVIOUS
    <2>4. \A c \in 0..1000 :
            [name |-> e.ranked[i], type |-> "unknown", confidence |-> c] \in Sound
        BY <2>1, <2>2, MakesSound
    <2>. QED BY Zenon, <2>3, <2>4
<1>4. ASSUME NEW i \in DOMAIN e.phrases
      PROVE  [name |-> e.phrases[i].name, type |-> Inferred[e.phrases[i].name],
              confidence |-> 200 * e.phrases[i].times] \in Sound
    <2>1. e.phrases[i] \in Phrase
        BY <1>1, <1>2, ElementOfSeq
    <2>2. e.phrases[i].name \in Name /\ e.phrases[i].times \in 1..5
        BY <2>1 DEF Phrase
    <2>3. Inferred[e.phrases[i].name] \in EntityType
        BY <2>2, NameAssumption DEF EntityType
    <2>4. 200 * e.phrases[i].times \in 0..1000
        BY <2>2
    <2>. QED BY <2>2, <2>3, <2>4, MakesSound
<1>5. /\ Items(e) \in [1..Len(e.ranked) -> Sound]
      /\ Phrases(e) \in [1..Len(e.phrases) -> Sound]
    BY <1>2, <1>3, <1>4 DEF Items, Phrases
<1>6. Items(e) \in Seq(Sound) /\ Phrases(e) \in Seq(Sound)
    BY <1>2, <1>5, SeqDef
<1>7. DOMAIN Items(e) = 1..Len(e.ranked)
    BY <1>5
<1>8. Len(Items(e)) = Len(e.ranked)
    BY <1>2, <1>6, <1>7, LenProperties
<1>9. /\ Candidates(e) \in Seq(Sound)
      /\ Len(Candidates(e)) = Len(Items(e)) + Len(Phrases(e))
      /\ \A i \in 1..(Len(Items(e)) + Len(Phrases(e))) :
            Candidates(e)[i] = IF i <= Len(Items(e)) THEN Items(e)[i]
                               ELSE Phrases(e)[i - Len(Items(e))]
    BY <1>6, ConcatProperties DEF Candidates
<1>10. Len(Phrases(e)) \in Nat
    BY <1>6, LenProperties
<1>11. \A i \in 1..Len(e.ranked) : Candidates(e)[i] = Items(e)[i]
    BY <1>2, <1>8, <1>9, <1>10
<1>12. \A i \in 1..Len(e.ranked) :
            Items(e)[i].name = e.ranked[i] /\ Items(e)[i].confidence = 1000
    BY <1>2 DEF Items
<1>13. Len(e.ranked) \in 0..Len(Candidates(e))
    BY <1>2, <1>8, <1>9, <1>10
<1>. QED BY <1>9, <1>11, <1>12, <1>13

LEMMA PrefixedLonger ==
    ASSUME NEW S, NEW list, NEW m \in Nat, NEW s \in Seq(S), NEW t \in Seq(S),
           Prefixed(s, list, m)
    PROVE  s \o t \in Seq(S) /\ Prefixed(s \o t, list, m)
<1>1. Len(s) \in Nat /\ Len(t) \in Nat
    BY LenProperties
<1>2. /\ s \o t \in Seq(S) /\ Len(s \o t) = Len(s) + Len(t)
      /\ \A i \in 1..(Len(s) + Len(t)) :
            (s \o t)[i] = IF i <= Len(s) THEN s[i] ELSE t[i - Len(s)]
    BY ConcatProperties
<1>3. m <= Len(s) + Len(t) /\ \A i \in 1..m : i \in 1..(Len(s) + Len(t)) /\ i <= Len(s)
    BY <1>1 DEF Prefixed
<1>. QED BY <1>2, <1>3 DEF Prefixed

\* The sort is stable: what is sure and in front stays where it is.
LEMMA SortedProperties ==
    ASSUME NEW S, NEW list \in Seq(S), NEW m \in 0..Len(list),
           \A i \in 1..m : list[i].confidence = 1000
    PROVE  Sorted(list) \in Seq(S) /\ Prefixed(Sorted(list), list, m)
<1>. DEFINE Of(c) == Select(list, {i \in DOMAIN list : list[i].confidence = c})
<1>1. Len(list) \in Nat /\ DOMAIN list = 1..Len(list) /\ \A i \in 1..Len(list) : list[i] \in S
    BY LenProperties, ElementOfSeq
<1>2. ASSUME NEW c
      PROVE  /\ Of(c) \in Seq(S)
             /\ \A k \in 0..Len(list) :
                    1..k \subseteq {i \in DOMAIN list : list[i].confidence = c} =>
                        Prefixed(Of(c), list, k)
    <2>. DEFINE P == {i \in DOMAIN list : list[i].confidence = c}
    <2>1. P \subseteq 1..Len(list) /\ \A i \in P : list[i] \in S
        BY <1>1
    <2>. HIDE DEF P
    <2>2. /\ Select(list, P) \in Seq(S)
          /\ \A k \in 0..Len(list) : 1..k \subseteq P => Prefixed(Select(list, P), list, k)
        BY <1>1, <2>1, SelectProperties
    <2>. QED BY <2>2 DEF P
<1>3. 1..m \subseteq {i \in DOMAIN list : list[i].confidence = 1000}
    BY <1>1
<1>4. Prefixed(Of(1000), list, m)
    <2>. DEFINE Ahead(c) == \A k \in 0..Len(list) :
            1..k \subseteq {i \in DOMAIN list : list[i].confidence = c} =>
                Prefixed(Of(c), list, k)
    <2>1. \A c : Ahead(c)
        BY Zenon, <1>2
    <2>2. Ahead(1000)
        <3>. HIDE DEF Ahead
        <3>. QED BY Zenon, <2>1
    <2>. HIDE DEF Of
    <2>. QED BY Zenon, <1>3, <2>2
<1>5. \A c : Of(c) \in Seq(S)
    BY <1>2
<1>6. Sorted(list) = Of(1000) \o Of(800) \o Of(600) \o Of(400) \o Of(200)
    BY DEF Sorted
<1>. DEFINE s1 == Of(1000)
            s2 == Of(800)
            s3 == Of(600)
            s4 == Of(400)
            s5 == Of(200)
<1>7. /\ s1 \in Seq(S) /\ s2 \in Seq(S) /\ s3 \in Seq(S) /\ s4 \in Seq(S) /\ s5 \in Seq(S)
      /\ Prefixed(s1, list, m)
      /\ Sorted(list) = s1 \o s2 \o s3 \o s4 \o s5
    <2>. HIDE DEF Of
    <2>. QED BY <1>4, <1>5, <1>6
<1>. HIDE DEF s1, s2, s3, s4, s5
<1>8. s1 \o s2 \in Seq(S) /\ Prefixed(s1 \o s2, list, m)
    BY <1>7, PrefixedLonger
<1>9. (s1 \o s2) \o s3 \in Seq(S) /\ Prefixed((s1 \o s2) \o s3, list, m)
    <2>. DEFINE t == s1 \o s2
    <2>1. t \in Seq(S) /\ Prefixed(t, list, m)
        BY <1>8
    <2>. HIDE DEF t
    <2>2. t \o s3 \in Seq(S) /\ Prefixed(t \o s3, list, m)
        BY <1>7, <2>1, PrefixedLonger
    <2>. QED BY <2>2 DEF t
<1>10. ((s1 \o s2) \o s3) \o s4 \in Seq(S) /\ Prefixed(((s1 \o s2) \o s3) \o s4, list, m)
    <2>. DEFINE t == (s1 \o s2) \o s3
    <2>1. t \in Seq(S) /\ Prefixed(t, list, m)
        BY <1>9
    <2>. HIDE DEF t
    <2>2. t \o s4 \in Seq(S) /\ Prefixed(t \o s4, list, m)
        BY <1>7, <2>1, PrefixedLonger
    <2>. QED BY <2>2 DEF t
<1>. DEFINE t == ((s1 \o s2) \o s3) \o s4
<1>11. t \in Seq(S) /\ Prefixed(t, list, m) /\ Sorted(list) = t \o s5
    BY <1>7, <1>10
<1>. HIDE DEF t
<1>12. t \o s5 \in Seq(S) /\ Prefixed(t \o s5, list, m)
    BY <1>7, <1>11, PrefixedLonger
<1>. QED BY <1>11, <1>12

LEMMA ClampedBounds ==
    ASSUME NEW x \in Int
    PROVE  Clamped(x) \in 0..1000
BY DEF Clamped

\* What Groq says is made sound.
LEMMA ParsedProperties ==
    ASSUME NEW list \in Seq(Reply)
    PROVE  Parsed(list) \in Seq(Sound)
<1>. DEFINE P == {i \in DOMAIN list : list[i].name # None}
            R == {e \in Reply : e.name # None}
            named_ == Select(list, P)
            Sane(e) == [name |-> e.name, type |-> ValidType(e.type),
                        confidence |-> IF e.confidence = None THEN 700
                                       ELSE Clamped(e.confidence)]
<1>1. Len(list) \in Nat /\ P \subseteq 1..Len(list) /\ \A i \in P : list[i] \in R
    BY LenProperties, ElementOfSeq
<1>2. named_ \in Seq(R)
    <2>. HIDE DEF P, R
    <2>. QED BY <1>1, SelectProperties
<1>3. Len(named_) \in Nat /\ DOMAIN named_ = 1..Len(named_) /\ \A i \in 1..Len(named_) : named_[i] \in R
    <2>. HIDE DEF named_, R
    <2>. QED BY <1>2, LenProperties, ElementOfSeq
<1>4. ASSUME NEW e \in R
      PROVE  Sane(e) \in Sound
    <2>1. e.name \in Name /\ e.confidence \in Int \cup {None}
        BY DEF Reply
    <2>2. ValidType(e.type) \in EntityType
        BY DEF ValidType, EntityType
    <2>. DEFINE c == IF e.confidence = None THEN 700 ELSE Clamped(e.confidence)
    <2>3. c \in 0..1000
        <3>1. CASE e.confidence = None
            <4>1. c = 700
                BY <3>1
            <4>. HIDE DEF c
            <4>. QED BY <4>1
        <3>2. CASE e.confidence # None
            <4>1. e.confidence \in Int /\ c = Clamped(e.confidence)
                BY <2>1, <3>2
            <4>. HIDE DEF c
            <4>. QED BY <4>1, ClampedBounds
        <3>. QED BY <3>1, <3>2
    <2>. HIDE DEF c
    <2>4. [name |-> e.name, type |-> ValidType(e.type), confidence |-> c] \in Sound
        BY <2>1, <2>2, <2>3, MakesSound
    <2>. QED BY <2>4 DEF c
<1>5. Parsed(list) = [i \in 1..Len(named_) |-> Sane(named_[i])]
    BY <1>3 DEF Parsed
<1>. HIDE DEF named_, Sane, R
<1>6. Parsed(list) \in [1..Len(named_) -> Sound]
    BY <1>3, <1>4, <1>5
<1>. QED BY <1>3, <1>6, SeqDef

-----------------------------------------------------------------------------
(* The inductive invariant.                                                *)

Cut(all) == IF Len(all) <= MaxFound THEN all ELSE SubSeq(all, 1, MaxFound)

\* What Find leaves: sound entities, and phrases only if all ranked items are.
LEMMA CutProperties ==
    ASSUME NEW ranked \in Seq(Name), NEW all \in Seq(Sound),
           Len(ranked) <= Len(all),
           \A i \in 1..Len(ranked) : all[i].name = ranked[i]
    PROVE  /\ Cut(all) \in Seq(Sound)
           /\ \/ Range(ranked) \subseteq NamesOf(Cut(all))
              \/ NamesOf(Cut(all)) \subseteq Range(ranked)
<1>1. /\ Len(ranked) \in Nat /\ DOMAIN ranked = 1..Len(ranked)
      /\ Len(all) \in Nat /\ DOMAIN all = 1..Len(all)
      /\ \A i \in 1..Len(all) : all[i] \in Sound
    BY LenProperties, ElementOfSeq
<1>2. MaxFound \in Nat /\ MaxFound >= 1
    BY NameAssumption
<1>3. CASE Len(all) <= MaxFound
    <2>1. Cut(all) = all
        BY <1>3 DEF Cut
    <2>2. \A i \in 1..Len(ranked) : i \in DOMAIN all
        BY <1>1
    <2>. QED BY <1>1, <2>1, <2>2 DEF Range, NamesOf
<1>4. CASE MaxFound < Len(all)
    <2>. DEFINE cut == SubSeq(all, 1, MaxFound)
    <2>1. Cut(all) = cut
        BY <1>1, <1>2, <1>4 DEF Cut
    <2>2. \A i \in 1..MaxFound : all[i] \in Sound
        BY <1>1, <1>2, <1>4
    <2>3. /\ cut \in Seq(Sound)
          /\ Len(cut) = MaxFound
          /\ \A i \in 1..MaxFound : cut[i] = all[i]
        <3>1. /\ cut \in Seq(Sound)
              /\ Len(cut) = IF 1 <= MaxFound THEN MaxFound - 1 + 1 ELSE 0
              /\ \A i \in 1..(MaxFound - 1 + 1) : cut[i] = all[1 + i - 1]
            BY <1>2, <2>2, SubSeqProperties
        <3>2. MaxFound - 1 + 1 = MaxFound /\ \A i \in 1..MaxFound : 1 + i - 1 = i
            BY <1>2
        <3>. QED BY <1>2, <3>1, <3>2
    <2>4. DOMAIN cut = 1..MaxFound
        BY <2>3, LenProperties
    <2>. HIDE DEF cut
    <2>5. CASE Len(ranked) <= MaxFound
        <3>1. \A i \in 1..Len(ranked) : i \in DOMAIN cut /\ cut[i].name = ranked[i]
            BY <1>1, <1>2, <2>3, <2>4, <2>5
        <3>. QED BY <1>1, <2>1, <2>3, <3>1 DEF Range, NamesOf
    <2>6. CASE MaxFound <= Len(ranked)
        <3>1. \A i \in 1..MaxFound : i \in DOMAIN ranked /\ cut[i].name = ranked[i]
            BY <1>1, <1>2, <2>3, <2>6
        <3>. QED BY <1>1, <2>1, <2>3, <2>4, <3>1 DEF Range, NamesOf
    <2>. QED BY <1>1, <1>2, <2>5, <2>6
<1>. QED BY <1>1, <1>2, <1>3, <1>4

LEMMA FoundProperties ==
    ASSUME NEW e \in Evidence
    PROVE  /\ Cut(Sorted(Candidates(e))) \in Seq(Sound)
           /\ \/ Range(e.ranked) \subseteq NamesOf(Cut(Sorted(Candidates(e))))
              \/ NamesOf(Cut(Sorted(Candidates(e)))) \subseteq Range(e.ranked)
<1>. DEFINE list == Candidates(e)
            all == Sorted(list)
            m == Len(e.ranked)
<1>1. /\ e.ranked \in Seq(Name) /\ list \in Seq(Sound) /\ m \in 0..Len(list)
      /\ \A i \in 1..m : list[i].name = e.ranked[i] /\ list[i].confidence = 1000
    BY CandidatesProperties DEF Evidence
<1>. HIDE DEF list
<1>2. m \in Nat
    BY <1>1, LenProperties
<1>3. all \in Seq(Sound) /\ Prefixed(all, list, m)
    <2>. HIDE DEF m
    <2>. QED BY <1>1, SortedProperties
<1>4. m <= Len(all) /\ \A i \in 1..m : all[i].name = e.ranked[i]
    BY <1>1, <1>3 DEF Prefixed
<1>. HIDE DEF all
<1>5. /\ Cut(all) \in Seq(Sound)
      /\ \/ Range(e.ranked) \subseteq NamesOf(Cut(all))
         \/ NamesOf(Cut(all)) \subseteq Range(e.ranked)
    BY <1>1, <1>3, <1>4, CutProperties
<1>. QED BY <1>5 DEF all, list

\* The pipeline keeps what the next step reads: the segments until the
\* entities are stored, entities Stage D accepts once they are.
Kept ==
    /\ found \in Seq(Sound) /\ named \in Seq(Sound)
    /\ step \in {"find", "reason", "merge"} => evidence \in Evidence /\ entities = None
    /\ step \in {"load", "classify", "respond"} => entities \in Seq(Sound)
    /\ step = "respond" => taxonomy \in Taxonomy
    /\ step # "failed" => refused <= MaxRetries

ReasoningInv == TypeOK /\ Kept /\ RankedItemsFirst /\ NothingRejected

LEMMA InitInv == Init => ReasoningInv
<1>. SUFFICES ASSUME Init PROVE ReasoningInv
    OBVIOUS
<1>1. /\ step = "find" /\ evidence \in Evidences /\ found = <<>> /\ named = <<>>
      /\ asked = 0 /\ entities = None /\ subject = "unknown" /\ refused = 0
      /\ taxonomy = None /\ response = None
    BY DEF Init
<1>2. evidence \in Evidence /\ MaxRetries \in Nat
    BY <1>1, InputAssumption, NameAssumption
<1>3. <<>> \in Seq(Sound) /\ <<>> \in Seq(Entity)
    BY EmptySeq
<1>. QED BY <1>1, <1>2, <1>3 DEF ReasoningInv, TypeOK, Kept, RankedItemsFirst, NothingRejected

\* The answer of Groq or of the rules.
LEMMA ClassifiesInv ==
    ASSUME ReasoningInv, NEW p \in Category, NEW c \in Confidence, Classifies(p, c)
    PROVE  ReasoningInv'
<1>1. [parent |-> p, confidence |-> c] \in Taxonomy
    BY DEF Taxonomy
<1>. QED BY <1>1 DEF ReasoningInv, TypeOK, Kept, RankedItemsFirst, NothingRejected,
                     Classifies, local

\* The entities merged from two lists of sound ones.
LEMMA MergedSound ==
    ASSUME NEW groq \in Seq(Sound), NEW heuristic \in Seq(Sound)
    PROVE  Merged(groq, heuristic) \in Seq(Sound)
BY MergedProperties DEF Gathered

LEMMA RespondInv ==
    ASSUME ReasoningInv, Respond
    PROVE  ReasoningInv'
<1>. DEFINE items == [i \in DOMAIN entities |->
                        [name |-> entities[i].name,
                         type |-> ItemType(entities[i].type, taxonomy.parent)]]
<1>1. entities \in Seq(Sound) /\ taxonomy \in Taxonomy
    BY DEF ReasoningInv, Kept, Respond
<1>2. /\ Len(entities) \in Nat /\ DOMAIN entities = 1..Len(entities)
      /\ \A i \in 1..Len(entities) : entities[i] \in Sound
    BY <1>1, LenProperties, ElementOfSeq
<1>3. ASSUME NEW i \in DOMAIN entities
      PROVE  [name |-> entities[i].name,
              type |-> ItemType(entities[i].type, taxonomy.parent)] \in Item
    <2>. DEFINE type == ItemType(entities[i].type, taxonomy.parent)
    <2>1. entities[i].name \in Name /\ entities[i].type \in EntityType
        BY <1>2 DEF Sound, Entity, Readable
    <2>2. type \in EntityType \ {"unknown"}
        BY <2>1 DEF ItemType, EntityType
    <2>. HIDE DEF type
    <2>3. [name |-> entities[i].name, type |-> type] \in Item
        BY <2>1, <2>2 DEF Item
    <2>. QED BY <2>3 DEF type
<1>4. items \in [1..Len(entities) -> Item]
    BY <1>2, <1>3
<1>5. items \in Seq(Item)
    BY <1>2, <1>4, SeqDef
<1>. DEFINE made == [parent |-> taxonomy.parent, items |-> items]
<1>6. made \in Response
    <2>. HIDE DEF items
    <2>. QED BY <1>1, <1>5 DEF Taxonomy, Response
<1>7. response' = made
    BY DEF Respond
<1>. HIDE DEF made, items
<1>8. /\ step = "respond" /\ step' = "done"
      /\ UNCHANGED <<local, asked, entities, subject, refused, taxonomy>>
    BY DEF Respond
<1>. QED BY <1>6, <1>7, <1>8
        DEF ReasoningInv, TypeOK, Kept, RankedItemsFirst, NothingRejected, local

LEMMA StepInv == ReasoningInv /\ [Next]_vars => ReasoningInv'
<1>. SUFFICES ASSUME ReasoningInv, [Next]_vars PROVE ReasoningInv'
    OBVIOUS
<1>. USE DEF ReasoningInv, TypeOK, Kept, RankedItemsFirst, NothingRejected, local
<1>1. CASE Find
    <2>1. /\ step = "find" /\ step' = "reason" /\ found' = Cut(Sorted(Candidates(evidence)))
          /\ UNCHANGED <<evidence, named, asked, entities, subject, refused, taxonomy, response>>
        BY <1>1 DEF Find, Cut
    <2>2. evidence \in Evidence
        BY <2>1
    <2>3. /\ found' \in Seq(Sound)
          /\ \/ Range(evidence.ranked) \subseteq NamesOf(found')
             \/ NamesOf(found') \subseteq Range(evidence.ranked)
        BY <2>1, <2>2, FoundProperties
    <2>4. found' \in Seq(Entity)
        BY <2>3, SoundIsEntity
    <2>. QED BY <2>1, <2>2, <2>3, <2>4
<1>2. CASE Reasoned
    <2>1. PICK reply \in Replies :
            named' = Parsed(reply) /\ subject' \in {"unknown", "text", "unstorable"}
        BY <1>2 DEF Reasoned
    <2>2. reply \in Seq(Reply)
        BY InputAssumption
    <2>3. named' \in Seq(Sound)
        BY <2>1, <2>2, ParsedProperties
    <2>4. named' \in Seq(Entity)
        BY <2>3, SoundIsEntity
    <2>5. /\ step = "reason" /\ step' = "merge" /\ asked' = 0
          /\ UNCHANGED <<evidence, found, entities, refused, taxonomy, response>>
        BY <1>2 DEF Reasoned
    <2>. QED BY <2>1, <2>3, <2>4, <2>5
<1>3. CASE ReasonGivesUp
    BY <1>3 DEF ReasonGivesUp
<1>4. CASE AsksAgain
    BY <1>4 DEF AsksAgain
<1>5. CASE Merge
    <2>1. /\ step = "merge" /\ step' = "load"
          /\ entities' = IF named = <<>> THEN found ELSE Merged(named, found)
          /\ evidence' = None /\ found' = <<>> /\ named' = <<>>
          /\ UNCHANGED <<asked, subject, refused, taxonomy, response>>
        BY <1>5 DEF Merge
    <2>2. entities' \in Seq(Sound)
        <3>1. found \in Seq(Sound) /\ named \in Seq(Sound)
            OBVIOUS
        <3>2. Merged(named, found) \in Seq(Sound)
            BY <3>1, MergedSound
        <3>. QED BY <2>1, <3>1, <3>2
    <2>3. entities' \in Seq(Entity)
        BY <2>2, SoundIsEntity
    <2>4. <<>> \in Seq(Sound) /\ <<>> \in Seq(Entity)
        BY EmptySeq
    <2>. QED BY <2>1, <2>2, <2>3, <2>4
<1>6. CASE MergeRefused
    <2>1. /\ step = "merge" /\ step' = IF refused < MaxRetries THEN "find" ELSE "failed"
          /\ refused' = refused + 1 /\ found' = <<>> /\ named' = <<>>
          /\ subject' = "unknown"
          /\ UNCHANGED <<evidence, asked, entities, taxonomy, response>>
        BY <1>6 DEF MergeRefused
    <2>2. <<>> \in Seq(Sound) /\ <<>> \in Seq(Entity)
        BY EmptySeq
    <2>3. refused \in Nat /\ MaxRetries \in Nat /\ refused <= MaxRetries
        BY <2>1, NameAssumption
    <2>. QED BY <2>1, <2>2, <2>3
<1>7. CASE Load
    <2>1. \A i \in DOMAIN entities : Readable(entities[i])
        <3>1. entities \in Seq(Sound)
            BY <1>7 DEF Load
        <3>2. \A i \in DOMAIN entities : entities[i] \in Sound
            BY <3>1, LenProperties, ElementOfSeq
        <3>. QED BY <3>2 DEF Sound
    <2>2. /\ step = "load" /\ step' = "classify"
          /\ UNCHANGED <<local, asked, entities, subject, refused, taxonomy, response>>
        BY <1>7, <2>1 DEF Load
    <2>. QED BY <2>2
<1>8. CASE ClassifiedByGroq
    <2>1. PICK p \in Category \cup {"Gaming"}, c \in {-100, 700, 1200} :
            Classifies(Parent(p), Clamped(c))
        BY <1>8 DEF ClassifiedByGroq
    <2>2. Parent(p) \in Category
        BY DEF Parent, Category
    <2>3. Clamped(c) \in Confidence
        <3>1. c \in Int
            OBVIOUS
        <3>. QED BY <3>1, ClampedBounds DEF Confidence
    <2>. QED BY <2>1, <2>2, <2>3, ClassifiesInv
<1>9. CASE ClassifiedByRules
    <2>1. PICK p \in Category, c \in {650, 550, 385} : Classifies(p, c)
        BY <1>9 DEF ClassifiedByRules, Category
    <2>2. c \in Confidence
        BY DEF Confidence
    <2>. QED BY <2>1, <2>2, ClassifiesInv
<1>10. CASE Respond
    BY <1>10, RespondInv
<1>11. CASE UNCHANGED vars
    BY <1>11 DEF vars
<1>. QED BY <1>1, <1>2, <1>3, <1>4, <1>5, <1>6, <1>7, <1>8, <1>9, <1>10, <1>11 DEF Next

LEMMA InvHolds == Spec => []ReasoningInv
<1>. QED BY InitInv, StepInv, PTL DEF Spec

-----------------------------------------------------------------------------
(* The theorems.                                                           *)

\* Every variable keeps its type: entities, their confidence and the response
\* are what the tables and the contracts of Stages C and D accept, whatever
\* Groq answers.
THEOREM TypeCorrect == Spec => []TypeOK
<1>1. ReasoningInv => TypeOK
    BY DEF ReasoningInv
<1>. QED BY <1>1, InvHolds, PTL

\* A phrase is never kept at the price of a ranked item, however many of
\* either are found and whatever MAX_ENTITIES_RETURNED is.
THEOREM RankedItemsAreKept == Spec => []RankedItemsFirst
<1>1. ReasoningInv => RankedItemsFirst
    BY DEF ReasoningInv
<1>. QED BY <1>1, InvHolds, PTL

\* Stage D accepts what Stage C has stored, whatever Groq has answered.
THEOREM StoredIsReadable == Spec => []NothingRejected
<1>1. ReasoningInv => NothingRejected
    BY DEF ReasoningInv
<1>. QED BY <1>1, InvHolds, PTL

\* A list that keeps its first elements has its former self as a prefix.
LEMMA PrefixedIsPrefix ==
    ASSUME NEW S, NEW s \in Seq(S), NEW t \in Seq(S), Prefixed(t, s, Len(s))
    PROVE  IsPrefix(s, t)
<1>1. /\ Len(s) \in Nat /\ Len(t) \in Nat /\ Len(s) <= Len(t)
      /\ \A i \in 1..Len(s) : t[i] = s[i]
    BY LenProperties DEF Prefixed
<1>2. \A i \in 1..Len(s) : s[i] \in S /\ t[i] \in S
    BY <1>1, ElementOfSeq
<1>. DEFINE n == Len(s)
            a == SubSeq(s, 1, n)
            b == SubSeq(t, 1, n)
<1>3. /\ a \in Seq(S) /\ b \in Seq(S) /\ Len(a) = Len(b)
      /\ \A i \in 1..Len(a) : a[i] = b[i]
    <2>1. n \in Nat /\ \A i \in 1..n : s[i] \in S /\ t[i] \in S /\ t[i] = s[i]
        BY <1>1, <1>2
    <2>. HIDE DEF n
    <2>2. /\ a \in Seq(S) /\ Len(a) = IF 1 <= n THEN n - 1 + 1 ELSE 0
          /\ \A i \in 1..(n - 1 + 1) : a[i] = s[1 + i - 1]
        BY <2>1, SubSeqProperties
    <2>3. /\ b \in Seq(S) /\ Len(b) = IF 1 <= n THEN n - 1 + 1 ELSE 0
          /\ \A i \in 1..(n - 1 + 1) : b[i] = t[1 + i - 1]
        BY <2>1, SubSeqProperties
    <2>4. n - 1 + 1 = n /\ Len(a) = n /\ \A i \in 1..n : 1 + i - 1 = i
        BY <2>1, <2>2
    <2>. HIDE DEF a, b
    <2>. QED BY <2>1, <2>2, <2>3, <2>4
<1>. HIDE DEF a, b
<1>4. a = b
    BY <1>3, SeqEqual
<1>. QED BY <1>1, <1>4 DEF IsPrefix, a, b

\* What becomes of one entity found in the segments.
Survives(e, merged) ==
    IF Key[e.name] = NoKey THEN named = <<>> => e \in Range(merged)
                           ELSE Key[e.name] \in Keys(merged)

AllSurvive(merged) == \A i \in DOMAIN found : Survives(found[i], merged)

\* Merge keeps all of Groq's list and an entity under every key found, and
\* loses names without a key to an answer of Groq only.
LEMMA MergeKeepsNames ==
    ASSUME ReasoningInv, Merge
    PROVE  AllSurvive(entities') /\ IsPrefix(named, entities')
<1>1. /\ found \in Seq(Sound) /\ named \in Seq(Sound)
      /\ entities' = IF named = <<>> THEN found ELSE Merged(named, found)
    BY DEF ReasoningInv, Kept, Merge
<1>2. Len(found) \in Nat /\ DOMAIN found = 1..Len(found) /\ Len(named) \in Nat
    BY <1>1, LenProperties
<1>3. CASE named = <<>>
    <2>1. Len(named) = 0
        BY <1>1, <1>3, EmptySeq
    <2>2. Prefixed(found, named, Len(named))
        BY <1>2, <2>1 DEF Prefixed
    <2>3. ASSUME NEW i \in DOMAIN found
          PROVE  Survives(found[i], found)
        <3>1. found[i] \in Range(found)
            BY DEF Range
        <3>2. Key[found[i].name] # NoKey => Key[found[i].name] \in Keys(found)
            BY Zenon DEF Keys
        <3>. QED BY <3>1, <3>2 DEF Survives
    <2>. QED BY <1>1, <1>3, <2>2, <2>3, PrefixedIsPrefix DEF AllSurvive
<1>4. CASE named # <<>>
    <2>. DEFINE m == Merged(named, found)
    <2>1. Gathered(m, named, found, Len(found), Sound)
        BY <1>1, MergedProperties
    <2>2. entities' = m
        BY <1>1, <1>4
    <2>. HIDE DEF m
    <2>3. m \in Seq(Sound) /\ Prefixed(m, named, Len(named))
        BY <2>1 DEF Gathered
    <2>4. \A i \in DOMAIN found : Key[found[i].name] \in Keys(m) \cup {NoKey}
        BY <1>2, <2>1 DEF Gathered
    <2>5. AllSurvive(m)
        BY <1>4, <2>4 DEF AllSurvive, Survives
    <2>. QED BY <1>1, <2>2, <2>3, <2>5, PrefixedIsPrefix
<1>. QED BY <1>3, <1>4

\* What Merge adds is added once, under keys that are not Groq's.
LEMMA MergeAddsOnce ==
    ASSUME ReasoningInv, Merge, named # <<>>
    PROVE  LET added == SubSeq(entities', Len(named) + 1, Len(entities')) IN
           /\ Keys(added) \cap Keys(named) = {}
           /\ \A i, j \in DOMAIN added :
                    Key[added[i].name] = Key[added[j].name] => i = j
<1>. DEFINE m == Merged(named, found)
            n == Len(named)
            l == Len(m)
            added == SubSeq(m, n + 1, l)
<1>1. found \in Seq(Sound) /\ named \in Seq(Sound) /\ entities' = m
    BY DEF ReasoningInv, Kept, Merge
<1>2. Gathered(m, named, found, Len(found), Sound)
    BY <1>1, MergedProperties
<1>. HIDE DEF m
<1>3. /\ m \in Seq(Sound) /\ Prefixed(m, named, n)
      /\ \A j \in (n + 1)..l : \A i \in 1..(j - 1) : Key[m[i].name] # Key[m[j].name]
    BY <1>2 DEF Gathered
<1>4. /\ n \in Nat /\ l \in Nat /\ n <= l /\ DOMAIN named = 1..n
      /\ \A i \in 1..l : m[i] \in Sound
      /\ \A i \in 1..n : m[i] = named[i]
    BY <1>1, <1>3, LenProperties, ElementOfSeq DEF Prefixed
<1>. HIDE DEF n, l
<1>5. /\ DOMAIN added = 1..(l - n)
      /\ \A i \in 1..(l - n) : added[i] = m[n + i] /\ n + i \in (n + 1)..l
    <2>1. n + 1 \in Int /\ l \in Int /\ \A i \in (n + 1)..l : m[i] \in Sound
        BY <1>4
    <2>2. /\ added \in Seq(Sound)
          /\ Len(added) = IF n + 1 <= l THEN l - (n + 1) + 1 ELSE 0
          /\ \A i \in 1..(l - (n + 1) + 1) : added[i] = m[(n + 1) + i - 1]
        <3>. DEFINE first == n + 1
        <3>1. first \in Int /\ l \in Int /\ \A i \in first..l : m[i] \in Sound
            BY <2>1
        <3>. HIDE DEF first
        <3>2. /\ SubSeq(m, first, l) \in Seq(Sound)
              /\ Len(SubSeq(m, first, l)) = IF first <= l THEN l - first + 1 ELSE 0
              /\ \A i \in 1..(l - first + 1) : SubSeq(m, first, l)[i] = m[first + i - 1]
            BY <3>1, SubSeqProperties
        <3>. QED BY <3>2 DEF first
    <2>3. Len(added) = l - n /\ l - (n + 1) + 1 = l - n
        BY <1>4, <2>2
    <2>4. \A i \in 1..(l - n) : (n + 1) + i - 1 = n + i /\ n + i \in (n + 1)..l
        BY <1>4
    <2>. HIDE DEF added
    <2>. QED BY <2>2, <2>3, <2>4, LenProperties
<1>. HIDE DEF added
<1>6. ASSUME NEW i \in DOMAIN added, NEW j \in DOMAIN named
      PROVE  Key[added[i].name] # Key[named[j].name]
    <2>1. i \in 1..(l - n) /\ j \in 1..n /\ m[j] = named[j]
        BY <1>4, <1>5
    <2>2. added[i] = m[n + i] /\ n + i \in (n + 1)..l /\ j \in 1..((n + i) - 1)
        BY <1>4, <1>5, <2>1
    <2>. QED BY <1>3, <2>1, <2>2
<1>7. ASSUME NEW i \in DOMAIN added, NEW j \in DOMAIN added, i < j
      PROVE  Key[added[i].name] # Key[added[j].name]
    <2>1. i \in 1..(l - n) /\ j \in 1..(l - n)
        BY <1>5
    <2>2. /\ added[i] = m[n + i] /\ added[j] = m[n + j]
          /\ n + j \in (n + 1)..l /\ n + i \in 1..((n + j) - 1)
        BY <1>4, <1>5, <1>7, <2>1
    <2>. QED BY <1>3, <2>2
<1>8. Keys(added) \cap Keys(named) = {}
    BY Zenon, <1>6 DEF Keys
<1>9. ASSUME NEW i \in DOMAIN added, NEW j \in DOMAIN added,
             Key[added[i].name] = Key[added[j].name]
      PROVE  i = j
    <2>1. i \in Int /\ j \in Int
        BY <1>4, <1>5
    <2>2. ~(i < j) /\ ~(j < i)
        BY <1>7, <1>9
    <2>. QED BY <2>1, <2>2
<1>. QED BY <1>1, <1>8, <1>9 DEF added, n, l

\* Only Merge stores entities.
LEMMA OnlyMergeStores ==
    ASSUME ReasoningInv, [Next]_vars, step = "merge", entities' # None
    PROVE  Merge
<1>1. entities = None
    BY DEF ReasoningInv, Kept
<1>. QED BY <1>1 DEF Next, vars, Find, Reasoned, ReasonGivesUp, AsksAgain, Merge,
                     MergeRefused, Load, ClassifiedByGroq, ClassifiedByRules,
                     Classifies, Respond

\* However long the lists and whatever the answer: a name found in the
\* segments is lost to an entity with its key, or without a key to any answer
\* that names something, and to nothing else; Groq's list is kept in front.
THEOREM NamesAreKept == Spec => NamesSurvive
<1>1. ReasoningInv /\ [Next]_vars =>
        [step = "merge" /\ entities' # None =>
            /\ \A i \in DOMAIN found :
                    IF Key[found[i].name] = NoKey
                    THEN named = <<>> => found[i] \in Range(entities')
                    ELSE Key[found[i].name] \in Keys(entities')
            /\ IsPrefix(named, entities')]_vars
    BY OnlyMergeStores, MergeKeepsNames DEF AllSurvive, Survives
<1>. QED BY <1>1, InvHolds, PTL DEF Spec, NamesSurvive

\* An entity is added to those of Groq once, and only under a new key.
THEOREM NothingAddedTwice == Spec => AddedOnce
<1>1. ReasoningInv /\ [Next]_vars =>
        [step = "merge" /\ entities' # None /\ named # <<>> =>
            LET added == SubSeq(entities', Len(named) + 1, Len(entities')) IN
            /\ Keys(added) \cap Keys(named) = {}
            /\ \A i, j \in DOMAIN added :
                    Key[added[i].name] = Key[added[j].name] => i = j]_vars
    BY OnlyMergeStores, MergeAddsOnce
<1>. QED BY <1>1, InvHolds, PTL DEF Spec, AddedOnce
==============================================================================
