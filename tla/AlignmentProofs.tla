--------------------------- MODULE AlignmentProofs ---------------------------
(***************************************************************************)
(* Proofs about Alignment: what resolve_overlaps keeps is in order, free   *)
(* of overlaps and holds every peak; no evidence is merged twice and no    *)
(* duplicate is left; and the search for gaps, which looks at neighbours   *)
(* only, misses none.  They hold for inputs of any length and for every    *)
(* tolerance, window and threshold.                                        *)
(***************************************************************************)
EXTENDS Alignment, SequenceTheorems, WellFoundedInduction, TLAPS

-----------------------------------------------------------------------------
(* The inductive invariant.                                                *)

\* What has been kept comes from before the item that is looked at.
KeptBefore ==
    \A src \in Source : \A i \in DOMAIN resolved[src] : resolved[src][i] < next[src]

\* normalize_extractor_results has sorted the inputs.
InputsSorted == \A src \in Source : Sorted(evidence[src])

\* Texts are merged only when nothing is pending, so that what has been kept
\* no longer changes; only texts that have been looked at are merged, with
\* ASR that is kept.
MergedSeen ==
    /\ seen > 0 => \A src \in Source : ~Pending(src)
    /\ \A p \in merged :
        /\ p[1] \in Kept("asr")
        /\ \E k \in 1..seen : p[2] = resolved["ocr"][k]

\* NoDuplicateLeft, for the texts looked at so far.
NoDuplicateSeen ==
    \A k \in 1..seen :
        resolved["ocr"][k] \notin {p[2] : p \in merged} =>
            \A a \in Kept("asr") \ Consumed : ~Duplicate(a, resolved["ocr"][k])

AlignmentInv ==
    /\ TypeOK /\ InputsSorted
    /\ KeptBefore /\ OverlapsResolved /\ PeaksSurvive
    /\ MergedSeen /\ MergedOnce /\ NoDuplicateSeen

\* EXCEPT changes the entry of a source.
Shape == DOMAIN next = Source /\ DOMAIN resolved = Source

-----------------------------------------------------------------------------
(* Data.                                                                   *)

\* The least number principle, for sets.
LEMMA LeastOf ==
    ASSUME NEW T, T \subseteq Nat, T # {}
    PROVE  \E x \in T : \A y \in T : x <= y
<1>1. PICK x \in T : \A y \in T : <<y, x>> \notin OpToRel(<, Nat)
    BY NatLessThanWellFounded, WFMin
<1>2. ASSUME NEW y \in T
      PROVE  x <= y
    <2>1. <<y, x>> \in Nat \X Nat
        BY <1>1
    <2>2. ~(y < x)
        BY <1>1, <2>1 DEF OpToRel
    <2>. QED BY <2>1, <2>2
<1>. QED BY <1>1, <1>2

\* A set of naturals with a bound has a greatest element.
LEMMA GreatestOf ==
    ASSUME NEW T, T \subseteq Nat, T # {}, NEW b \in Nat, \A x \in T : x <= b
    PROVE  \E x \in T : \A y \in T : y <= x
<1>. DEFINE D == {b - x : x \in T}
<1>1. D \subseteq Nat /\ D # {}
    <2>1. \A x \in T : b - x \in Nat
        OBVIOUS
    <2>2. D \subseteq Nat
        BY <2>1
    <2>. QED BY <2>2
<1>2. PICK d \in D : \A e \in D : d <= e
    BY <1>1, LeastOf
<1>3. PICK x \in T : d = b - x
    BY <1>2
<1>4. \A y \in T : b - x <= b - y
    BY <1>2, <1>3
<1>. QED BY <1>4

\* What is known of the evidence of a source.
LEMMA EvidenceProperties ==
    ASSUME NEW src \in Source, NEW e \in Evidence(src, Nat, Nat, Text)
    PROVE  /\ e.start \in Nat /\ e.end \in Nat /\ e.confidence \in Nat
           /\ e.start <= e.end
BY DEF Evidence, Source

\* An item that starts no earlier than another and does not overlap it
\* overlaps nothing that comes before the other and does not overlap it.
LEMMA NoOverlapAcross ==
    ASSUME NEW src \in Source,
           NEW a \in Evidence(src, Nat, Nat, Text),
           NEW b \in Evidence(src, Nat, Nat, Text),
           NEW c \in Evidence(src, Nat, Nat, Text),
           a.start <= b.start, b.start <= c.start,
           ~Overlap(src, a, b), ~Overlap(src, b, c)
    PROVE  ~Overlap(src, a, c)
BY EvidenceProperties, ThresholdAssumption DEF Overlap, Distance

LEMMA OverlapSymmetric ==
    ASSUME NEW src \in Source,
           NEW a \in Evidence(src, Nat, Nat, Text),
           NEW b \in Evidence(src, Nat, Nat, Text)
    PROVE  Overlap(src, a, b) <=> Overlap(src, b, a)
BY EvidenceProperties, ThresholdAssumption DEF Overlap, Distance

-----------------------------------------------------------------------------
(* The initial states.                                                     *)

\* Inputs are sequences of evidence, sorted by start.
LEMMA InputsProperties ==
    ASSUME NEW src \in Source, NEW b \in Bounds, NEW s \in Inputs(src, b)
    PROVE  s \in Seq(Evidence(src, Nat, Nat, Text)) /\ Sorted(s)
<1>. DEFINE E == Evidence(src, b.instants, b.confidences, b.texts)
<1>1. E \subseteq Evidence(src, Nat, Nat, Text)
    BY BoundsAssumption DEF Evidence
<1>2. PICK n \in 0..b[src] : s \in [1..n -> E]
    BY DEF Inputs
<1>3. b[src] \in Nat
    BY BoundsAssumption DEF Source
<1>4. n \in Nat
    BY <1>3
<1>5. s \in Seq(E)
    BY <1>2, <1>4, SeqDef
<1>6. Sorted(s)
    BY DEF Inputs
<1>. QED BY <1>1, <1>5, <1>6, SeqMonotonic

LEMMA InitInv == Init => AlignmentInv /\ Shape
<1>. SUFFICES ASSUME Init PROVE AlignmentInv /\ Shape
    OBVIOUS
<1>1. PICK b \in Bounds : \E asr \in Inputs("asr", b), ocr \in Inputs("ocr", b) :
            evidence = [src \in Source |-> IF src = "asr" THEN asr ELSE ocr]
    BY DEF Init
<1>2. \A src \in Source : evidence[src] \in Inputs(src, b)
    BY <1>1 DEF Source
<1>3. \A src \in Source :
            evidence[src] \in Seq(Evidence(src, Nat, Nat, Text)) /\ Sorted(evidence[src])
    BY <1>2, InputsProperties
<1>4. /\ \A src \in Source : next[src] = 1 /\ resolved[src] = <<>>
      /\ seen = 0 /\ merged = {} /\ Shape
    BY DEF Init, Shape
<1>5. TypeOK
    <2>1. \A src \in Source : Len(evidence[src]) \in Nat
        BY <1>3, LenProperties
    <2>2. <<>> \in Seq(Positions("asr")) /\ <<>> \in Seq(Positions("ocr"))
        BY EmptySeq
    <2>3. Len(resolved["ocr"]) = 0
        BY <1>4, EmptySeq DEF Source
    <2>4. \A src \in Source : resolved[src] \in Seq(Positions(src))
        BY <1>4, <2>2 DEF Source
    <2>5. \A src \in Source : next[src] \in 1..(Len(evidence[src]) + 1)
        BY <1>4, <2>1
    <2>. QED BY <1>3, <1>4, <2>3, <2>4, <2>5 DEF TypeOK
<1>6. \A src \in Source : DOMAIN resolved[src] = {}
    BY <1>4
<1>7. KeptBefore /\ OverlapsResolved
    BY <1>6 DEF KeptBefore, OverlapsResolved
<1>8. PeaksSurvive
    <2>1. \A src \in Source : \A i \in Positions(src) : i >= next[src]
        BY <1>3, <1>4, LenProperties DEF Positions
    <2>. QED BY <2>1 DEF PeaksSurvive
<1>9. MergedSeen /\ MergedOnce /\ NoDuplicateSeen
    BY <1>4 DEF MergedSeen, MergedOnce, NoDuplicateSeen
<1>. QED BY <1>3, <1>4, <1>5, <1>7, <1>8, <1>9 DEF AlignmentInv, InputsSorted

-----------------------------------------------------------------------------
(* The steps.                                                              *)

\* What a turn of resolve_overlaps may do to a source.
Stays(src) == resolved'[src] = resolved[src] /\ next'[src] = next[src]

Keeps(src) ==
    /\ Pending(src) /\ ~Clash(src)
    /\ resolved'[src] = Append(resolved[src], next[src])
    /\ next'[src] = next[src] + 1

Displaces(src) ==
    /\ Pending(src) /\ Clash(src) /\ Wins(src)
    /\ resolved'[src] = SubSeq(resolved[src], 1, Len(resolved[src]) - 1)
    /\ next'[src] = next[src]

Loses(src) ==
    /\ Pending(src) /\ Clash(src) /\ ~Wins(src)
    /\ resolved'[src] = resolved[src]
    /\ next'[src] = next[src] + 1

Turn(src) == Stays(src) \/ Keeps(src) \/ Displaces(src) \/ Loses(src)

\* Overlaps are resolved one item at a time, and nothing is merged meanwhile.
Resolves ==
    /\ \E src \in Source : Pending(src)
    /\ \A src \in Source : Turn(src)
    /\ UNCHANGED <<evidence, seen, merged>>

LEMMA NextSteps ==
    ASSUME Shape, [Next]_vars
    PROVE  Shape' /\ (Resolves \/ Deduplicate \/ UNCHANGED vars)
<1>. USE DEF Shape
<1>1. ASSUME NEW s \in Source, Keep(s)
      PROVE  Shape' /\ Resolves
    <2>1. Keeps(s) /\ \A src \in Source \ {s} : Stays(src)
        BY <1>1 DEF Keep, Keeps, Stays
    <2>2. Shape' /\ UNCHANGED <<evidence, seen, merged>> /\ Pending(s)
        BY <1>1 DEF Keep
    <2>. QED BY <2>1, <2>2 DEF Resolves, Turn
<1>2. ASSUME NEW s \in Source, Displace(s)
      PROVE  Shape' /\ Resolves
    <2>1. Displaces(s) /\ \A src \in Source \ {s} : Stays(src)
        BY <1>2 DEF Displace, Displaces, Stays
    <2>2. Shape' /\ UNCHANGED <<evidence, seen, merged>> /\ Pending(s)
        BY <1>2 DEF Displace
    <2>. QED BY <2>1, <2>2 DEF Resolves, Turn
<1>3. ASSUME NEW s \in Source, Lose(s)
      PROVE  Shape' /\ Resolves
    <2>1. Loses(s) /\ \A src \in Source \ {s} : Stays(src)
        BY <1>3 DEF Lose, Loses, Stays
    <2>2. Shape' /\ UNCHANGED <<evidence, seen, merged>> /\ Pending(s)
        BY <1>3 DEF Lose
    <2>. QED BY <2>1, <2>2 DEF Resolves, Turn
<1>4. CASE Deduplicate
    BY <1>4 DEF Deduplicate
<1>5. CASE UNCHANGED vars
    BY <1>5 DEF vars
<1>. QED BY <1>1, <1>2, <1>3, <1>4, <1>5 DEF Next

\* The items that are compared: they are evidence of the source.
LEMMA ItemProperties ==
    ASSUME TypeOK, NEW src \in Source
    PROVE  /\ Positions(src) = 1..Len(evidence[src]) /\ Len(evidence[src]) \in Nat
           /\ \A i \in Positions(src) : evidence[src][i] \in Evidence(src, Nat, Nat, Text)
           /\ next[src] \in Nat
           /\ DOMAIN resolved[src] = 1..Len(resolved[src]) /\ Len(resolved[src]) \in Nat
           /\ \A i \in DOMAIN resolved[src] : resolved[src][i] \in Positions(src)
<1>1. evidence[src] \in Seq(Evidence(src, Nat, Nat, Text)) /\ resolved[src] \in Seq(Positions(src))
    BY DEF TypeOK
<1>2. /\ DOMAIN evidence[src] = 1..Len(evidence[src]) /\ Len(evidence[src]) \in Nat
      /\ DOMAIN resolved[src] = 1..Len(resolved[src]) /\ Len(resolved[src]) \in Nat
    BY <1>1, LenProperties
<1>3. next[src] \in 1..(Len(evidence[src]) + 1)
    BY DEF TypeOK
<1>4. next[src] \in Nat
    BY <1>2, <1>3
<1>. QED BY <1>1, <1>2, <1>4, ElementOfSeq DEF Positions

\* There is a last item kept when the item clashes with it.
LEMMA ClashProperties ==
    ASSUME TypeOK, NEW src \in Source, Clash(src)
    PROVE  /\ Len(resolved[src]) \in DOMAIN resolved[src]
           /\ Overlap(src, Last(src), Item(src))
<1>1. resolved[src] \in Seq(Positions(src)) /\ resolved[src] # <<>>
    BY DEF TypeOK, Clash
<1>2. Len(resolved[src]) \in Nat \ {0}
    BY <1>1, EmptySeq
<1>. QED BY <1>2, ItemProperties DEF Clash

\* What is in the list of kept items after a turn.
LEMMA TurnProperties ==
    ASSUME TypeOK, NEW src \in Source, Turn(src)
    PROVE  /\ Stays(src) \/ Loses(src) => resolved'[src] = resolved[src]
           /\ Keeps(src) =>
                /\ DOMAIN resolved'[src] = 1..(Len(resolved[src]) + 1)
                /\ \A i \in DOMAIN resolved[src] : resolved'[src][i] = resolved[src][i]
                /\ resolved'[src][Len(resolved[src]) + 1] = next[src]
           /\ Displaces(src) =>
                /\ DOMAIN resolved'[src] = 1..(Len(resolved[src]) - 1)
                /\ \A i \in 1..(Len(resolved[src]) - 1) :
                        resolved'[src][i] = resolved[src][i]
           /\ resolved'[src] \in Seq(Positions(src))
           /\ next'[src] \in 1..(Len(evidence[src]) + 1)
<1>. DEFINE r == resolved[src]
            n == Len(resolved[src])
<1>1. r \in Seq(Positions(src)) /\ next[src] \in 1..(Len(evidence[src]) + 1)
    BY DEF TypeOK
<1>2. DOMAIN r = 1..n /\ n \in Nat /\ \A i \in 1..n : r[i] \in Positions(src)
    BY ItemProperties
<1>3. CASE Stays(src)
    BY <1>1, <1>3 DEF Stays, Keeps, Displaces, Loses
<1>4. CASE Loses(src)
    <2>1. next[src] \in 1..Len(evidence[src]) /\ Len(evidence[src]) \in Nat
        BY <1>4, ItemProperties DEF Loses, Pending
    <2>. QED BY <1>1, <1>4, <2>1 DEF Stays, Keeps, Displaces, Loses
<1>5. CASE Keeps(src)
    <2>1. next[src] \in Positions(src)
        BY <1>5 DEF Keeps, Pending
    <2>2. /\ Append(r, next[src]) \in Seq(Positions(src))
          /\ Len(Append(r, next[src])) = n + 1
          /\ \A i \in 1..n : Append(r, next[src])[i] = r[i]
          /\ Append(r, next[src])[n + 1] = next[src]
        BY <1>1, <2>1, AppendProperties
    <2>3. DOMAIN Append(r, next[src]) = 1..(n + 1)
        BY <2>2, LenProperties
    <2>4. next[src] + 1 \in 1..(Len(evidence[src]) + 1)
        BY <2>1, ItemProperties
    <2>5. ~Stays(src) /\ ~Loses(src) /\ ~Displaces(src)
        BY <1>5, <1>1, ItemProperties DEF Stays, Keeps, Displaces, Loses
    <2>. QED BY <1>2, <1>5, <2>2, <2>3, <2>4, <2>5 DEF Keeps
<1>6. CASE Displaces(src)
    <2>1. n \in 1..n
        BY <1>2, <1>6, ClashProperties DEF Displaces
    <2>2. /\ SubSeq(r, 1, n - 1) \in Seq(Positions(src))
          /\ Len(SubSeq(r, 1, n - 1)) = n - 1
          /\ \A i \in 1..(n - 1) : SubSeq(r, 1, n - 1)[i] = r[i]
        <3>1. 1 \in Int /\ n - 1 \in Int /\ \A i \in 1..(n - 1) : r[i] \in Positions(src)
            BY <1>2
        <3>2. /\ SubSeq(r, 1, n - 1) \in Seq(Positions(src))
              /\ Len(SubSeq(r, 1, n - 1)) = IF 1 <= n - 1 THEN (n - 1) - 1 + 1 ELSE 0
              /\ \A i \in 1..((n - 1) - 1 + 1) : SubSeq(r, 1, n - 1)[i] = r[1 + i - 1]
            BY <3>1, SubSeqProperties
        <3>. QED BY <1>2, <2>1, <3>2
    <2>3. DOMAIN SubSeq(r, 1, n - 1) = 1..(n - 1)
        BY <2>2, LenProperties
    <2>4. ~Stays(src) /\ ~Loses(src) /\ ~Keeps(src)
        <3>1. DOMAIN resolved'[src] # DOMAIN r
            BY <1>2, <1>6, <2>1, <2>3 DEF Displaces
        <3>. QED BY <1>6, <3>1 DEF Stays, Keeps, Displaces, Loses
    <2>. QED BY <1>1, <1>6, <2>2, <2>3, <2>4 DEF Displaces
<1>. QED BY <1>3, <1>4, <1>5, <1>6 DEF Turn

-----------------------------------------------------------------------------
(* resolve_overlaps preserves the invariant.                               *)

\* As long as something is pending nothing has been merged.
LEMMA NothingMergedYet ==
    ASSUME TypeOK, MergedSeen, Resolves
    PROVE  seen = 0 /\ merged = {} /\ seen' = 0 /\ merged' = {}
<1>1. seen \in Nat
    BY ItemProperties DEF TypeOK, Source
<1>2. seen = 0
    BY <1>1 DEF MergedSeen, Resolves
<1>3. merged = {}
    BY <1>2 DEF MergedSeen
<1>. QED BY <1>2, <1>3 DEF Resolves

LEMMA ResolvesType ==
    ASSUME TypeOK, MergedSeen, Resolves
    PROVE  TypeOK'
<1>1. evidence' = evidence /\ \A src \in Source : Turn(src)
    BY DEF Resolves
<1>2. \A src \in Source :
            /\ resolved'[src] \in Seq(Positions(src))
            /\ next'[src] \in 1..(Len(evidence[src]) + 1)
    BY <1>1, TurnProperties
<1>3. Len(resolved'["ocr"]) \in Nat
    BY <1>2, LenProperties DEF Source
<1>4. seen' = 0 /\ merged' = {}
    BY NothingMergedYet
<1>. QED BY <1>1, <1>2, <1>3, <1>4 DEF TypeOK, Positions

LEMMA ResolvesKeptBefore ==
    ASSUME TypeOK, KeptBefore, Resolves
    PROVE  KeptBefore'
<1>. SUFFICES ASSUME NEW src \in Source, NEW i \in DOMAIN resolved'[src]
              PROVE  resolved'[src][i] < next'[src]
    BY DEF KeptBefore
<1>1. /\ DOMAIN resolved[src] = 1..Len(resolved[src]) /\ Len(resolved[src]) \in Nat
      /\ \A k \in DOMAIN resolved[src] : resolved[src][k] \in Nat /\ resolved[src][k] < next[src]
      /\ next[src] \in Nat
    BY ItemProperties DEF KeptBefore
<1>2. Turn(src)
    BY DEF Resolves
<1>3. CASE Stays(src)
    BY <1>1, <1>3 DEF Stays
<1>4. CASE Loses(src)
    BY <1>1, <1>4 DEF Loses
<1>5. CASE Keeps(src)
    <2>1. next'[src] = next[src] + 1
        BY <1>5 DEF Keeps
    <2>2. /\ DOMAIN resolved'[src] = 1..(Len(resolved[src]) + 1)
          /\ \A k \in DOMAIN resolved[src] : resolved'[src][k] = resolved[src][k]
          /\ resolved'[src][Len(resolved[src]) + 1] = next[src]
        BY <1>2, <1>5, TurnProperties
    <2>3. CASE i \in DOMAIN resolved[src]
        BY <1>1, <2>1, <2>2, <2>3
    <2>4. CASE i = Len(resolved[src]) + 1
        BY <1>1, <2>1, <2>2, <2>4
    <2>. QED BY <1>1, <2>2, <2>3, <2>4
<1>6. CASE Displaces(src)
    <2>1. next'[src] = next[src]
        BY <1>6 DEF Displaces
    <2>2. /\ DOMAIN resolved'[src] = 1..(Len(resolved[src]) - 1)
          /\ \A k \in 1..(Len(resolved[src]) - 1) : resolved'[src][k] = resolved[src][k]
        BY <1>2, <1>6, TurnProperties
    <2>3. i \in DOMAIN resolved[src] /\ resolved'[src][i] = resolved[src][i]
        BY <1>1, <2>2
    <2>. QED BY <1>1, <2>1, <2>3
<1>. QED BY <1>2, <1>3, <1>4, <1>5, <1>6 DEF Turn

\* The item that is kept after the last one overlaps nothing kept before.
LEMMA KeptApart ==
    ASSUME TypeOK, InputsSorted, KeptBefore, OverlapsResolved,
           NEW src \in Source, Keeps(src), NEW i \in DOMAIN resolved[src]
    PROVE  ~Overlap(src, evidence[src][resolved[src][i]], Item(src))
<1>. DEFINE n == Len(resolved[src])
            a == evidence[src][resolved[src][i]]
<1>1. /\ Positions(src) = 1..Len(evidence[src]) /\ Len(evidence[src]) \in Nat
      /\ DOMAIN resolved[src] = 1..n /\ n \in Nat
      /\ \A k \in 1..n : resolved[src][k] \in Positions(src)
    BY ItemProperties
<1>2. next[src] \in Positions(src) /\ ~Clash(src)
    BY DEF Keeps, Pending
<1>3. resolved[src] # <<>> /\ n \in 1..n
    BY <1>1
<1>4. ~Overlap(src, Last(src), Item(src))
    BY <1>2, <1>3 DEF Clash
<1>5. /\ a \in Evidence(src, Nat, Nat, Text)
      /\ Last(src) \in Evidence(src, Nat, Nat, Text)
      /\ Item(src) \in Evidence(src, Nat, Nat, Text)
    BY <1>1, <1>2, <1>3, ItemProperties DEF Last, Item
<1>6. CASE i = n
    BY <1>4, <1>6 DEF Last
<1>7. CASE i # n
    <2>1. i < n
        BY <1>1, <1>7
    <2>2. resolved[src][i] < resolved[src][n] /\ ~Overlap(src, a, Last(src))
        BY <1>1, <1>3, <2>1 DEF OverlapsResolved, Last
    <2>3. resolved[src][n] < next[src]
        BY <1>1, <1>3 DEF KeptBefore
    <2>4. \A j, k \in Positions(src) : j < k => evidence[src][j].start <= evidence[src][k].start
        BY DEF InputsSorted, Sorted, Positions
    <2>5. a.start <= Last(src).start /\ Last(src).start <= Item(src).start
        BY <1>1, <1>2, <1>3, <2>2, <2>3, <2>4 DEF Last, Item
    <2>. QED BY <1>4, <1>5, <2>2, <2>5, NoOverlapAcross
<1>. QED BY <1>6, <1>7

LEMMA ResolvesOverlaps ==
    ASSUME TypeOK, InputsSorted, KeptBefore, OverlapsResolved, Resolves
    PROVE  OverlapsResolved'
<1>1. evidence' = evidence
    BY DEF Resolves
<1>. SUFFICES ASSUME NEW src \in Source, NEW i \in DOMAIN resolved'[src],
                     NEW j \in DOMAIN resolved'[src], i < j
              PROVE  /\ resolved'[src][i] < resolved'[src][j]
                     /\ ~Overlap(src, evidence[src][resolved'[src][i]],
                                      evidence[src][resolved'[src][j]])
    BY <1>1 DEF OverlapsResolved, Overlap, Distance
<1>2. /\ DOMAIN resolved[src] = 1..Len(resolved[src]) /\ Len(resolved[src]) \in Nat
      /\ \A k \in DOMAIN resolved[src] : resolved[src][k] < next[src]
    BY ItemProperties DEF KeptBefore
<1>3. \A k, l \in DOMAIN resolved[src] : k < l =>
            /\ resolved[src][k] < resolved[src][l]
            /\ ~Overlap(src, evidence[src][resolved[src][k]], evidence[src][resolved[src][l]])
    BY DEF OverlapsResolved
<1>4. Turn(src)
    BY DEF Resolves
<1>5. CASE Stays(src) \/ Loses(src)
    <2>1. resolved'[src] = resolved[src]
        BY <1>4, <1>5, TurnProperties
    <2>. QED BY <1>3, <2>1
<1>6. CASE Keeps(src)
    <2>1. /\ DOMAIN resolved'[src] = 1..(Len(resolved[src]) + 1)
          /\ \A k \in DOMAIN resolved[src] : resolved'[src][k] = resolved[src][k]
          /\ resolved'[src][Len(resolved[src]) + 1] = next[src]
        BY <1>4, <1>6, TurnProperties
    <2>2. i \in DOMAIN resolved[src]
        BY <1>2, <2>1
    <2>3. CASE j \in DOMAIN resolved[src]
        BY <1>3, <2>1, <2>2, <2>3
    <2>4. CASE j = Len(resolved[src]) + 1
        <3>1. ~Overlap(src, evidence[src][resolved[src][i]], Item(src))
            BY <1>6, <2>2, KeptApart
        <3>. QED BY <1>2, <2>1, <2>2, <2>4, <3>1 DEF Item
    <2>. QED BY <1>2, <2>1, <2>3, <2>4
<1>7. CASE Displaces(src)
    <2>1. /\ DOMAIN resolved'[src] = 1..(Len(resolved[src]) - 1)
          /\ \A k \in 1..(Len(resolved[src]) - 1) : resolved'[src][k] = resolved[src][k]
        BY <1>4, <1>7, TurnProperties
    <2>2. i \in DOMAIN resolved[src] /\ j \in DOMAIN resolved[src]
        BY <1>2, <2>1
    <2>. QED BY <1>3, <2>1, <2>2
<1>. QED BY <1>4, <1>5, <1>6, <1>7 DEF Turn

\* More confident than everything it overlaps: see PeaksSurvive.
Peak(src, i) ==
    \A j \in Positions(src) \ {i} :
        Overlap(src, evidence[src][i], evidence[src][j]) =>
            evidence[src][j].confidence < evidence[src][i].confidence

LEMMA ResolvesPeaks ==
    ASSUME TypeOK, KeptBefore, PeaksSurvive, Resolves
    PROVE  PeaksSurvive'
<1>1. evidence' = evidence
    BY DEF Resolves
<1>. SUFFICES ASSUME NEW src \in Source, NEW i \in Positions(src), Peak(src, i)
              PROVE  i \in Kept(src)' \/ i >= next'[src]
    BY <1>1 DEF PeaksSurvive, Peak, Positions, Overlap, Distance
<1>2. /\ Positions(src) = 1..Len(evidence[src]) /\ Len(evidence[src]) \in Nat
      /\ \A j \in Positions(src) : evidence[src][j] \in Evidence(src, Nat, Nat, Text)
      /\ next[src] \in Nat
      /\ DOMAIN resolved[src] = 1..Len(resolved[src]) /\ Len(resolved[src]) \in Nat
      /\ \A k \in DOMAIN resolved[src] : resolved[src][k] \in Positions(src)
    BY ItemProperties
<1>3. i \in Kept(src) \/ i >= next[src]
    BY DEF PeaksSurvive, Peak
<1>4. Turn(src)
    BY DEF Resolves
<1>5. CASE Stays(src)
    BY <1>3, <1>5 DEF Stays, Kept
<1>6. CASE Keeps(src)
    <2>1. /\ DOMAIN resolved'[src] = 1..(Len(resolved[src]) + 1)
          /\ \A k \in DOMAIN resolved[src] : resolved'[src][k] = resolved[src][k]
          /\ resolved'[src][Len(resolved[src]) + 1] = next[src]
        BY <1>4, <1>6, TurnProperties
    <2>2. next'[src] = next[src] + 1
        BY <1>6 DEF Keeps
    <2>3. CASE i \in Kept(src)
        <3>1. PICK k \in DOMAIN resolved[src] : i = resolved[src][k]
            BY <2>3 DEF Kept
        <3>2. k \in DOMAIN resolved'[src] /\ i = resolved'[src][k]
            BY <1>2, <2>1, <3>1
        <3>. QED BY <3>2 DEF Kept
    <2>4. CASE i = next[src]
        <3>1. Len(resolved[src]) + 1 \in DOMAIN resolved'[src]
            BY <1>2, <2>1
        <3>. QED BY <2>1, <2>4, <3>1 DEF Kept
    <2>5. CASE i > next[src]
        BY <1>2, <2>2, <2>5
    <2>. QED BY <1>2, <1>3, <2>3, <2>4, <2>5
<1>7. CASE Displaces(src)
    <2>1. /\ DOMAIN resolved'[src] = 1..(Len(resolved[src]) - 1)
          /\ \A k \in 1..(Len(resolved[src]) - 1) : resolved'[src][k] = resolved[src][k]
        BY <1>4, <1>7, TurnProperties
    <2>2. next'[src] = next[src]
        BY <1>7 DEF Displaces
    <2>3. CASE i \in Kept(src)
        <3>1. PICK k \in DOMAIN resolved[src] : i = resolved[src][k]
            BY <2>3 DEF Kept
        <3>2. Pending(src) /\ Clash(src) /\ Wins(src)
            BY <1>7 DEF Displaces
        <3>3. k # Len(resolved[src])
            <4>. SUFFICES ASSUME k = Len(resolved[src]) PROVE FALSE
                OBVIOUS
            <4>1. i < next[src]
                BY <3>1 DEF KeptBefore
            <4>2. next[src] \in Positions(src) \ {i}
                BY <1>2, <3>2, <4>1 DEF Pending
            <4>3. Overlap(src, evidence[src][i], evidence[src][next[src]])
                BY <3>1, <3>2, ClashProperties DEF Last, Item
            <4>4. evidence[src][next[src]].confidence < evidence[src][i].confidence
                BY <4>2, <4>3 DEF Peak
            <4>5. evidence[src][next[src]].confidence > evidence[src][i].confidence
                BY <3>1, <3>2 DEF Wins, Last, Item
            <4>6. /\ evidence[src][next[src]].confidence \in Nat
                  /\ evidence[src][i].confidence \in Nat
                BY <1>2, <4>2, EvidenceProperties
            <4>. QED BY <4>4, <4>5, <4>6
        <3>4. k \in 1..(Len(resolved[src]) - 1)
            BY <1>2, <3>1, <3>3
        <3>. QED BY <2>1, <3>1, <3>4 DEF Kept
    <2>. QED BY <1>3, <2>2, <2>3
<1>8. CASE Loses(src)
    <2>1. resolved'[src] = resolved[src] /\ next'[src] = next[src] + 1
        BY <1>8 DEF Loses
    <2>2. Pending(src) /\ Clash(src) /\ ~Wins(src)
        BY <1>8 DEF Loses
    <2>3. CASE i \in Kept(src)
        BY <2>1, <2>3 DEF Kept
    <2>4. i # next[src]
        <3>. SUFFICES ASSUME i = next[src] PROVE FALSE
            OBVIOUS
        <3>. DEFINE l == resolved[src][Len(resolved[src])]
        <3>1. Len(resolved[src]) \in DOMAIN resolved[src]
            BY <2>2, ClashProperties
        <3>2. l \in Positions(src) \ {i}
            BY <1>2, <3>1 DEF KeptBefore
        <3>3. Overlap(src, evidence[src][l], evidence[src][i])
            BY <2>2, ClashProperties DEF Last, Item
        <3>4. Overlap(src, evidence[src][i], evidence[src][l])
            BY <1>2, <3>2, <3>3, OverlapSymmetric
        <3>5. evidence[src][l].confidence < evidence[src][i].confidence
            BY <3>2, <3>4 DEF Peak
        <3>6. ~(evidence[src][i].confidence > evidence[src][l].confidence)
            BY <2>2 DEF Wins, Last, Item
        <3>7. evidence[src][l].confidence \in Nat /\ evidence[src][i].confidence \in Nat
            BY <1>2, <3>2, EvidenceProperties
        <3>. QED BY <3>5, <3>6, <3>7
    <2>5. CASE i > next[src]
        BY <1>2, <2>1, <2>5
    <2>. QED BY <1>2, <1>3, <2>3, <2>4, <2>5
<1>. QED BY <1>4, <1>5, <1>6, <1>7, <1>8 DEF Turn

LEMMA ResolvesInv == AlignmentInv /\ Resolves => AlignmentInv'
<1>. SUFFICES ASSUME AlignmentInv, Resolves PROVE AlignmentInv'
    OBVIOUS
<1>. USE DEF AlignmentInv
<1>1. TypeOK' /\ KeptBefore' /\ OverlapsResolved' /\ PeaksSurvive'
    BY ResolvesType, ResolvesKeptBefore, ResolvesOverlaps, ResolvesPeaks
<1>2. InputsSorted'
    BY DEF InputsSorted, Sorted, Resolves
<1>3. seen' = 0 /\ merged' = {}
    BY NothingMergedYet
<1>4. MergedSeen' /\ MergedOnce' /\ NoDuplicateSeen'
    BY <1>3 DEF MergedSeen, MergedOnce, NoDuplicateSeen
<1>. QED BY <1>1, <1>2, <1>4

-----------------------------------------------------------------------------
(* deduplicate_cross_modal preserves the invariant.                        *)

\* The pairs a turn of it adds: the first candidate, if there is one, and
\* the text.
First(o) == {c \in Candidates(o) : \A d \in Candidates(o) : c <= d}

Looked == resolved["ocr"][seen + 1]

LEMMA DeduplicateProperties ==
    ASSUME TypeOK, Deduplicate
    PROVE  /\ seen \in Nat /\ seen + 1 \in DOMAIN resolved["ocr"]
           /\ Looked \in Positions("ocr")
           /\ First(Looked) \subseteq Kept("asr") \ Consumed
           /\ Kept("asr") \subseteq Positions("asr")
           /\ merged' = merged \cup {<<a, Looked>> : a \in First(Looked)}
           /\ seen' = seen + 1
           /\ UNCHANGED <<evidence, next, resolved>>
<1>1. /\ DOMAIN resolved["ocr"] = 1..Len(resolved["ocr"]) /\ Len(resolved["ocr"]) \in Nat
      /\ \A k \in DOMAIN resolved["ocr"] : resolved["ocr"][k] \in Positions("ocr")
      /\ \A k \in DOMAIN resolved["asr"] : resolved["asr"][k] \in Positions("asr")
    BY ItemProperties DEF Source
<1>2. seen \in Nat /\ seen < Len(resolved["ocr"])
    BY <1>1 DEF TypeOK, Deduplicate, Deduplicating
<1>3. seen + 1 \in DOMAIN resolved["ocr"]
    BY <1>1, <1>2
<1>4. First(Looked) \subseteq Kept("asr") \ Consumed
    BY DEF First, Candidates
<1>5. Kept("asr") \subseteq Positions("asr")
    BY <1>1 DEF Kept
<1>. QED BY <1>1, <1>2, <1>3, <1>4, <1>5 DEF Deduplicate, Looked, First

\* If there is a candidate there is a first one.
LEMMA FirstExists ==
    ASSUME TypeOK, NEW o, Candidates(o) # {}
    PROVE  First(o) # {}
<1>1. \A k \in DOMAIN resolved["asr"] : resolved["asr"][k] \in Nat
    BY ItemProperties DEF Source
<1>2. Candidates(o) \subseteq Nat
    BY <1>1 DEF Candidates, Kept
<1>. QED BY <1>2, LeastOf DEF First

LEMMA DeduplicateType ==
    ASSUME TypeOK, Deduplicate
    PROVE  TypeOK'
<1>1. merged' \subseteq Positions("asr") \X Positions("ocr")
    BY DeduplicateProperties DEF TypeOK
<1>2. seen' \in 0..Len(resolved["ocr"])
    BY DeduplicateProperties, ItemProperties DEF Source
<1>. QED BY <1>1, <1>2, DeduplicateProperties DEF TypeOK, Positions

LEMMA DeduplicateMergedSeen ==
    ASSUME TypeOK, MergedSeen, Deduplicate
    PROVE  MergedSeen'
<1>1. \A src \in Source : ~Pending(src)'
    BY DeduplicateProperties DEF Deduplicate, Deduplicating, Pending, Positions
<1>2. ASSUME NEW p \in merged'
      PROVE  p[1] \in Kept("asr") /\ \E k \in 1..(seen + 1) : p[2] = resolved["ocr"][k]
    <2>1. CASE p \in merged
        <3>1. p[1] \in Kept("asr")
            BY <2>1 DEF MergedSeen
        <3>2. PICK k \in 1..seen : p[2] = resolved["ocr"][k]
            BY <2>1 DEF MergedSeen
        <3>3. k \in 1..(seen + 1)
            BY DeduplicateProperties
        <3>. QED BY <3>1, <3>2, <3>3
    <2>2. CASE p \notin merged
        <3>1. PICK a \in First(Looked) : p = <<a, Looked>>
            BY <2>2, DeduplicateProperties
        <3>2. seen + 1 \in 1..(seen + 1)
            BY DeduplicateProperties
        <3>. QED BY <3>1, <3>2, DeduplicateProperties DEF Looked
    <2>. QED BY <2>1, <2>2
<1>. QED BY <1>1, <1>2, DeduplicateProperties DEF MergedSeen, Kept

\* The text is merged neither with ASR that is merged already, nor was it
\* merged before: it comes after every text that was.
LEMMA DeduplicateOnce ==
    ASSUME TypeOK, OverlapsResolved, MergedSeen, MergedOnce, Deduplicate
    PROVE  MergedOnce'
<1>1. ASSUME NEW p \in merged, NEW a \in First(Looked)
      PROVE  p[1] # a /\ p[2] # Looked
    <2>1. p[1] # a
        BY DeduplicateProperties DEF Consumed
    <2>2. PICK k \in 1..seen : p[2] = resolved["ocr"][k]
        BY DEF MergedSeen
    <2>3. k \in DOMAIN resolved["ocr"] /\ k < seen + 1
        BY DeduplicateProperties, ItemProperties DEF Source
    <2>4. resolved["ocr"][k] < resolved["ocr"][seen + 1]
        BY <2>3, DeduplicateProperties DEF OverlapsResolved, Source
    <2>5. resolved["ocr"][k] \in Nat /\ resolved["ocr"][seen + 1] \in Nat
        BY <2>3, DeduplicateProperties, ItemProperties DEF Source
    <2>. QED BY <2>1, <2>2, <2>4, <2>5 DEF Looked
<1>2. ASSUME NEW a \in First(Looked), NEW b \in First(Looked)
      PROVE  a = b
    <2>1. a <= b /\ b <= a
        BY DEF First
    <2>2. a \in Nat /\ b \in Nat
        BY DeduplicateProperties, ItemProperties DEF Source
    <2>. QED BY <2>1, <2>2
<1>3. \A p \in merged' : p \in merged \/ \E a \in First(Looked) : p = <<a, Looked>>
    BY DeduplicateProperties
<1>. SUFFICES ASSUME NEW p \in merged', NEW q \in merged'
              PROVE  p[1] = q[1] <=> p[2] = q[2]
    BY DEF MergedOnce
<1>4. CASE p \in merged /\ q \in merged
    BY <1>4 DEF MergedOnce
<1>5. CASE p \in merged /\ q \notin merged
    <2>1. PICK a \in First(Looked) : q = <<a, Looked>>
        BY <1>3, <1>5
    <2>. QED BY <1>1, <1>5, <2>1
<1>6. CASE p \notin merged /\ q \in merged
    <2>1. PICK a \in First(Looked) : p = <<a, Looked>>
        BY <1>3, <1>6
    <2>. QED BY <1>1, <1>6, <2>1
<1>7. CASE p \notin merged /\ q \notin merged
    <2>1. PICK a \in First(Looked) : p = <<a, Looked>>
        BY <1>3, <1>7
    <2>2. PICK b \in First(Looked) : q = <<b, Looked>>
        BY <1>3, <1>7
    <2>. QED BY <1>2, <2>1, <2>2
<1>. QED BY <1>4, <1>5, <1>6, <1>7

\* What is not a duplicate of any ASR that is left stays so, because ASR is
\* only ever taken; and a text that has candidates is merged.
LEMMA DeduplicateNoDuplicate ==
    ASSUME TypeOK, NoDuplicateSeen, Deduplicate
    PROVE  NoDuplicateSeen'
<1>1. /\ evidence' = evidence /\ resolved' = resolved
      /\ seen' = seen + 1 /\ seen \in Nat
      /\ merged' = merged \cup {<<a, Looked>> : a \in First(Looked)}
    BY DeduplicateProperties
<1>. SUFFICES ASSUME NEW k \in 1..(seen + 1),
                     resolved["ocr"][k] \notin {p[2] : p \in merged'},
                     NEW a \in Kept("asr"), a \notin {p[1] : p \in merged'}
              PROVE  ~Duplicate(a, resolved["ocr"][k])
    BY <1>1 DEF NoDuplicateSeen, Kept, Consumed, Duplicate, Distance
<1>2. a \in Kept("asr") \ Consumed
    BY <1>1 DEF Consumed
<1>3. CASE k \in 1..seen
    <2>1. resolved["ocr"][k] \notin {p[2] : p \in merged}
        BY <1>1
    <2>. QED BY <1>2, <1>3, <2>1 DEF NoDuplicateSeen
<1>4. CASE k = seen + 1
    <2>1. First(Looked) = {}
        <3>. SUFFICES ASSUME NEW b \in First(Looked) PROVE FALSE
            OBVIOUS
        <3>1. <<b, Looked>> \in merged'
            BY <1>1
        <3>2. <<b, Looked>>[2] \in {p[2] : p \in merged'}
            BY <3>1
        <3>. QED BY <1>4, <3>2 DEF Looked
    <2>2. Candidates(Looked) = {}
        BY <2>1, FirstExists
    <2>. QED BY <1>2, <1>4, <2>2 DEF Candidates, Looked
<1>. QED BY <1>1, <1>3, <1>4

LEMMA DeduplicateInv == AlignmentInv /\ Deduplicate => AlignmentInv'
<1>. SUFFICES ASSUME AlignmentInv, Deduplicate PROVE AlignmentInv'
    OBVIOUS
<1>. USE DEF AlignmentInv
<1>1. TypeOK' /\ MergedSeen' /\ MergedOnce' /\ NoDuplicateSeen'
    BY DeduplicateType, DeduplicateMergedSeen, DeduplicateOnce, DeduplicateNoDuplicate
<1>2. UNCHANGED <<evidence, next, resolved>>
    BY DeduplicateProperties
<1>3. InputsSorted' /\ KeptBefore'
    BY <1>2 DEF InputsSorted, Sorted, KeptBefore
<1>4. OverlapsResolved'
    BY <1>2 DEF OverlapsResolved, Overlap, Distance
<1>5. PeaksSurvive'
    BY <1>2 DEF PeaksSurvive, Overlap, Distance, Kept, Positions
<1>. QED BY <1>1, <1>3, <1>4, <1>5

LEMMA StutterInv == AlignmentInv /\ UNCHANGED vars => AlignmentInv'
<1>. SUFFICES ASSUME AlignmentInv, UNCHANGED vars PROVE AlignmentInv'
    OBVIOUS
<1>. USE DEF AlignmentInv
<1>1. UNCHANGED <<evidence, next, resolved, seen, merged>>
    BY DEF vars
<1>2. TypeOK' /\ InputsSorted' /\ KeptBefore'
    BY <1>1 DEF TypeOK, Positions, InputsSorted, Sorted, KeptBefore
<1>3. OverlapsResolved'
    BY <1>1 DEF OverlapsResolved, Overlap, Distance
<1>4. PeaksSurvive'
    BY <1>1 DEF PeaksSurvive, Overlap, Distance, Kept, Positions
<1>5. MergedSeen' /\ MergedOnce'
    BY <1>1 DEF MergedSeen, Pending, Positions, Kept, MergedOnce
<1>6. NoDuplicateSeen'
    BY <1>1 DEF NoDuplicateSeen, Kept, Consumed, Duplicate, Distance
<1>. QED BY <1>2, <1>3, <1>4, <1>5, <1>6

LEMMA InvAlways == Spec => [](AlignmentInv /\ Shape)
<1>1. AlignmentInv /\ Shape /\ [Next]_vars => (AlignmentInv /\ Shape)'
    BY NextSteps, ResolvesInv, DeduplicateInv, StutterInv
<1>. QED BY InitInv, <1>1, PTL DEF Spec

-----------------------------------------------------------------------------
(* The theorems.                                                           *)

\* Alignment works on evidence in order and on positions of it.
THEOREM TypeCorrect == Spec => []TypeOK
<1>1. AlignmentInv => TypeOK
    BY DEF AlignmentInv
<1>. QED BY InvAlways, <1>1, PTL

\* Comparing with the last item kept is enough: whatever the items displace,
\* no two that are kept overlap, and they stay in order.
THEOREM OverlapsAreResolved == Spec => []OverlapsResolved
<1>1. AlignmentInv => OverlapsResolved
    BY DEF AlignmentInv
<1>. QED BY InvAlways, <1>1, PTL

\* Of every cluster of overlaps, what is more confident than all it overlaps
\* is kept.
THEOREM PeaksAreKept == Spec => []PeaksSurvive
<1>1. AlignmentInv => PeaksSurvive
    BY DEF AlignmentInv
<1>. QED BY InvAlways, <1>1, PTL

\* No segment of either source is merged twice.
THEOREM NothingMergedTwice == Spec => []MergedOnce
<1>1. AlignmentInv => MergedOnce
    BY DEF AlignmentInv
<1>. QED BY InvAlways, <1>1, PTL

\* Though texts are merged greedily, one after the other, no duplicate is
\* left in the result.
THEOREM NoDuplicateIsLeft == Spec => []NoDuplicateLeft
<1>1. AlignmentInv => NoDuplicateLeft
    <2>. SUFFICES ASSUME AlignmentInv, Done,
                         NEW o \in Kept("ocr") \ {p[2] : p \in merged},
                         NEW a \in Kept("asr") \ Consumed
                  PROVE  ~Duplicate(a, o)
        BY DEF NoDuplicateLeft
    <2>1. PICK k \in DOMAIN resolved["ocr"] : o = resolved["ocr"][k]
        BY DEF Kept
    <2>2. k \in 1..seen
        BY <2>1, ItemProperties DEF Done, Source, AlignmentInv
    <2>. QED BY <2>1, <2>2 DEF AlignmentInv, NoDuplicateSeen
<1>. QED BY InvAlways, <1>1, PTL

-----------------------------------------------------------------------------
(* detect_gaps.                                                            *)

\* The segments of the timeline, which end no earlier than they start.
SegmentType == [start : Nat, end : Nat, rank : 1..3, pos : Nat]

LEMMA TimelineProperties ==
    ASSUME AlignmentInv
    PROVE  /\ Timeline \subseteq SegmentType
           /\ \A u \in Timeline : u.start <= u.end
           /\ \E b \in Nat : \A u \in Timeline : u.pos <= b
<1>1. \A src \in Source : \A i \in Positions(src) :
            /\ evidence[src][i].start \in Nat /\ evidence[src][i].end \in Nat
            /\ evidence[src][i].start <= evidence[src][i].end
    BY ItemProperties, EvidenceProperties DEF AlignmentInv
<1>2. PICK b \in Nat : \A src \in Source : \A i \in Positions(src) : i \in Nat /\ i <= b
    <2>1. PICK m \in Nat : Positions("asr") = 1..m
        BY ItemProperties DEF AlignmentInv, Source
    <2>2. PICK n \in Nat : Positions("ocr") = 1..n
        BY ItemProperties DEF AlignmentInv, Source
    <2>3. /\ \A i \in Positions("asr") : i \in Nat /\ i <= m + n
          /\ \A i \in Positions("ocr") : i \in Nat /\ i <= m + n
        BY <2>1, <2>2
    <2>. QED BY <2>3 DEF Source
<1>. DEFINE Good(u) == u \in SegmentType /\ u.start <= u.end /\ u.pos <= b
<1>3. \A src \in Source : Kept(src) \subseteq Positions(src)
    BY ItemProperties DEF AlignmentInv, Kept
<1>4. ASSUME NEW src \in Source, NEW i \in Kept(src), NEW rank \in 1..3
      PROVE  Good(Single(src, rank, i))
    <2>1. i \in Positions(src)
        BY <1>3
    <2>. QED BY <1>1, <1>2, <2>1 DEF Single, Segment, SegmentType
<1>5. ASSUME NEW p \in merged
      PROVE  Good(Both(p[1], p[2]))
    <2>1. p[1] \in Positions("asr") /\ p[2] \in Positions("ocr")
        BY DEF AlignmentInv, TypeOK
    <2>2. /\ evidence["asr"][p[1]].start \in Nat /\ evidence["asr"][p[1]].end \in Nat
          /\ evidence["asr"][p[1]].start <= evidence["asr"][p[1]].end
          /\ evidence["ocr"][p[2]].start \in Nat
          /\ p[2] \in Nat /\ p[2] <= b
        BY <1>1, <1>2, <2>1 DEF Source
    <2>. QED BY <2>2 DEF Both, Segment, SegmentType
<1>6. \A u \in Timeline : Good(u)
    <2>1. \A a \in Kept("asr") : Good(Single("asr", 1, a))
        BY <1>4 DEF Source
    <2>2. \A o \in Kept("ocr") : Good(Single("ocr", 3, o))
        BY <1>4 DEF Source
    <2>. HIDE DEF Good
    <2>. QED BY <1>5, <2>1, <2>2 DEF Timeline
<1>. QED BY <1>6

\* A set of segments that is not empty has a first one,
LEMMA FirstSegment ==
    ASSUME NEW S, S \subseteq SegmentType, S # {}
    PROVE  \E s \in S : \A u \in S : ~Before(u, s)
<1>1. \A u \in S : u.start \in Nat /\ u.rank \in Nat /\ u.pos \in Nat
    BY DEF SegmentType
<1>2. PICK a \in {u.start : u \in S} : \A b \in {u.start : u \in S} : a <= b
    <2>1. {u.start : u \in S} \subseteq Nat /\ {u.start : u \in S} # {}
        BY <1>1
    <2>. QED BY <2>1, LeastOf
<1>. DEFINE A == {u \in S : u.start = a}
<1>3. PICK r \in {u.rank : u \in A} : \A b \in {u.rank : u \in A} : r <= b
    <2>1. {u.rank : u \in A} \subseteq Nat /\ {u.rank : u \in A} # {}
        BY <1>1, <1>2
    <2>. QED BY <2>1, LeastOf
<1>. DEFINE R == {u \in A : u.rank = r}
<1>4. PICK p \in {u.pos : u \in R} : \A b \in {u.pos : u \in R} : p <= b
    <2>1. {u.pos : u \in R} \subseteq Nat /\ {u.pos : u \in R} # {}
        BY <1>1, <1>3
    <2>. QED BY <2>1, LeastOf
<1>5. PICK s \in R : s.pos = p
    BY <1>4
<1>6. ASSUME NEW u \in S, Before(u, s)
      PROVE  FALSE
    <2>1. s.start = a /\ s.rank = r /\ s.pos = p
        BY <1>5
    <2>2. a <= u.start
        BY <1>2
    <2>3. u.start = a => r <= u.rank
        BY <1>3
    <2>4. u.start = a /\ u.rank = r => p <= u.pos
        BY <1>4
    <2>5. a \in Nat /\ r \in Nat /\ p \in Nat
        BY <1>1, <2>1, <1>5
    <2>. QED BY <1>1, <1>6, <2>1, <2>2, <2>3, <2>4, <2>5 DEF Before
<1>. QED BY <1>5, <1>6

\* and, if there is a bound, a last one.
LEMMA LastSegment ==
    ASSUME NEW S, S \subseteq SegmentType, S # {}, NEW b \in Nat,
           \A u \in S : u.start <= b /\ u.pos <= b
    PROVE  \E s \in S : \A u \in S : ~Before(s, u)
<1>1. \A u \in S : /\ u.start \in Nat /\ u.rank \in Nat /\ u.pos \in Nat
                   /\ u.rank <= 3
    BY DEF SegmentType
<1>2. PICK a \in {u.start : u \in S} : \A c \in {u.start : u \in S} : c <= a
    <2>1. {u.start : u \in S} \subseteq Nat /\ {u.start : u \in S} # {}
        BY <1>1
    <2>2. \A c \in {u.start : u \in S} : c <= b
        OBVIOUS
    <2>. QED BY <2>1, <2>2, GreatestOf
<1>. DEFINE A == {u \in S : u.start = a}
<1>3. PICK r \in {u.rank : u \in A} : \A c \in {u.rank : u \in A} : c <= r
    <2>1. {u.rank : u \in A} \subseteq Nat /\ {u.rank : u \in A} # {}
        BY <1>1, <1>2
    <2>2. \A c \in {u.rank : u \in A} : c <= 3
        BY <1>1
    <2>. QED BY <2>1, <2>2, GreatestOf
<1>. DEFINE R == {u \in A : u.rank = r}
<1>4. PICK p \in {u.pos : u \in R} : \A c \in {u.pos : u \in R} : c <= p
    <2>1. {u.pos : u \in R} \subseteq Nat /\ {u.pos : u \in R} # {}
        BY <1>1, <1>3
    <2>2. \A c \in {u.pos : u \in R} : c <= b
        OBVIOUS
    <2>. QED BY <2>1, <2>2, GreatestOf
<1>5. PICK s \in R : s.pos = p
    BY <1>4
<1>6. ASSUME NEW u \in S, Before(s, u)
      PROVE  FALSE
    <2>1. s.start = a /\ s.rank = r /\ s.pos = p
        BY <1>5
    <2>2. u.start <= a
        BY <1>2
    <2>3. u.start = a => u.rank <= r
        BY <1>3
    <2>4. u.start = a /\ u.rank = r => u.pos <= p
        BY <1>4
    <2>5. a \in Nat /\ r \in Nat /\ p \in Nat
        BY <1>1, <2>1, <1>5
    <2>. QED BY <1>1, <1>6, <2>1, <2>2, <2>3, <2>4, <2>5 DEF Before
<1>. QED BY <1>5, <1>6

\* Between the last segment that starts before the far side t of a stretch
\* without segments and the first that does not there is no other, and the
\* one has ended before the stretch begins.
LEMMA StretchIsFound ==
    ASSUME AlignmentInv, Uncovered
    PROVE  HasGaps
<1>1. PICK s \in Timeline, t \in Timeline :
            /\ t.start - s.end > GapThreshold
            /\ \A u \in Timeline : u.end <= s.end \/ u.start >= t.start
    BY DEF Uncovered
<1>2. /\ Timeline \subseteq SegmentType
      /\ \A u \in Timeline : u.start <= u.end
    BY TimelineProperties
<1>3. \A u \in Timeline : u.start \in Nat /\ u.end \in Nat /\ u.pos \in Nat
    BY <1>2 DEF SegmentType
<1>4. s.start < t.start
    BY <1>1, <1>2, <1>3, ThresholdAssumption
<1>. DEFINE Early == {u \in Timeline : u.start < t.start}
            Late == Timeline \ Early
<1>5. PICK x \in Early : \A u \in Early : ~Before(x, u)
    <2>1. PICK n \in Nat : \A u \in Timeline : u.pos <= n
        BY TimelineProperties
    <2>. DEFINE b == t.start + n
    <2>2. b \in Nat
        BY <1>3
    <2>3. \A u \in Early : u.start <= b /\ u.pos <= b
        BY <1>3, <2>1
    <2>4. Early \subseteq SegmentType /\ Early # {}
        BY <1>2, <1>4
    <2>. HIDE DEF b, Early
    <2>. QED BY <2>2, <2>3, <2>4, LastSegment
<1>6. PICK y \in Late : \A u \in Late : ~Before(u, y)
    <2>1. Late \subseteq SegmentType /\ Late # {}
        BY <1>2, <1>3
    <2>. HIDE DEF Late
    <2>. QED BY <2>1, FirstSegment
<1>7. x.start < t.start /\ t.start <= y.start /\ x.end <= s.end
    BY <1>1, <1>3, <1>5, <1>6
<1>8. Before(x, y)
    BY <1>3, <1>5, <1>6, <1>7 DEF Before
<1>9. Adjacent(x, y)
    BY <1>5, <1>6, <1>8 DEF Adjacent
<1>10. y.start - x.end > GapThreshold
    BY <1>1, <1>3, <1>5, <1>6, <1>7, ThresholdAssumption
<1>. QED BY <1>5, <1>6, <1>9, <1>10 DEF HasGaps

\* Looking at neighbours in the order of their starts, detect_gaps misses no
\* stretch that is longer than the threshold.
THEOREM GapsAreDetected == Spec => []GapsAreFound
<1>1. AlignmentInv => GapsAreFound
    BY StretchIsFound DEF GapsAreFound
<1>. QED BY InvAlways, <1>1, PTL
==============================================================================
