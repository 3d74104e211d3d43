------------------------------ MODULE Alignment ------------------------------
(***************************************************************************)
(* align(): the segments of ASR and OCR become one timeline.  Overlaps     *)
(* within a source are resolved first, then OCR points that repeat what    *)
(* ASR has heard are merged into the ASR ranges, and the result is         *)
(* searched for gaps.  A step is one turn of a loop of the code.           *)
(***************************************************************************)
EXTENDS Integers, Sequences

CONSTANTS
    Text,         \* the texts of segments
    Similar,      \* the pairs of texts compute_text_similarity accepts
    Bounds,       \* what the inputs are made of, see BoundsAssumption
    Tolerance,    \* OVERLAP_TOLERANCE_SEC
    MergeWindow,  \* MERGE_WINDOW_MS
    GapThreshold  \* GAP_THRESHOLD_SEC

Source == {"asr", "ocr"}

ASSUME SimilarAssumption == Similar \subseteq Text \X Text
ASSUME ThresholdAssumption ==
    Tolerance \in Nat /\ MergeWindow \in Nat /\ GapThreshold \in Nat

\* asr and ocr bound the number of segments; of a confidence only the order
\* matters.
ASSUME BoundsAssumption ==
    \A b \in Bounds :
        /\ b.asr \in Nat /\ b.ocr \in Nat /\ b.texts \subseteq Text
        /\ b.instants \subseteq Nat /\ b.confidences \subseteq Nat

\* ASR yields ranges, OCR points in time, which end where they start.
Evidence(src, instants, confidences, texts) ==
    {e \in [start : instants, end : instants, confidence : confidences,
            text : texts] :
        IF src = "ocr" THEN e.end = e.start ELSE e.end >= e.start}

Sorted(s) == \A i, j \in DOMAIN s : i < j => s[i].start <= s[j].start

Inputs(src, b) ==
    LET E == Evidence(src, b.instants, b.confidences, b.texts)
    IN  {s \in UNION {[1..n -> E] : n \in 0..b[src]} : Sorted(s)}

VARIABLES
    evidence,  \* the normalised input of every source, sorted by start
    next,      \* the position of the item resolve_overlaps looks at
    resolved,  \* the positions of the items it has kept so far
    seen,      \* OCR items deduplicate_cross_modal has looked at
    merged     \* pairs <<asr, ocr>> of positions it has merged

vars == <<evidence, next, resolved, seen, merged>>

Positions(src) == DOMAIN evidence[src]

Kept(src) == {resolved[src][i] : i \in DOMAIN resolved[src]}

TypeOK ==
    /\ \A src \in Source : evidence[src] \in Seq(Evidence(src, Nat, Nat, Text))
    /\ \A src \in Source : next[src] \in 1..(Len(evidence[src]) + 1)
    /\ \A src \in Source : resolved[src] \in Seq(Positions(src))
    /\ seen \in 0..Len(resolved["ocr"])
    /\ merged \subseteq Positions("asr") \X Positions("ocr")

\* normalize_extractor_results sorts; an extractor that failed, or is not one
\* of the two, contributes nothing.
Init ==
    /\ \E b \in Bounds :
        \E asr \in Inputs("asr", b), ocr \in Inputs("ocr", b) :
            evidence = [src \in Source |-> IF src = "asr" THEN asr ELSE ocr]
    /\ next = [src \in Source |-> 1]
    /\ resolved = [src \in Source |-> <<>>]
    /\ seen = 0
    /\ merged = {}

-----------------------------------------------------------------------------
(* resolve_overlaps, for the evidence of one source.                       *)

Distance(a, b) == IF a.start >= b.start THEN a.start - b.start
                                        ELSE b.start - a.start

\* _do_overlap; within a source there are only points or only ranges.
Overlap(src, a, b) ==
    IF src = "ocr" THEN Distance(a, b) <= Tolerance
    ELSE a.start <= b.end /\ b.start <= a.end

Item(src) == evidence[src][next[src]]

\* Seeded fault: the item is compared with the first one kept.
LastIsFirst(src) == evidence[src][resolved[src][1]]

Last(src) == evidence[src][resolved[src][Len(resolved[src])]]

Clash(src) == resolved[src] # <<>> /\ Overlap(src, Last(src), Item(src))

\* Seeded fault: the comparison of the confidences is the wrong way round.
WinsIfLower(src) == Item(src).confidence < Last(src).confidence

\* On a tie the earlier item stays.
Wins(src) == Item(src).confidence > Last(src).confidence

Pending(src) == next[src] \in Positions(src)

\* Seeded fault: the position kept is one too high.
KeepNext(src) ==
    /\ Pending(src) /\ ~Clash(src)
    /\ resolved' = [resolved EXCEPT ![src] = Append(@, next[src] + 1)]
    /\ next' = [next EXCEPT ![src] = @ + 1]
    /\ UNCHANGED <<evidence, seen, merged>>

Keep(src) ==
    /\ Pending(src) /\ ~Clash(src)
    /\ resolved' = [resolved EXCEPT ![src] = Append(@, next[src])]
    /\ next' = [next EXCEPT ![src] = @ + 1]
    /\ UNCHANGED <<evidence, seen, merged>>

\* The item displaces the last one kept and is compared with the one before.
Displace(src) ==
    /\ Pending(src) /\ Clash(src) /\ Wins(src)
    /\ resolved' = [resolved EXCEPT ![src] = SubSeq(@, 1, Len(@) - 1)]
    /\ UNCHANGED <<evidence, next, seen, merged>>

Lose(src) ==
    /\ Pending(src) /\ Clash(src) /\ ~Wins(src)
    /\ next' = [next EXCEPT ![src] = @ + 1]
    /\ UNCHANGED <<evidence, resolved, seen, merged>>

-----------------------------------------------------------------------------
(* deduplicate_cross_modal.                                                *)

Duplicate(a, o) ==
    LET asr == evidence["asr"][a]
        ocr == evidence["ocr"][o]
    IN  Distance(asr, ocr) <= MergeWindow /\ <<asr.text, ocr.text>> \in Similar

Consumed == {p[1] : p \in merged}

\* Seeded fault: only ASR that starts after the text was seen is a candidate.
CandidatesAfter(o) ==
    {a \in Kept("asr") \ Consumed :
        Duplicate(a, o) /\ evidence["asr"][a].start >= evidence["ocr"][o].start}

\* Seeded fault: an ASR segment may be merged more than once.
CandidatesReused(o) == {a \in Kept("asr") : Duplicate(a, o)}

Candidates(o) == {a \in Kept("asr") \ Consumed : Duplicate(a, o)}

Deduplicating ==
    /\ \A src \in Source : ~Pending(src)
    /\ seen < Len(resolved["ocr"])

\* The text is merged with the first candidate, if there is one.
Deduplicate ==
    LET o == resolved["ocr"][seen + 1] IN
    /\ Deduplicating
    /\ merged' = merged \cup {<<a, o>> : a \in
            {c \in Candidates(o) : \A d \in Candidates(o) : c <= d}}
    /\ seen' = seen + 1
    /\ UNCHANGED <<evidence, next, resolved>>

Next ==
    \/ \E src \in Source : Keep(src) \/ Displace(src) \/ Lose(src)
    \/ Deduplicate

Spec == Init /\ [][Next]_vars

-----------------------------------------------------------------------------
(* create_segments and detect_gaps.                                        *)

Done == (\A src \in Source : ~Pending(src)) /\ seen = Len(resolved["ocr"])

\* A segment of the timeline.  rank is the order of the names of the
\* sources, and pos the order within a source, by which ties are broken.
Segment(start, end, rank, pos) ==
    [start |-> start, end |-> end, rank |-> rank, pos |-> pos]

Single(src, rank, i) ==
    Segment(evidence[src][i].start, evidence[src][i].end, rank, i)

\* A merged segment starts with whichever comes first and ends with the ASR.
Both(a, o) ==
    LET asr == evidence["asr"][a]
        ocr == evidence["ocr"][o]
    IN  Segment(IF asr.start <= ocr.start THEN asr.start ELSE ocr.start,
                asr.end, 2, o)

Timeline ==
    {Single("asr", 1, a) : a \in Kept("asr") \ Consumed}
        \cup {Both(p[1], p[2]) : p \in merged}
        \cup {Single("ocr", 3, o) : o \in Kept("ocr") \ {p[2] : p \in merged}}

Before(s, t) ==
    \/ s.start < t.start
    \/ s.start = t.start /\ s.rank < t.rank
    \/ s.start = t.start /\ s.rank = t.rank /\ s.pos < t.pos

Adjacent(s, t) ==
    Before(s, t) /\ ~\E u \in Timeline : Before(s, u) /\ Before(u, t)

\* Seeded fault: the search for gaps starts at the second segment.
HasGapsFromSecond ==
    \E s, t \in Timeline :
        /\ \E r \in Timeline : Before(r, s)
        /\ Adjacent(s, t) /\ t.start - s.end > GapThreshold

HasGaps ==
    \E s, t \in Timeline : Adjacent(s, t) /\ t.start - s.end > GapThreshold

-----------------------------------------------------------------------------
(* Properties.                                                             *)

\* What resolve_overlaps has kept is in order and free of overlaps: it is
\* compared only with the last item kept, and an item that displaces several
\* is not compared with those it does not reach any more.
OverlapsResolved ==
    \A src \in Source : \A i, j \in DOMAIN resolved[src] : i < j =>
        LET a == evidence[src][resolved[src][i]]
            b == evidence[src][resolved[src][j]]
        IN  /\ resolved[src][i] < resolved[src][j]
            /\ ~Overlap(src, a, b)

\* "keeping highest confidence items" (diff.md:528): an item that is more
\* confident than everything it overlaps is not lost, in whatever chain of
\* overlaps it stands.
PeaksSurvive ==
    \A src \in Source : \A i \in Positions(src) :
        (\A j \in Positions(src) \ {i} :
            Overlap(src, evidence[src][i], evidence[src][j]) =>
                evidence[src][j].confidence < evidence[src][i].confidence)
        => i \in Kept(src) \/ i >= next[src]

\* No evidence takes part in two merges, so the timeline repeats nothing and
\* original_segment_ids names every item once.
MergedOnce ==
    \A p, q \in merged : p[1] = q[1] <=> p[2] = q[2]

\* In the result no text is left that ASR has heard at the same time, though
\* every text takes the first candidate and leaves the others to the next.
NoDuplicateLeft ==
    Done => \A o \in Kept("ocr") \ {p[2] : p \in merged} :
                \A a \in Kept("asr") \ Consumed : ~Duplicate(a, o)

\* A stretch longer than the threshold between two segments, in which no
\* segment is under way.
Uncovered ==
    \E s, t \in Timeline :
        /\ t.start - s.end > GapThreshold
        /\ \A u \in Timeline : u.end <= s.end \/ u.start >= t.start

\* detect_gaps, which compares neighbours in the order of their starts only,
\* misses no stretch without segments.
GapsAreFound == Done => (Uncovered => HasGaps)
==============================================================================
