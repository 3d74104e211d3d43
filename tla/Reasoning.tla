------------------------------ MODULE Reasoning ------------------------------
(***************************************************************************)
(* What Stages C and D make of the evidence: names are found in the        *)
(* segments and given to a language model (Groq), whose answer is merged   *)
(* with them and stored; Stage D reads what is stored, asks Groq for a     *)
(* category or falls back on rules, and stores the response.  Groq may     *)
(* answer anything, fail or refuse the key; a stage that has stored its    *)
(* result is never run again (JobPipeline), so nothing may be stored that  *)
(* the next one cannot read.  An answer the table cannot hold repeats      *)
(* Stage C.                                                                *)
(***************************************************************************)
EXTENDS Integers, SequencesExt

CONSTANTS
    None,
    Name,        \* names of entities
    Key,         \* [Name -> keys], see _normalize_entity_name
    NoKey,       \* the key of a name without letters A-Z and digits
    Inferred,    \* [Name -> {"topic", "unknown"}], see _infer_type
    Evidences,   \* what the patterns match in the segments, see Evidence
    Replies,     \* lists of entities Groq may answer with, see Reply
    MaxFound,    \* MAX_ENTITIES_RETURNED
    MaxRetries   \* max_retries of Stage C

ASSUME NameAssumption ==
    /\ DOMAIN Key = Name
    /\ Inferred \in [Name -> {"topic", "unknown"}]
    /\ MaxFound \in Nat \ {0} /\ MaxRetries \in Nat

\* Names of ranked items, and phrases with the number of times (five count
\* as many) at which they occur; each name once, in the order of the first.
Phrase == [name : Name, times : 1..5]
Evidence == [ranked : Seq(Name), phrases : Seq(Phrase)]

\* Groq is asked for [name, type, confidence]; any of them may be nonsense.
Confidence == 0..1000
EntityType == {"product", "person", "place", "topic", "unknown"}
Reply == [name : Name \cup {None}, type : EntityType \cup {"gizmo"},
          confidence : Int \cup {None}]

ASSUME InputAssumption == Evidences \subseteq Evidence /\ Replies \subseteq Seq(Reply)

VARIABLES
    step,      \* what the pipeline does next with the video
    evidence,  \* what there is in the segments
    found,     \* extract_entities_from_timeline
    named,     \* the entities of Groq, parsed
    asked,     \* the requests to Groq in this step
    entities,  \* the stored entities, or None
    subject,   \* "Unknown topic", a text of Groq's, or what no Text column holds
    refused,   \* the attempts of Stage C the database has refused
    taxonomy,  \* the result of classify_taxonomy, or None
    response   \* the row of final_outputs, or None

local == <<evidence, found, named>>
vars == <<step, local, asked, entities, subject, refused, taxonomy, response>>

Entity == [name : Name, type : EntityType \cup {"gizmo"}, confidence : Int]

\* VALID_PARENT_CATEGORIES, but for those only keywords lead to.
Category == {"Education", "Shopping", "Music", "Other"}

Taxonomy == [parent : Category, confidence : Confidence]
Item == [name : Name, type : EntityType \ {"unknown"}]
Response == [parent : Category, items : Seq(Item)]

TypeOK ==
    /\ step \in {"find", "reason", "merge", "failed", "load", "classify",
                 "respond", "done", "rejected"}
    /\ evidence = None \/ evidence \in Evidence
    /\ {found, named} \subseteq Seq(Entity)
    /\ asked \in 0..1
    /\ entities = None \/ entities \in Seq(Entity)
    /\ subject \in {"unknown", "text", "unstorable"}
    /\ refused \in 0..(MaxRetries + 1)
    /\ taxonomy = None \/ taxonomy \in Taxonomy
    /\ response = None \/ response \in Response

Init ==
    /\ step = "find"
    /\ evidence \in Evidences
    /\ found = <<>>
    /\ named = <<>>
    /\ asked = 0
    /\ entities = None
    /\ subject = "unknown"
    /\ refused = 0
    /\ taxonomy = None
    /\ response = None

-----------------------------------------------------------------------------
(* extract_entities_from_timeline.                                         *)

Items(e) == [i \in DOMAIN e.ranked |->
    [name |-> e.ranked[i], type |-> "unknown", confidence |-> 1000]]

Phrases(e) == [i \in DOMAIN e.phrases |->
    [name |-> e.phrases[i].name, type |-> Inferred[e.phrases[i].name],
     confidence |-> 200 * e.phrases[i].times]]

\* Seeded fault: the phrases come first.
CandidatesByPhrase(e) == Phrases(e) \o Items(e)

Candidates(e) == Items(e) \o Phrases(e)

\* What a loop takes from a list: the elements at the positions P, in order.
Select(list, P) ==
    MapThenFoldSet(LAMBDA e, taken : Append(taken, e), <<>>,
                   LAMBDA i : list[i], Max, P)

\* A stable sort: from five fifths of the confidence down to one.
Sorted(list) ==
    LET Of(c) == Select(list, {i \in DOMAIN list : list[i].confidence = c})
    IN  Of(1000) \o Of(800) \o Of(600) \o Of(400) \o Of(200)

Find ==
    /\ step = "find"
    /\ found' = LET all == Sorted(Candidates(evidence)) IN
                IF Len(all) <= MaxFound THEN all ELSE SubSeq(all, 1, MaxFound)
    /\ step' = "reason"
    /\ UNCHANGED <<evidence, named, asked, entities, subject, refused, taxonomy, response>>

-----------------------------------------------------------------------------
(* v3_reason_over_evidence and _parse_response.                            *)

\* Seeded fault: the confidence is taken as Groq has written it.
Unclamped(c) == c

Clamped(c) == IF c < 0 THEN 0 ELSE IF c > 1000 THEN 1000 ELSE c

ValidType(type) == IF type \in EntityType THEN type ELSE "unknown"

\* Seeded fault: the type is taken as Groq has written it.
ParsedUnchecked(list) ==
    LET named_ == Select(list, {i \in DOMAIN list : list[i].name # None}) IN
    [i \in DOMAIN named_ |->
        [name |-> named_[i].name, type |-> named_[i].type,
         confidence |-> IF named_[i].confidence = None THEN 700
                        ELSE Clamped(named_[i].confidence)]]

Parsed(list) ==
    LET named_ == Select(list, {i \in DOMAIN list : list[i].name # None}) IN
    [i \in DOMAIN named_ |->
        [name |-> named_[i].name, type |-> ValidType(named_[i].type),
         confidence |-> IF named_[i].confidence = None THEN 700
                        ELSE Clamped(named_[i].confidence)]]

Reasoned ==
    /\ step = "reason"
    /\ \E reply \in Replies :
            /\ named' = Parsed(reply)
            /\ subject' \in {"unknown", "text", "unstorable"}
    /\ step' = "merge"
    /\ asked' = 0
    /\ UNCHANGED <<evidence, found, entities, refused, taxonomy, response>>

\* There is no key, Groq refuses it, or has failed twice.
ReasonGivesUp ==
    /\ step = "reason"
    /\ step' = "merge"
    /\ asked' = 0
    /\ UNCHANGED <<local, entities, subject, refused, taxonomy, response>>

-----------------------------------------------------------------------------
(* Either stage: a request fails, its answer cannot be parsed.             *)

\* GROQ_MAX_ATTEMPTS = 2.
AsksAgain ==
    /\ step \in {"reason", "classify"}
    /\ asked < 1
    /\ asked' = asked + 1
    /\ UNCHANGED <<step, local, entities, subject, refused, taxonomy, response>>

-----------------------------------------------------------------------------
(* _merge_entities.                                                        *)

Keys(list) == {Key[list[i].name] : i \in DOMAIN list} \ {NoKey}

\* Seeded fault: Groq's entities replace what was found.
MergedReplacing(groq, heuristic) == groq

\* Seeded fault: an entity added back is not remembered.
MergedForgetting(groq, heuristic) ==
    groq \o SelectSeq(heuristic, LAMBDA e : Key[e.name] \notin Keys(groq) \cup {NoKey})

Merged(groq, heuristic) ==
    FoldLeft(LAMBDA merged, e :
                IF Key[e.name] \in Keys(merged) \cup {NoKey} THEN merged
                                                             ELSE Append(merged, e),
             groq, heuristic)

\* The graph is stored; the segments and Groq's answer are not read again.
Merge ==
    /\ step = "merge" /\ subject # "unstorable"
    /\ entities' = IF named = <<>> THEN found ELSE Merged(named, found)
    /\ evidence' = None
    /\ found' = <<>>
    /\ named' = <<>>
    /\ step' = "load"
    /\ UNCHANGED <<asked, subject, refused, taxonomy, response>>

\* The commit fails, and the whole stage is repeated or gives up.
MergeRefused ==
    /\ step = "merge" /\ subject = "unstorable"
    /\ step' = IF refused < MaxRetries THEN "find" ELSE "failed"
    /\ refused' = refused + 1
    /\ found' = <<>>
    /\ named' = <<>>
    /\ subject' = "unknown"
    /\ UNCHANGED <<evidence, asked, entities, taxonomy, response>>

-----------------------------------------------------------------------------
(* Stage D: _load_v3_evidence_graph, classify_taxonomy and the response.   *)

\* The contract of an ExtractedEntity.
Readable(e) == e.type \in EntityType /\ e.confidence \in Confidence

Load ==
    /\ step = "load"
    /\ step' = IF \A i \in DOMAIN entities : Readable(entities[i])
               THEN "classify" ELSE "rejected"
    /\ UNCHANGED <<local, asked, entities, subject, refused, taxonomy, response>>

Classifies(parent, confidence) ==
    /\ step = "classify"
    /\ taxonomy' = [parent |-> parent, confidence |-> confidence]
    /\ step' = "respond"
    /\ asked' = 0
    /\ UNCHANGED <<local, entities, subject, refused, response>>

\* Seeded fault: the category is taken as Groq has written it.
ParentUnchecked(p) == p

\* A category Groq makes up becomes "Other".
Parent(p) == IF p \in Category THEN p ELSE "Other"

ClassifiedByGroq ==
    \E p \in Category \cup {"Gaming"}, c \in {-100, 700, 1200} :
        Classifies(Parent(p), Clamped(c))

\* resolve_by_rules: a structure overrides the subject; a keyword in the
\* subject, if it is Groq's, overrides what there is to hear.
ClassifiedByRules ==
    \/ Classifies("Other", 650)
    \/ subject = "text" /\ \E p \in Category \ {"Other"} :
                    Classifies(p, 550)
    \/ \E p \in {"Education", "Music", "Other"} :
            Classifies(p, 385)

ItemType(type, parent) ==
    IF type # "unknown" THEN type
    ELSE IF parent = "Shopping" THEN "product" ELSE "topic"

Respond ==
    /\ step = "respond"
    /\ response' =
            [parent |-> taxonomy.parent,
             items |-> [i \in DOMAIN entities |->
                [name |-> entities[i].name,
                 type |-> ItemType(entities[i].type, taxonomy.parent)]]]
    /\ step' = "done"
    /\ UNCHANGED <<local, asked, entities, subject, refused, taxonomy>>

Next ==
    \/ Find \/ Reasoned \/ ReasonGivesUp \/ AsksAgain \/ Merge \/ MergeRefused
    \/ Load \/ ClassifiedByGroq \/ ClassifiedByRules \/ Respond

Spec == Init /\ [][Next]_vars

\* Every request returns or times out, and the stage goes on.
FairSpec == Spec /\ WF_vars(Next)

-----------------------------------------------------------------------------
(* Properties.                                                             *)

NamesOf(list) == {list[i].name : i \in DOMAIN list}

\* A phrase is never kept at the price of a ranked item: whatever is cut off
\* the list of candidates, items go only when there are items enough.
RankedItemsFirst ==
    step \in {"reason", "merge"} =>
        \/ Range(evidence.ranked) \subseteq NamesOf(found)
        \/ NamesOf(found) \subseteq Range(evidence.ranked)

\* What Stage C stores, Stage D can read: it is never run again, so a row
\* that the contract of Stage D rejects would end the video for good.
NothingRejected == step # "rejected"

\* What is found in the segments is lost in the merge in two ways only: to an
\* entity with the same key, or, for a name without a key, because Groq has
\* named anything at all; if it has not, nothing is lost.  (So the result may
\* be shorter than the heuristic floor, against the docstring of
\* _merge_entities.)  Whatever Groq has named is kept as it is.
NamesSurvive ==
    [][step = "merge" /\ entities' # None =>
        /\ \A i \in DOMAIN found :
                IF Key[found[i].name] = NoKey
                THEN named = <<>> => found[i] \in Range(entities')
                ELSE Key[found[i].name] \in Keys(entities')
        /\ IsPrefix(named, entities')]_vars

\* What is added to the entities of Groq is added once, under no key of
\* theirs.
AddedOnce ==
    [][step = "merge" /\ entities' # None /\ named # <<>> =>
        LET added == SubSeq(entities', Len(named) + 1, Len(entities')) IN
        /\ Keys(added) \cap Keys(named) = {}
        /\ \A i, j \in DOMAIN added :
                Key[added[i].name] = Key[added[j].name] => i = j]_vars

\* However often Groq fails and whatever it answers, the video gets a
\* response: Stage D can read all that Stage C stores, asks a limited number
\* of times and has a rule where no answer comes.  The exception are answers
\* that the database refuses, at every attempt of Stage C: nothing checks
\* that the subject and the summary are texts.
EveryVideoIsAnswered == <>(response # None \/ refused > MaxRetries)
==============================================================================
