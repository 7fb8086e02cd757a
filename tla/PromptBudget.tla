---------------------------- MODULE PromptBudget ----------------------------
(***************************************************************************)
(* build_budgeted_agent_plan_input (agent/prompt_budget.py): five sections *)
(* of the planning prompt, each built within a budget of its own and then  *)
(* four of them built again with what was left over.                       *)
(*                                                                         *)
(* Text is a length in characters, how many characters make a grapheme,    *)
(* and how many each takes once it is escaped.  A section is a frame, and  *)
(* items that have an identity of some length and, most of them, a text.   *)
(***************************************************************************)
EXTENDS Integers, Sequences

CONSTANTS
    MAX_PROMPT_INPUT_CHARACTERS,
    PROMPT_FRAMING_MANIFEST_CHARACTERS,
    PROMPT_FINAL_SAFETY_MARGIN_CHARACTERS,
    MAX_GROUNDING_CONTEXT_CHARACTERS,
    Budget,                \* the initial allocation of each section
    TRUNCATION_MARKER,     \* its length
    Empty,                 \* per section: its length when there are no items
    Frame,                 \* per section: what is there beside its items
    Label,                 \* per section: what a text adds beside itself
    Framing,               \* what joins the sections, the manifest included
    Inputs                 \* goals, feedback, pages and evidence

Sections == {"goal", "feedback", "projects", "tasks", "grounding"}

\* The text of an item that has none, such as a null description.
NoText == [length |-> 0, cluster |-> 1, width |-> 0]
Texts == [length : Nat, cluster : Nat \ {0}, width : Nat]
Items == [identity : Nat, text : Texts]

ASSUME FrameAssumption ==
    /\ Budget \in [Sections -> Nat]
    /\ Frame \in [Sections -> Nat] /\ Empty \in [Sections -> Nat]
    /\ Label \in [Sections -> Nat] /\ Framing \in Nat /\ TRUNCATION_MARKER \in Nat
    /\ \A s \in Sections : Frame[s] <= Budget[s] /\ Empty[s] <= Budget[s]
    /\ MAX_GROUNDING_CONTEXT_CHARACTERS \in Nat
    /\ Frame["goal"] + TRUNCATION_MARKER <= Budget["goal"]
    /\ Label["feedback"] + TRUNCATION_MARKER <= Budget["feedback"]
ASSUME InputsAssumption ==
    \A given \in Inputs :
        given.objective \in Texts /\ given.items \in [Sections -> Seq(Items)]

VARIABLES
    place,      \* where the call is, or how it ended
    input,      \* what the prompt is made from
    section,    \* the sections built so far
    unused,     \* characters that no section uses
    allotted    \* history: sizes after the initial allocation

promptVars == <<input, section, unused, allotted>>

-----------------------------------------------------------------------------
(***************************************************************************)
(* Texts.                                                                  *)
(***************************************************************************)

\* unicode_safe_prefix: never a part of a grapheme.
SafePrefix(text, maximum) ==
    IF maximum >= text.length THEN text.length
    ELSE (maximum \div text.cluster) * text.cluster

\* A text as it is kept: some of its characters, with the marker when cut.
Whole(text) == [kept |-> text.length, cut |-> FALSE]
Prefix(kept) == [kept |-> kept, cut |-> TRUE]
Nothing == Prefix(-1)
Results == [kept : Nat, cut : BOOLEAN] \cup {Nothing}

Size(text, result) ==
    result.kept * text.width + (IF result.cut THEN TRUNCATION_MARKER ELSE 0)

PrefixFits(text, maximum, room) ==
    Size(text, Prefix(SafePrefix(text, maximum))) <= room

\* Mutant: the loop ends when its bounds meet, with that prefix untried.
SearchStopsEarly(text, room) ==
    LET best[at \in [low : 0..(text.length + 1), high : -1..text.length,
                     found : -1..text.length]] ==
            LET middle == (at.low + at.high) \div 2
            IN  IF at.low >= at.high THEN at.found
                ELSE IF PrefixFits(text, middle, room)
                THEN best[[low |-> middle + 1, high |-> at.high,
                           found |-> SafePrefix(text, middle)]]
                ELSE best[[low |-> at.low, high |-> middle - 1, found |-> at.found]]
    IN  best[[low |-> 0, high |-> text.length, found |-> -1]]

\* The binary search of _fit_text: the longest prefix that fits, or -1.
Search(text, room) ==
    LET best[at \in [low : 0..(text.length + 1), high : -1..text.length,
                     found : -1..text.length]] ==
            LET middle == (at.low + at.high) \div 2
            IN  IF at.low > at.high THEN at.found
                ELSE IF PrefixFits(text, middle, room)
                THEN best[[low |-> middle + 1, high |-> at.high,
                           found |-> SafePrefix(text, middle)]]
                ELSE best[[low |-> at.low, high |-> middle - 1, found |-> at.found]]
    IN  best[[low |-> 0, high |-> text.length, found |-> -1]]

\* _fit_text, with the room that the rest of the section leaves.
FitText(text, room) ==
    IF Size(text, Whole(text)) <= room THEN Whole(text) ELSE Prefix(Search(text, room))

-----------------------------------------------------------------------------
(***************************************************************************)
(* Sections.                                                               *)
(***************************************************************************)

Base(s, items) == IF items = <<>> THEN Empty[s] ELSE Frame[s]
Commas(n) == IF n = 0 THEN 0 ELSE n - 1

\* The identities of the first n items.
Identities(items, n) ==
    LET sum[i \in 0..n] == IF i = 0 THEN 0 ELSE sum[i - 1] + items[i].identity
    IN  sum[n] + Commas(n)

\* How many items are retained: up to the first whose identity is too much.
Retained(s, items, budget) ==
    LET count[i \in 0..Len(items)] ==
            IF i = Len(items) \/ Frame[s] + Identities(items, i + 1) > budget
            THEN i ELSE count[i + 1]
    IN  count[0]

\* What a text adds to its section, as it is kept.
Cost(s, text, result) ==
    IF text = NoText \/ result = Nothing THEN 0 ELSE Label[s] + Size(text, result)

\* The texts of items 1..n in turn, each in the room those before it leave.
Fitted == [texts : Seq(Results), size : Nat]
FitTexts(s, items, n, base, budget) ==
    LET AddText(i) == [before \in Fitted |->
            LET text == items[i].text
                result == IF text = NoText THEN Whole(text)
                          ELSE FitText(text, budget - before.size - Label[s])
            IN  [texts |-> Append(before.texts, result),
                 size |-> before.size + Cost(s, text, result)]]
        fitted[i \in 0..n] == IF i = 0 THEN [texts |-> <<>>, size |-> base]
                              ELSE AddText(i)[fitted[i - 1]]
    IN  fitted[n]

Shortened(texts) == {i \in DOMAIN texts : texts[i].cut}

Manifest(objective_cut, texts, items) ==
    [truncated |-> objective_cut \/ Shortened(texts) # {} \/ Len(texts) < Len(items),
     omitted |-> Len(items) - Len(texts)]

\* _build_list_projection and _build_grounding: identities, then texts.
Projection(s, items, budget) ==
    LET n == Retained(s, items, budget)
        base == Base(s, items) + Identities(items, n)
        fitted == FitTexts(s, items, n, base, budget)
    IN  [size |-> fitted.size, texts |-> fitted.texts, budget |-> budget,
         objective |-> Whole(NoText), manifest |-> Manifest(FALSE, fitted.texts, items)]

\* The constraints in turn, up to the first that has to be cut.
Constrained == [texts : Seq(Results), size : Nat, full : BOOLEAN]
FitConstraints(items, base, budget) ==
    LET AddConstraint(i) == [before \in Constrained |->
            LET label == Label["goal"] + Commas(i) - Commas(i - 1)
                result == FitText(items[i].text, budget - before.size - label)
            IN  IF before.full THEN before
                ELSE IF result = Nothing THEN [before EXCEPT !.full = TRUE]
                ELSE [texts |-> Append(before.texts, result),
                      size |-> before.size + label + Size(items[i].text, result),
                      full |-> result.cut]]
        fitted[i \in 0..Len(items)] ==
            IF i = 0 THEN [texts |-> <<>>, size |-> base, full |-> FALSE]
            ELSE AddConstraint(i)[fitted[i - 1]]
    IN  fitted[Len(items)]

\* _build_goal_analysis: the objective, then constraints.
GoalAnalysis(objective, items, budget) ==
    LET first == FitText(objective, budget - Frame["goal"])
        base == Frame["goal"] + Size(objective, first)
        fitted == FitConstraints(items, base, budget)
    IN  [size |-> fitted.size, texts |-> fitted.texts, budget |-> budget,
         objective |-> first, manifest |-> Manifest(first.cut, fitted.texts, items)]

\* _build_feedback: null, or the one text.
Feedback(items, budget) ==
    LET result == FitText(items[1].text, budget - Label["feedback"])
        texts == IF items = <<>> THEN <<>> ELSE <<result>>
    IN  [size |-> IF items = <<>> THEN Empty["feedback"]
                  ELSE Label["feedback"] + Size(items[1].text, result),
         texts |-> texts, budget |-> budget,
         objective |-> Whole(NoText), manifest |-> Manifest(FALSE, texts, items)]

Build(s, budget) ==
    CASE s = "goal" -> GoalAnalysis(input.objective, input.items["goal"], budget)
      [] s = "feedback" -> Feedback(input.items["feedback"], budget)
      [] OTHER -> Projection(s, input.items[s], budget)

-----------------------------------------------------------------------------
(***************************************************************************)
(* The whole input.                                                        *)
(***************************************************************************)

Over(f) == f["goal"] + f["feedback"] + f["projects"] + f["tasks"] + f["grounding"]

\* _SECTION_BUDGET_TOTAL, and what the sections take of it.
SECTION_BUDGET_TOTAL == Over(Budget)
Used(built) == Over([s \in Sections |-> built[s].size])

\* The first allocation.  A goal or a feedback of which nothing fits raises.
Allocate ==
    /\ place = "allocate"
    /\ section' = [s \in Sections |-> Build(s, Budget[s])]
    /\ allotted' = [s \in Sections |-> section'[s].size]
    /\ unused' = SECTION_BUDGET_TOTAL - Over(allotted')
    /\ place' = IF section'["goal"].objective = Nothing
                   \/ section'["feedback"].texts = <<Nothing>>
                THEN "refused" ELSE "goal"
    /\ UNCHANGED input

\* The fixed order in which sections get what is left over.
After ==
    [goal |-> "tasks", tasks |-> "projects", projects |-> "grounding",
     grounding |-> "assemble"]

Capped(s, budget) ==
    IF s = "grounding" /\ budget > MAX_GROUNDING_CONTEXT_CHARACTERS
    THEN MAX_GROUNDING_CONTEXT_CHARACTERS ELSE budget

\* Mutant: what the tasks took is not subtracted.
ReclaimForgets(s) ==
    /\ place = s
    /\ section' = [section EXCEPT ![s] = Build(s, Capped(s, Budget[s] + unused))]
    /\ unused' = IF s = "tasks" THEN unused
                 ELSE unused - (section'[s].size - section[s].size)
    /\ place' = After[s]
    /\ UNCHANGED <<input, allotted>>

\* A section is built again with its budget and all that is unused; grounding
\* wants some of it.
Reclaim(s) ==
    /\ place = s
    /\ section' = [section EXCEPT ![s] = Build(s, Capped(s, Budget[s] + unused))]
    /\ unused' = unused - (section'[s].size - section[s].size)
    /\ place' = IF s = "grounding" /\ Budget[s] + unused < 1 THEN "refused" ELSE After[s]
    /\ UNCHANGED <<input, allotted>>

\* The final check; what passes is the prompt.
Assemble ==
    /\ place = "assemble"
    /\ place' = IF \/ Framing > PROMPT_FRAMING_MANIFEST_CHARACTERS
                   \/ Framing + Used(section) >
                        MAX_PROMPT_INPUT_CHARACTERS - PROMPT_FINAL_SAFETY_MARGIN_CHARACTERS
                THEN "refused" ELSE "ask"
    /\ UNCHANGED promptVars

BuildPrompt ==
    \/ Allocate
    \/ \E s \in {"goal", "tasks", "projects", "grounding"} : Reclaim(s)
    \/ Assemble

Building == {"allocate", "goal", "tasks", "projects", "grounding", "assemble"}
Built == place \notin {"idle", "allocate"}

-----------------------------------------------------------------------------
(***************************************************************************)
(* Properties.                                                             *)
(***************************************************************************)

\* The budget of a section that is built again counts what the section had
\* left over twice, in Budget and in unused, so the sections may take more
\* than their total: but not by more than one section left over.
OverspendIsOneGap ==
    Built => \/ Used(section) <= SECTION_BUDGET_TOTAL
             \/ \E s \in Sections :
                   Used(section) - SECTION_BUDGET_TOTAL <= Budget[s] - allotted[s]

\* Whatever a section leaves out it reports, and could not have kept: one
\* more grapheme of a text that was cut, a marker in the place of one that
\* was dropped, or the identity of the next item would not have fitted.  No
\* section exceeds its budget, unless what was left is not even enough for
\* the section without its items.
OmissionsAreForcedAndReported ==
    Built => \A s \in Sections :
        LET built == section[s]
            items == input.items[s]
            full == /\ Len(built.texts) = Len(items)
                    /\ ~built.objective.cut /\ Shortened(built.texts) = {}
            Grown(text, result) ==
                IF result = Nothing THEN Label[s] + TRUNCATION_MARKER
                                    ELSE text.cluster * text.width
        IN  /\ built.manifest.truncated = ~full
            /\ built.manifest.omitted = Len(items) - Len(built.texts)
            /\ built.size <= built.budget \/ built.size = Base(s, items)
            /\ built.objective.cut =>
                  built.size + Grown(input.objective, built.objective) > built.budget
            /\ \A i \in Shortened(built.texts) :
                  built.size + Grown(items[i].text, built.texts[i]) > built.budget
            /\ s \notin {"goal", "feedback"} /\ Len(built.texts) < Len(items) =>
                  Frame[s] + Identities(items, Len(built.texts) + 1) > built.budget

\* docs/security-and-limitations.md: legal goal, pages, feedback and evidence
\* that exceed the input schema together are projected, and not refused.
LegalInputIsProjected == place # "refused"

=============================================================================
