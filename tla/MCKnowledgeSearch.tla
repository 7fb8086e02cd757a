------------------------- MODULE MCKnowledgeSearch -------------------------
(* Chunks of four characters overlapping by one, pages of up to eleven     *)
(* characters: a page ends before, at and after a chunk, up to four of     *)
(* them.  One text of each number of chunks up to three is indexed by      *)
(* three requests: one may index it while the second waits with an old     *)
(* snapshot and the third starts with a new one.  A ranking holds two.     *)
EXTENDS KnowledgeSearch

CONSTANTS r1, r2, r3

\* A page of n characters, and one with form feeds between its pieces.
MCPage(n) == [length |-> n, pieces |-> <<n>>]
MCParts ==
    {MCPage(n) : n \in 0..11}
    \cup {[length |-> 1, pieces |-> <<0, 0>>], [length |-> 5, pieces |-> <<4, 0>>],
          [length |-> 8, pieces |-> <<2, 5>>], [length |-> 6, pieces |-> <<0, 3, 1>>]}

MCIndexedTexts ==
    {<<MCPage(2)>>, <<MCPage(4), MCPage(1)>>, <<MCPage(5), MCPage(3)>>}

\* The ids of the chunks, in an order that is not that of the ordinals.
MCId(chunk) ==
    CASE chunk.by = r1 -> 6 - chunk.ordinal
      [] chunk.by = r2 -> 20 + chunk.ordinal
      [] chunk.by = r3 -> 12 - chunk.ordinal

=============================================================================
