------------------------------ MODULE Chunking ------------------------------
(***************************************************************************)
(* From an uploaded document to its chunks: _parse_pdf and _normalize_text *)
(* of services/knowledge_documents.py, then _page_texts and                *)
(* chunk_document_text of services/knowledge_document_indexing.py, one     *)
(* iteration of a loop per step.                                           *)
(*                                                                         *)
(* Text is a length.  A page may contain form feeds, the character that    *)
(* also joins the pages of the stored text: it is its length and the       *)
(* sequence of the lengths of the pieces that a split at form feeds gives. *)
(***************************************************************************)
EXTENDS Integers, Sequences

CONSTANTS
    MAX_DOCUMENT_PAGES,
    MAX_DOCUMENT_TEXT_CHARACTERS,
    MAX_CHUNK_CHARACTERS,
    CHUNK_OVERLAP_CHARACTERS,
    MAX_DOCUMENT_CHUNKS,
    Parts                          \* what the text of a page may be

ASSUME PartsAssumption ==
    \A part \in Parts :
        /\ part.length \in Nat
        /\ part.pieces \in Seq(Nat) /\ part.pieces # <<>>
        /\ Len(part.pieces) = 1 => part.pieces[1] = part.length
ASSUME ChunkLimitsAssumption ==
    /\ MAX_DOCUMENT_PAGES \in Nat /\ MAX_DOCUMENT_TEXT_CHARACTERS \in Nat
    /\ MAX_DOCUMENT_CHUNKS \in Nat
    /\ MAX_CHUNK_CHARACTERS \in Nat /\ CHUNK_OVERLAP_CHARACTERS \in Nat
    /\ CHUNK_OVERLAP_CHARACTERS < MAX_CHUNK_CHARACTERS

VARIABLES
    phase,             \* "parsing", "stored", "chunking" or how that ended
    parts,             \* the pages as they were parsed
    character_count,   \* of these pages
    extracted_text,    \* all of them joined, as the pieces of a split
    pages,             \* the lengths of the pages that were split again
    page, start,       \* the page in hand and the offset in it
    chunks             \* what was cut so far, in the order of ordinals

textVars == <<phase, parts, character_count, extracted_text, pages, page, start, chunks>>
parsed == <<parts, character_count, extracted_text>>
cutting == <<pages, page, start, chunks>>

TextEnded == {"chunked", "invalid", "refused"}

TextInit ==
    /\ phase = "parsing"
    /\ parts = <<>> /\ extracted_text = <<>> /\ pages = <<>> /\ chunks = <<>>
    /\ character_count = 0
    /\ page = 1 /\ start = 0

-----------------------------------------------------------------------------
(***************************************************************************)
(* Upload.                                                                 *)
(***************************************************************************)

\* One page of _parse_pdf; a text file is one page (_normalize_text).
ParsePage ==
    /\ phase = "parsing"
    /\ Len(parts) < MAX_DOCUMENT_PAGES
    /\ \E part \in Parts :
          IF character_count + part.length > MAX_DOCUMENT_TEXT_CHARACTERS
          THEN phase' = "invalid" /\ UNCHANGED <<parsed, cutting>>
          ELSE /\ parts' = Append(parts, part)
               /\ character_count' = character_count + part.length
               /\ extracted_text' = extracted_text \o part.pieces
               /\ UNCHANGED <<phase, cutting>>

\* The separators count too, and some page has to have text.
EndParse ==
    /\ phase = "parsing"
    /\ parts # <<>>
    /\ phase' = IF \/ character_count = 0
                   \/ character_count + Len(parts) - 1 > MAX_DOCUMENT_TEXT_CHARACTERS
                THEN "invalid" ELSE "stored"
    /\ UNCHANGED <<parsed, cutting>>

-----------------------------------------------------------------------------
(***************************************************************************)
(* Indexing.                                                               *)
(***************************************************************************)

\* Mutant: the split is taken to give the pages back.
SplitUnchecked ==
    /\ phase = "stored"
    /\ pages' = IF Len(parts) = 1 THEN <<parts[1].length>> ELSE extracted_text
    /\ phase' = "chunking"
    /\ UNCHANGED <<parsed, page, start, chunks>>

\* _page_texts: refused when the split does not give page_count pages.
SplitPages ==
    /\ phase = "stored"
    /\ IF Len(parts) # 1 /\ Len(extracted_text) # Len(parts)
       THEN phase' = "refused" /\ UNCHANGED pages
       ELSE /\ phase' = "chunking"
            /\ pages' = IF Len(parts) = 1 THEN <<parts[1].length>> ELSE extracted_text
    /\ UNCHANGED <<parsed, page, start, chunks>>

CHUNK_STEP_CHARACTERS == MAX_CHUNK_CHARACTERS - CHUNK_OVERLAP_CHARACTERS

\* Mutants: the end of a page is met one character early or late.
ReachesEarly(length) == start + MAX_CHUNK_CHARACTERS + 1 >= length
ReachesLate(length) == start + MAX_CHUNK_CHARACTERS > length

ReachesEnd(length) == start + MAX_CHUNK_CHARACTERS >= length

TooMany(count) == count > MAX_DOCUMENT_CHUNKS

\* The content of a chunk: a slice ends where its page ends.
Slice(length) ==
    [page_number |-> page, start |-> start,
     stop |-> IF start + MAX_CHUNK_CHARACTERS > length
              THEN length ELSE start + MAX_CHUNK_CHARACTERS]

\* One iteration of the inner loop.
TakeChunk ==
    /\ phase = "chunking" /\ page \in DOMAIN pages /\ start < pages[page]
    /\ chunks' = Append(chunks, Slice(pages[page]))
    /\ IF TooMany(Len(chunks'))
       THEN phase' = "refused" /\ UNCHANGED <<page, start>>
       ELSE IF ReachesEnd(pages[page])
            THEN page' = page + 1 /\ start' = 0 /\ UNCHANGED phase
            ELSE start' = start + CHUNK_STEP_CHARACTERS /\ UNCHANGED <<page, phase>>
    /\ UNCHANGED <<parsed, pages>>

\* A blank page, or the loop condition fails.
EndPage ==
    /\ phase = "chunking" /\ page \in DOMAIN pages /\ start >= pages[page]
    /\ page' = page + 1 /\ start' = 0
    /\ UNCHANGED <<phase, parsed, pages, chunks>>

EndDocument ==
    /\ phase = "chunking" /\ page > Len(pages)
    /\ phase' = IF chunks = <<>> THEN "refused" ELSE "chunked"
    /\ UNCHANGED <<parsed, cutting>>

TextNext ==
    ParsePage \/ EndParse \/ SplitPages \/ TakeChunk \/ EndPage \/ EndDocument

-----------------------------------------------------------------------------
(***************************************************************************)
(* Properties.                                                             *)
(***************************************************************************)

\* A chunk lies inside the uploaded page whose number it cites, also when
\* pages contain the character that separates pages.
ChunksNameTheirPage ==
    \A i \in DOMAIN chunks :
        LET chunk == chunks[i]
        IN  /\ chunk.page_number \in DOMAIN parts
            /\ chunk.stop <= parts[chunk.page_number].length

\* No character of an indexed document is missing from its chunks.
IndexedTextIsCovered ==
    phase = "chunked" =>
        \A p \in DOMAIN parts : \A at \in 0..(parts[p].length - 1) :
            \E i \in DOMAIN chunks :
                /\ chunks[i].page_number = p
                /\ chunks[i].start <= at /\ at < chunks[i].stop

\* Neighbours in a page share exactly the overlap, the later one adds text,
\* and another page starts at its first character.
NeighboursOverlap ==
    \A i \in 2..Len(chunks) :
        LET before == chunks[i - 1]
            chunk == chunks[i]
        IN  IF chunk.page_number = before.page_number
            THEN /\ before.stop - chunk.start = CHUNK_OVERLAP_CHARACTERS
                 /\ chunk.stop > before.stop
            ELSE chunk.page_number > before.page_number /\ chunk.start = 0

=============================================================================
