----------------------- MODULE KnowledgeSearchProofs -----------------------
(***************************************************************************)
(* Proofs about documents, for any limits, texts and number of requests:   *)
(* what chunking cuts, what requests that index at the same time leave to  *)
(* whoever reads the index, and what fusion makes of two rankings of it.   *)
(***************************************************************************)
EXTENDS KnowledgeSearch, FiniteSetTheorems, SequenceTheorems, TLAPS

-----------------------------------------------------------------------------
(***************************************************************************)
(* From pages to chunks: the inductive invariant.                          *)
(***************************************************************************)

Cuts == [page_number : Nat, start : Nat, stop : Nat]

TextTypes ==
    /\ phase \in {"parsing", "stored", "chunking"} \cup TextEnded
    /\ parts \in Seq(Parts) /\ extracted_text \in Seq(Nat) /\ pages \in Seq(Nat)
    /\ page \in Nat \ {0} /\ start \in Nat
    /\ chunks \in Seq(Cuts)

\* Every page gives at least one piece: as many pieces as pages are the pages.
PiecesInv ==
    /\ Len(parts) <= Len(extracted_text)
    /\ Len(parts) = Len(extracted_text) =>
          \A p \in 1..Len(parts) : extracted_text[p] = parts[p].length

\* What is cut are the pages that were uploaded.
PagesInv ==
    /\ phase \in {"chunking", "chunked"} \/ chunks # <<>> =>
          /\ Len(pages) = Len(parts)
          /\ \A p \in 1..Len(parts) : pages[p] = parts[p].length
    /\ phase \in {"parsing", "stored", "invalid"} => chunks = <<>>
    /\ phase \in {"parsing", "stored"} => page = 1 /\ start = 0
    /\ phase = "chunked" => page > Len(parts) /\ chunks # <<>>

\* A chunk has text, of the page that it names.
Within(chunk) ==
    /\ chunk.page_number \in 1..Len(parts)
    /\ chunk.start < chunk.stop /\ chunk.stop <= parts[chunk.page_number].length
CutsInv == \A i \in 1..Len(chunks) : Within(chunks[i])

\* Inside a page the last chunk ends an overlap after the offset, and before
\* the page does; at its start every chunk is of an earlier page.
PlaceInv ==
    phase = "chunking" =>
        /\ \A i \in 1..Len(chunks) :
              chunks[i].page_number <= page /\ (start = 0 => chunks[i].page_number < page)
        /\ start > 0 =>
              /\ page \in 1..Len(parts) /\ chunks # <<>>
              /\ chunks[Len(chunks)].page_number = page
              /\ chunks[Len(chunks)].stop = start + CHUNK_OVERLAP_CHARACTERS
              /\ chunks[Len(chunks)].stop < parts[page].length

\* The first n characters of page p are in chunks.
Holds(chunk, p, at) ==
    chunk.page_number = p /\ chunk.start <= at /\ at < chunk.stop
Covered(cut, p, n) ==
    \A at \in 0..(n - 1) : \E i \in 1..Len(cut) : Holds(cut[i], p, at)
CoverInv ==
    phase \in {"chunking", "chunked"} =>
        /\ \A p \in 1..Len(parts) : p < page => Covered(chunks, p, parts[p].length)
        /\ start > 0 => Covered(chunks, page, start + CHUNK_OVERLAP_CHARACTERS)

TextInv ==
    /\ TextTypes /\ PiecesInv /\ PagesInv
    /\ CutsInv /\ PlaceInv /\ CoverInv /\ NeighboursOverlap

-----------------------------------------------------------------------------
\* No page has been parsed.
LEMMA InitTextInv == TextInit => TextInv
PROOF
<1> SUFFICES ASSUME TextInit PROVE TextInv
  OBVIOUS
<1>1. TextTypes
  BY EmptySeq DEF TextInit, TextTypes
<1>2. PiecesInv /\ PagesInv /\ CutsInv /\ PlaceInv /\ CoverInv /\ NeighboursOverlap
  BY DEF TextInit, PiecesInv, PagesInv, CutsInv, PlaceInv, CoverInv, NeighboursOverlap
<1> QED BY <1>1, <1>2 DEF TextInv

\* What does not touch the document keeps all of it.
LEMMA TextStays ==
    ASSUME TextInv, UNCHANGED textVars PROVE TextInv'
PROOF
<1>1. /\ phase' = phase /\ parts' = parts /\ extracted_text' = extracted_text
      /\ pages' = pages /\ page' = page /\ start' = start /\ chunks' = chunks
  BY DEF textVars
<1> QED BY <1>1 DEF TextInv, TextTypes, PiecesInv, PagesInv, CutsInv, Within, PlaceInv,
                    CoverInv, Covered, NeighboursOverlap

\* A page more.
LEMMA ParsePageHolds ==
    ASSUME TextInv, ParsePage PROVE TextInv'
PROOF
<1>1. /\ TextTypes /\ PiecesInv /\ PagesInv /\ chunks = <<>> /\ page = 1 /\ start = 0
      /\ phase = "parsing"
  BY DEF TextInv, ParsePage, PagesInv
<1>2. pages' = pages /\ page' = page /\ start' = start /\ chunks' = chunks
  BY DEF ParsePage, cutting
<1>3. CASE phase' = "invalid" /\ UNCHANGED <<parsed, cutting>>
  <2>1. parts' = parts /\ extracted_text' = extracted_text
    BY <1>3 DEF parsed
  <2> QED BY <1>1, <1>2, <1>3, <2>1
          DEF TextInv, TextTypes, TextEnded, PiecesInv, PagesInv, CutsInv, PlaceInv, CoverInv,
              NeighboursOverlap
<1>4. ASSUME NEW part \in Parts, parts' = Append(parts, part),
             extracted_text' = extracted_text \o part.pieces, phase' = phase
      PROVE  TextInv'
  <2>1. parts \in Seq(Parts) /\ extracted_text \in Seq(Nat)
    BY <1>1 DEF TextTypes
  <2>2. /\ part.length \in Nat /\ part.pieces \in Seq(Nat) /\ part.pieces # <<>>
        /\ Len(part.pieces) = 1 => part.pieces[1] = part.length
    BY PartsAssumption
  <2>3. Len(part.pieces) \in Nat \ {0} /\ Len(parts) \in Nat /\ Len(extracted_text) \in Nat
    BY <2>1, <2>2, LenProperties, EmptySeq
  <2>4. /\ parts' \in Seq(Parts) /\ Len(parts') = Len(parts) + 1
        /\ \A p \in 1..Len(parts) : parts'[p] = parts[p]
        /\ parts'[Len(parts) + 1] = part
    BY <1>4, <2>1, AppendProperties
  <2>5. /\ extracted_text' \in Seq(Nat)
        /\ Len(extracted_text') = Len(extracted_text) + Len(part.pieces)
        /\ \A p \in 1..(Len(extracted_text) + Len(part.pieces)) :
              extracted_text'[p] = IF p <= Len(extracted_text) THEN extracted_text[p]
                                   ELSE part.pieces[p - Len(extracted_text)]
    BY <1>4, <2>1, <2>2, ConcatProperties
  <2>6. PiecesInv'
    <3>1. Len(parts) <= Len(extracted_text)
      BY <1>1 DEF PiecesInv
    <3>2. Len(parts') <= Len(extracted_text')
      BY <2>3, <2>4, <2>5, <3>1
    <3>3. ASSUME Len(parts') = Len(extracted_text'), NEW p \in 1..Len(parts')
          PROVE  extracted_text'[p] = parts'[p].length
      <4>1. Len(part.pieces) = 1 /\ Len(parts) = Len(extracted_text)
        <5>1. Len(parts) + 1 = Len(extracted_text) + Len(part.pieces)
          BY <2>4, <2>5, <3>3
        <5>2. \A m, n \in Nat, k \in Nat \ {0} : m <= n /\ m + 1 = n + k => k = 1 /\ m = n
          OBVIOUS
        <5> QED BY <2>3, <3>1, <5>1, <5>2
      <4>2. CASE p <= Len(parts)
        <5>1. p \in 1..Len(parts) /\ p \in 1..(Len(extracted_text) + Len(part.pieces))
          BY <2>3, <2>4, <3>3, <4>1, <4>2
        <5>2. extracted_text'[p] = extracted_text[p] /\ parts'[p] = parts[p]
          BY <2>4, <2>5, <4>1, <4>2, <5>1
        <5>3. extracted_text[p] = parts[p].length
          BY <1>1, <4>1, <5>1 DEF PiecesInv
        <5> QED BY <5>2, <5>3
      <4>3. CASE p = Len(parts) + 1
        <5>1. p \in 1..(Len(extracted_text) + Len(part.pieces)) /\ ~(p <= Len(extracted_text))
              /\ p - Len(extracted_text) = 1
          BY <2>3, <4>1, <4>3
        <5>2. extracted_text'[p] = part.pieces[1]
          BY <2>5, <5>1
        <5> QED BY <2>2, <2>4, <4>1, <4>3, <5>2
      <4> QED BY <2>3, <2>4, <3>3, <4>2, <4>3
    <3> QED BY <3>2, <3>3 DEF PiecesInv
  <2> QED BY <1>1, <1>2, <1>4, <2>4, <2>5, <2>6
          DEF TextInv, TextTypes, PagesInv, CutsInv, PlaceInv, CoverInv, NeighboursOverlap
<1> QED BY <1>3, <1>4 DEF ParsePage

\* The text is stored, and the pages of it are found again or it is refused.
LEMMA StoredHolds ==
    ASSUME TextInv, EndParse \/ SplitPages PROVE TextInv'
PROOF
<1>1. /\ TextTypes /\ PiecesInv /\ PagesInv /\ chunks = <<>> /\ page = 1 /\ start = 0
      /\ phase \in {"parsing", "stored"}
  BY DEF TextInv, EndParse, SplitPages, PagesInv
<1>2. /\ parts' = parts /\ extracted_text' = extracted_text
      /\ page' = page /\ start' = start /\ chunks' = chunks
  BY DEF EndParse, SplitPages, parsed, cutting
<1>3. CASE EndParse
  <2>1. pages' = pages /\ phase' \in {"invalid", "stored"}
    BY <1>3 DEF EndParse, cutting
  <2> QED BY <1>1, <1>2, <2>1
          DEF TextInv, TextTypes, TextEnded, PiecesInv, PagesInv, CutsInv, PlaceInv, CoverInv,
              NeighboursOverlap
<1>4. CASE SplitPages
  <2>1. CASE phase' = "refused" /\ pages' = pages
    BY <1>1, <1>2, <2>1
       DEF TextInv, TextTypes, TextEnded, PiecesInv, PagesInv, CutsInv, PlaceInv, CoverInv,
           NeighboursOverlap
  <2>2. CASE /\ phase' = "chunking" /\ (Len(parts) = 1 \/ Len(extracted_text) = Len(parts))
             /\ pages' = IF Len(parts) = 1 THEN <<parts[1].length>> ELSE extracted_text
    <3>1. /\ pages' \in Seq(Nat) /\ Len(pages') = Len(parts)
          /\ \A p \in 1..Len(parts) : pages'[p] = parts[p].length
      <4>1. CASE Len(parts) = 1
        <5>1. pages' = <<parts[1].length>>
          BY <2>2, <4>1
        <5>2. parts[1] \in Parts
          <6>1. parts \in Seq(Parts) /\ 1 \in 1..Len(parts)
            BY <1>1, <4>1 DEF TextTypes
          <6> QED BY <6>1, ElementOfSeq
        <5>3. parts[1].length \in Nat
          BY <5>2, PartsAssumption
        <5> QED BY <4>1, <5>1, <5>3
      <4>2. CASE Len(parts) # 1
        BY <1>1, <2>2, <4>2 DEF TextTypes, PiecesInv
      <4> QED BY <4>1, <4>2
    <3>2. TextTypes' /\ PiecesInv' /\ PagesInv'
      BY <1>1, <1>2, <2>2, <3>1 DEF TextTypes, PiecesInv, PagesInv
    <3>3. CutsInv' /\ PlaceInv' /\ NeighboursOverlap'
      BY <1>1, <1>2 DEF CutsInv, PlaceInv, NeighboursOverlap
    <3>4. CoverInv'
      BY <1>1, <1>2 DEF CoverInv
    <3> QED BY <3>2, <3>3, <3>4 DEF TextInv
  <2> QED BY <1>4, <2>1, <2>2 DEF SplitPages
<1> QED BY <1>3, <1>4

-----------------------------------------------------------------------------
\* The page of a chunk is a number.
LEMMA CutsArePlaced ==
    ASSUME NEW cut \in Seq(Cuts), NEW i \in 1..Len(cut) PROVE cut[i].page_number \in Nat
PROOF
<1>1. cut[i] \in Cuts
  BY ElementOfSeq
<1> QED BY <1>1 DEF Cuts

\* One chunk more, seen from the chunks: it is of the page in hand, has text,
\* and ends after the last one of that page.
LEMMA NewChunk ==
    ASSUME TextInv, TakeChunk
    PROVE  LET length == parts[page].length
               chunk == Slice(pages[page])
           IN  /\ page \in 1..Len(parts) /\ length \in Nat /\ pages[page] = length
               /\ start < length
               /\ chunk \in Cuts
               /\ chunk.page_number = page /\ chunk.start = start
               /\ start < chunk.stop /\ chunk.stop <= length
               /\ ReachesEnd(length) => chunk.stop = length
               /\ ~ReachesEnd(length) => /\ chunk.stop = start + MAX_CHUNK_CHARACTERS
                                         /\ chunk.stop < length
               /\ start > 0 => chunk.stop > start + CHUNK_OVERLAP_CHARACTERS
PROOF
<1> DEFINE length == parts[page].length
           chunk == Slice(pages[page])
<1>1. TextTypes /\ PagesInv /\ PlaceInv /\ phase = "chunking" /\ page \in DOMAIN pages
      /\ start < pages[page]
  BY DEF TextInv, TakeChunk
<1>2. /\ page \in 1..Len(parts) /\ pages[page] = length /\ length \in Nat
  <2>1. DOMAIN pages = 1..Len(pages) /\ Len(pages) = Len(parts)
    BY <1>1, LenProperties DEF TextTypes, PagesInv
  <2>2. page \in 1..Len(parts)
    BY <1>1, <2>1
  <2>3. parts[page] \in Parts
    BY <1>1, <2>2, ElementOfSeq DEF TextTypes
  <2>4. length \in Nat
    BY <2>3, PartsAssumption
  <2> QED BY <1>1, <2>2, <2>4 DEF PagesInv
<1>3. start \in Nat /\ page \in Nat
  BY <1>1 DEF TextTypes
<1>4. /\ MAX_CHUNK_CHARACTERS \in Nat /\ CHUNK_OVERLAP_CHARACTERS \in Nat
      /\ CHUNK_OVERLAP_CHARACTERS < MAX_CHUNK_CHARACTERS
  BY ChunkLimitsAssumption
<1>5. start > 0 => start + CHUNK_OVERLAP_CHARACTERS < length
  BY <1>1 DEF PlaceInv
<1>6. chunk = [page_number |-> page, start |-> start,
               stop |-> IF start + MAX_CHUNK_CHARACTERS > length
                        THEN length ELSE start + MAX_CHUNK_CHARACTERS]
  BY <1>2 DEF Slice
<1> HIDE DEF length
<1>7. /\ chunk.page_number = page /\ chunk.start = start
      /\ chunk.stop = IF start + MAX_CHUNK_CHARACTERS > length
                      THEN length ELSE start + MAX_CHUNK_CHARACTERS
  BY <1>6
<1>8. start < length
  BY <1>1, <1>2
<1>9. chunk.stop \in Nat /\ start < chunk.stop /\ chunk.stop <= length
  BY <1>2, <1>3, <1>4, <1>7, <1>8
<1>10. chunk \in Cuts
  BY <1>3, <1>6, <1>7, <1>9 DEF Cuts
<1> HIDE DEF chunk
<1>11. /\ ReachesEnd(length) => chunk.stop = length
       /\ ~ReachesEnd(length) => /\ chunk.stop = start + MAX_CHUNK_CHARACTERS
                                 /\ chunk.stop < length
  BY <1>2, <1>3, <1>4, <1>7 DEF ReachesEnd
<1>12. start > 0 => chunk.stop > start + CHUNK_OVERLAP_CHARACTERS
  BY <1>2, <1>3, <1>4, <1>5, <1>7
<1> QED BY <1>2, <1>7, <1>8, <1>9, <1>10, <1>11, <1>12 DEF chunk, length

\* Text that is covered stays covered by one chunk more.
LEMMA CoveredByMore ==
    ASSUME NEW cut \in Seq(Cuts), NEW chunk \in Cuts, NEW p, NEW n, Covered(cut, p, n)
    PROVE  Covered(Append(cut, chunk), p, n)
PROOF
<1>1. /\ Len(cut) \in Nat /\ Len(Append(cut, chunk)) = Len(cut) + 1
      /\ \A i \in 1..Len(cut) : Append(cut, chunk)[i] = cut[i]
  BY AppendProperties, LenProperties
<1> SUFFICES ASSUME NEW at \in 0..(n - 1)
             PROVE  \E i \in 1..Len(Append(cut, chunk)) : Holds(Append(cut, chunk)[i], p, at)
  BY DEF Covered
<1>2. PICK i \in 1..Len(cut) : Holds(cut[i], p, at)
  BY DEF Covered
<1>3. i \in 1..Len(Append(cut, chunk)) /\ Append(cut, chunk)[i] = cut[i]
  BY <1>1
<1> QED BY <1>2, <1>3

\* What was covered, and a chunk that starts no later than that ends.
LEMMA CoveredTogether ==
    ASSUME NEW cut \in Seq(Cuts), NEW chunk \in Cuts, NEW n \in Nat,
           chunk.start <= n, Covered(cut, chunk.page_number, n)
    PROVE  Covered(Append(cut, chunk), chunk.page_number, chunk.stop)
PROOF
<1> DEFINE p == chunk.page_number
           more == Append(cut, chunk)
<1>1. /\ Len(cut) \in Nat /\ Len(more) = Len(cut) + 1 /\ more[Len(cut) + 1] = chunk
  BY AppendProperties, LenProperties
<1>2. chunk.start \in Nat /\ chunk.stop \in Nat
  BY DEF Cuts
<1>3. Covered(more, p, n)
  BY CoveredByMore
<1> SUFFICES ASSUME NEW at \in 0..(chunk.stop - 1)
             PROVE  \E i \in 1..Len(more) : Holds(more[i], p, at)
  BY DEF Covered
<1>4. CASE at < n
  <2>1. at \in 0..(n - 1)
    BY <1>2, <1>4
  <2> QED BY <1>3, <2>1 DEF Covered
<1>5. CASE ~(at < n)
  <2>1. chunk.start <= at /\ at < chunk.stop
    BY <1>2, <1>5
  <2>2. Len(cut) + 1 \in 1..Len(more) /\ Holds(more[Len(cut) + 1], p, at)
    BY <1>1, <2>1 DEF Holds
  <2> QED BY <2>2
<1> QED BY <1>4, <1>5

\* A chunk more: the invariant of the chunks themselves, and of the pages that
\* were left.
LEMMA TakeChunkHolds ==
    ASSUME TextInv, TakeChunk PROVE TextInv'
PROOF
<1> DEFINE length == parts[page].length
           chunk == Slice(pages[page])
           n == Len(chunks)
<1>1. /\ TextTypes /\ PiecesInv /\ PagesInv /\ CutsInv /\ PlaceInv /\ CoverInv
      /\ NeighboursOverlap /\ phase = "chunking"
  BY DEF TextInv, TakeChunk
<1>2. /\ parts' = parts /\ extracted_text' = extracted_text /\ pages' = pages
      /\ chunks' = Append(chunks, chunk)
  BY DEF TakeChunk, parsed
<1>3. /\ page \in 1..Len(parts) /\ length \in Nat /\ pages[page] = length
      /\ start < length
      /\ chunk \in Cuts
      /\ chunk.page_number = page /\ chunk.start = start
      /\ start < chunk.stop /\ chunk.stop <= length
      /\ ReachesEnd(length) => chunk.stop = length
      /\ ~ReachesEnd(length) => chunk.stop = start + MAX_CHUNK_CHARACTERS
                                /\ chunk.stop < length
      /\ start > 0 => chunk.stop > start + CHUNK_OVERLAP_CHARACTERS
  BY NewChunk
<1>4. \/ phase' = "refused" /\ page' = page /\ start' = start
      \/ ReachesEnd(length) /\ page' = page + 1 /\ start' = 0 /\ phase' = phase
      \/ /\ ~ReachesEnd(length) /\ start' = start + CHUNK_STEP_CHARACTERS
         /\ page' = page /\ phase' = phase
  BY <1>3 DEF TakeChunk
<1> HIDE DEF chunk, length
<1>5. chunks \in Seq(Cuts) /\ n \in Nat /\ page \in Nat \ {0} /\ start \in Nat
      /\ parts \in Seq(Parts) /\ Len(parts) \in Nat
  BY <1>1, LenProperties DEF TextTypes
<1>6. /\ chunks' \in Seq(Cuts) /\ Len(chunks') = n + 1 /\ chunks' # <<>>
      /\ \A i \in 1..n : chunks'[i] = chunks[i]
      /\ chunks'[n + 1] = chunk
  BY <1>2, <1>3, <1>5, AppendProperties
<1>7. /\ MAX_CHUNK_CHARACTERS \in Nat /\ CHUNK_OVERLAP_CHARACTERS \in Nat
      /\ CHUNK_STEP_CHARACTERS \in Nat \ {0}
      /\ CHUNK_STEP_CHARACTERS + CHUNK_OVERLAP_CHARACTERS = MAX_CHUNK_CHARACTERS
  BY ChunkLimitsAssumption DEF CHUNK_STEP_CHARACTERS
<1> HIDE DEF n
<1>8. TextTypes'
  BY <1>1, <1>2, <1>4, <1>5, <1>6, <1>7 DEF TextTypes, TextEnded
<1>9. PiecesInv' /\ PagesInv'
  BY <1>1, <1>2, <1>4, <1>6 DEF PiecesInv, PagesInv
<1>10. CutsInv'
  <2> SUFFICES ASSUME NEW i \in 1..(n + 1) PROVE Within(chunks'[i])
    BY <1>2, <1>6 DEF CutsInv, Within
  <2>1. CASE i \in 1..n
    BY <1>1, <1>6, <2>1 DEF CutsInv, n
  <2>2. CASE i = n + 1
    BY <1>3, <1>6, <2>2 DEF Within, length
  <2> QED BY <1>5, <2>1, <2>2
<1>11. NeighboursOverlap'
  <2> SUFFICES ASSUME NEW i \in 2..(n + 1)
               PROVE  IF chunks'[i].page_number = chunks'[i - 1].page_number
                      THEN /\ chunks'[i - 1].stop - chunks'[i].start = CHUNK_OVERLAP_CHARACTERS
                           /\ chunks'[i].stop > chunks'[i - 1].stop
                      ELSE chunks'[i].page_number > chunks'[i - 1].page_number
                           /\ chunks'[i].start = 0
    BY <1>6 DEF NeighboursOverlap
  <2>1. CASE i \in 2..n
    <3>1. i \in 1..n /\ i - 1 \in 1..n
      BY <1>5, <2>1
    <3>2. chunks'[i] = chunks[i] /\ chunks'[i - 1] = chunks[i - 1]
      BY <1>6, <3>1
    <3> QED BY <1>1, <2>1, <3>2 DEF NeighboursOverlap, n
  <2>2. CASE i = n + 1
    <3>1. n \in 1..n /\ i - 1 = n
      BY <1>5, <2>2
    <3>2. chunks'[i] = chunk /\ chunks'[i - 1] = chunks[n]
      BY <1>6, <2>2, <3>1
    <3>3. CASE start = 0
      <4>1. chunks[n].page_number < page
        BY <1>1, <3>1, <3>3 DEF PlaceInv, n
      <4>2. chunks[n].page_number \in Nat
        BY <1>5, <3>1, CutsArePlaced DEF n
      <4> QED BY <1>3, <1>5, <3>2, <3>3, <4>1, <4>2
    <3>4. CASE start > 0
      <4>1. /\ chunks[n].page_number = page
            /\ chunks[n].stop = start + CHUNK_OVERLAP_CHARACTERS
        BY <1>1, <3>4 DEF PlaceInv, n
      <4> QED BY <1>3, <1>5, <1>7, <3>2, <3>4, <4>1
    <3> QED BY <1>5, <3>3, <3>4
  <2> QED BY <1>5, <2>1, <2>2
<1>12. \A i \in 1..(n + 1) : chunks'[i].page_number \in Nat /\ chunks'[i].page_number <= page
  <2> SUFFICES ASSUME NEW i \in 1..(n + 1)
               PROVE  chunks'[i].page_number \in Nat /\ chunks'[i].page_number <= page
    OBVIOUS
  <2>1. CASE i \in 1..n
    <3>1. chunks'[i] = chunks[i] /\ chunks[i].page_number \in Nat
      BY <1>5, <1>6, <2>1, CutsArePlaced DEF n
    <3> QED BY <1>1, <2>1, <3>1 DEF PlaceInv, n
  <2>2. CASE i = n + 1
    BY <1>3, <1>5, <1>6, <2>2
  <2> QED BY <1>5, <2>1, <2>2
<1>13. \A p \in 1..Len(parts) : p < page => Covered(chunks', p, parts[p].length)
  BY <1>1, <1>2, <1>3, <1>5, CoveredByMore DEF CoverInv
<1>14. Covered(chunks', page, chunk.stop)
  <2>1. CASE start = 0
    <3>1. Covered(chunks, page, 0)
      BY DEF Covered
    <3> QED BY <1>2, <1>3, <1>5, <2>1, <3>1, CoveredTogether
  <2>2. CASE start > 0
    <3>1. Covered(chunks, page, start + CHUNK_OVERLAP_CHARACTERS)
      BY <1>1, <2>2 DEF CoverInv
    <3>2. start + CHUNK_OVERLAP_CHARACTERS \in Nat
          /\ chunk.start <= start + CHUNK_OVERLAP_CHARACTERS
      BY <1>3, <1>5, <1>7
    <3> QED BY <1>2, <1>3, <1>5, <3>1, <3>2, CoveredTogether
  <2> QED BY <1>5, <2>1, <2>2
<1>15. PlaceInv' /\ CoverInv'
  <2>1. CASE phase' = "refused" /\ page' = page /\ start' = start
    BY <2>1 DEF PlaceInv, CoverInv
  <2>2. CASE ReachesEnd(length) /\ page' = page + 1 /\ start' = 0 /\ phase' = phase
    <3>1. PlaceInv'
      BY <1>5, <1>6, <1>12, <2>2 DEF PlaceInv
    <3>2. \A p \in 1..Len(parts) : p < page + 1 => Covered(chunks', p, parts[p].length)
      <4> SUFFICES ASSUME NEW p \in 1..Len(parts), p < page + 1
                   PROVE  Covered(chunks', p, parts[p].length)
        OBVIOUS
      <4>1. p < page \/ p = page
        BY <1>5
      <4>2. CASE p = page
        BY <1>3, <1>14, <2>2, <4>2 DEF length
      <4> QED BY <1>13, <4>1, <4>2
    <3> QED BY <1>2, <2>2, <3>1, <3>2 DEF CoverInv
  <2>3. CASE /\ ~ReachesEnd(length) /\ start' = start + CHUNK_STEP_CHARACTERS
             /\ page' = page /\ phase' = phase
    <3>1. chunk.stop = start' + CHUNK_OVERLAP_CHARACTERS /\ start' > 0
      BY <1>3, <1>5, <1>7, <2>3
    <3>2. PlaceInv'
      BY <1>2, <1>3, <1>5, <1>6, <1>12, <2>3, <3>1 DEF PlaceInv, length
    <3>3. CoverInv'
      BY <1>2, <1>13, <1>14, <2>3, <3>1 DEF CoverInv
    <3> QED BY <3>2, <3>3
  <2> QED BY <1>4, <2>1, <2>2, <2>3
<1> QED BY <1>8, <1>9, <1>10, <1>11, <1>15 DEF TextInv

\* A page without text, and the end of the document.
LEMMA EndPageHolds ==
    ASSUME TextInv, EndPage \/ EndDocument PROVE TextInv'
PROOF
<1>1. /\ TextTypes /\ PiecesInv /\ PagesInv /\ CutsInv /\ PlaceInv /\ CoverInv
      /\ NeighboursOverlap /\ phase = "chunking"
  BY DEF TextInv, EndPage, EndDocument
<1>2. /\ parts' = parts /\ extracted_text' = extracted_text /\ pages' = pages
      /\ chunks' = chunks
  BY DEF EndPage, EndDocument, parsed, cutting
<1>3. PiecesInv' /\ CutsInv' /\ NeighboursOverlap'
  BY <1>1, <1>2 DEF PiecesInv, CutsInv, Within, NeighboursOverlap
<1>4. /\ page \in Nat \ {0} /\ start \in Nat /\ Len(parts) \in Nat
      /\ Len(pages) = Len(parts) /\ DOMAIN pages = 1..Len(parts)
      /\ chunks \in Seq(Cuts)
  BY <1>1, LenProperties DEF TextTypes, PagesInv
<1>5. CASE EndPage
  <2>1. page' = page + 1 /\ start' = 0 /\ phase' = phase /\ page \in 1..Len(parts)
        /\ start >= pages[page]
    BY <1>4, <1>5 DEF EndPage
  <2>2. pages[page] = parts[page].length /\ parts[page].length \in Nat
    <3>1. parts[page] \in Parts
      BY <1>1, <2>1, ElementOfSeq DEF TextTypes
    <3> QED BY <1>1, <2>1, <3>1, PartsAssumption DEF PagesInv
  <2>3. start = 0 /\ parts[page].length = 0
    <3>1. start > 0 => start + CHUNK_OVERLAP_CHARACTERS < parts[page].length
      BY <1>1 DEF PlaceInv
    <3>2. CHUNK_OVERLAP_CHARACTERS \in Nat
      BY ChunkLimitsAssumption
    <3> QED BY <1>4, <2>1, <2>2, <3>1, <3>2
  <2>4. TextTypes' /\ PagesInv'
    BY <1>1, <1>2, <1>4, <2>1 DEF TextTypes, PagesInv
  <2>5. PlaceInv'
    <3>1. \A i \in 1..Len(chunks) : chunks[i].page_number \in Nat
      BY <1>4, CutsArePlaced
    <3>2. \A i \in 1..Len(chunks) : chunks[i].page_number < page
      BY <1>1, <2>3 DEF PlaceInv
    <3> QED BY <1>2, <1>4, <2>1, <3>1, <3>2 DEF PlaceInv
  <2>6. CoverInv'
    <3> SUFFICES ASSUME NEW p \in 1..Len(parts), p < page + 1
                 PROVE  Covered(chunks, p, parts[p].length)
      BY <1>2, <2>1 DEF CoverInv
    <3>1. p < page \/ p = page
      BY <1>4
    <3>2. CASE p = page
      BY <2>3, <3>2 DEF Covered
    <3> QED BY <1>1, <3>1, <3>2 DEF CoverInv
  <2> QED BY <1>3, <2>4, <2>5, <2>6 DEF TextInv
<1>6. CASE EndDocument
  <2>1. /\ page' = page /\ start' = start /\ page > Len(parts)
        /\ phase' = IF chunks = <<>> THEN "refused" ELSE "chunked"
    BY <1>4, <1>6 DEF EndDocument, cutting
  <2>2. TextTypes' /\ PagesInv' /\ PlaceInv'
    BY <1>1, <1>2, <1>4, <2>1 DEF TextTypes, TextEnded, PagesInv, PlaceInv
  <2>3. CoverInv'
    BY <1>1, <1>2, <2>1 DEF CoverInv
  <2> QED BY <1>3, <2>2, <2>3 DEF TextInv
<1> QED BY <1>5, <1>6

\* Every step of the upload and of the chunking, and those of everyone else.
LEMMA NextTextInv ==
    TextInv /\ [SearchNext]_<<vars, searchVars>> => TextInv'
PROOF
<1> SUFFICES ASSUME TextInv, [SearchNext]_<<vars, searchVars>> PROVE TextInv'
  OBVIOUS
<1>1. CASE UNCHANGED textVars
  BY <1>1, TextStays
<1>2. CASE TextNext
  BY <1>2, ParsePageHolds, StoredHolds, TakeChunkHolds, EndPageHolds DEF TextNext
<1>3. ASSUME NEW r \in Indexers, Step(r) \/ Abort(r) PROVE UNCHANGED textVars
  BY <1>3 DEF Step, Begin, Embed, StartDelete, EndDelete, Insert, Put, Mark, Commit, Refused,
              Abort
<1> QED BY <1>1, <1>2, <1>3 DEF SearchNext, Next, Terminated, vars

\* The invariant of the document holds in every reachable state.
THEOREM TextInvariant == SearchSpec => []TextInv
PROOF
<1>1. SearchInit => TextInv
  BY InitTextInv DEF SearchInit, Init
<1> QED BY <1>1, NextTextInv, PTL DEF SearchSpec

\* A chunk cites the page its text is from, for all pages and all limits, also
\* where a page contains the form feeds that _page_texts splits at.
THEOREM ChunksAreOfTheirPage == SearchSpec => []ChunksNameTheirPage
PROOF
<1>1. TextInv => ChunksNameTheirPage
  <2> SUFFICES ASSUME TextInv, NEW i \in DOMAIN chunks
               PROVE  /\ chunks[i].page_number \in DOMAIN parts
                      /\ chunks[i].stop <= parts[chunks[i].page_number].length
    BY DEF ChunksNameTheirPage
  <2>1. DOMAIN chunks = 1..Len(chunks) /\ DOMAIN parts = 1..Len(parts)
    BY LenProperties DEF TextInv, TextTypes
  <2> QED BY <2>1 DEF TextInv, CutsInv, Within
<1> QED BY <1>1, TextInvariant, PTL

\* Every character of a document that was chunked is in a chunk, whatever the
\* lengths of its pages are to MAX_CHUNK_CHARACTERS and to the overlap.
THEOREM TextIsCovered == SearchSpec => []IndexedTextIsCovered
PROOF
<1>1. TextInv => IndexedTextIsCovered
  <2> SUFFICES ASSUME TextInv, phase = "chunked", NEW p \in DOMAIN parts,
                      NEW at \in 0..(parts[p].length - 1)
               PROVE  \E i \in DOMAIN chunks :
                        /\ chunks[i].page_number = p
                        /\ chunks[i].start <= at /\ at < chunks[i].stop
    BY DEF IndexedTextIsCovered
  <2>1. DOMAIN chunks = 1..Len(chunks) /\ DOMAIN parts = 1..Len(parts) /\ Len(parts) \in Nat
        /\ page \in Nat
    BY LenProperties DEF TextInv, TextTypes
  <2>2. p < page
    BY <2>1 DEF TextInv, PagesInv
  <2>3. Covered(chunks, p, parts[p].length)
    BY <2>1, <2>2 DEF TextInv, CoverInv
  <2> QED BY <2>1, <2>3 DEF Covered, Holds
<1> QED BY <1>1, TextInvariant, PTL

\* Neighbours share exactly CHUNK_OVERLAP_CHARACTERS and the later one adds
\* text: no chunk that only repeats the end of the one before it.
THEOREM NeighboursShareTheOverlap == SearchSpec => []NeighboursOverlap
PROOF
<1>1. TextInv => NeighboursOverlap
  BY DEF TextInv
<1> QED BY <1>1, TextInvariant, PTL

-----------------------------------------------------------------------------
(***************************************************************************)
(* The index: what a transaction has deleted and inserted.  The chunk with *)
(* ordinal 0 decides: whoever has inserted its own is the only one, and    *)
(* has deleted all that is committed.                                      *)
(***************************************************************************)

Txns == [at : Places, snapshot : SUBSET [by : Indexers, ordinal : Nat],
         deleted : SUBSET [by : Indexers, ordinal : Nat],
         inserted : SUBSET [by : Indexers, ordinal : Nat]]

\* The first n chunks of a request.
Begun(r, n) == {[by |-> r, ordinal |-> o] : o \in 0..(n - 1)}

\* Nothing, or all the chunks of one request.
OneGeneration(set) == set = {} \/ \E q \in Indexers : set = ChunksOf(q)

\* What a transaction may hold, by the statement it is at.
TxnFits(r, t) ==
    /\ t.at # "idle" => Explored
    /\ t.at = "idle" => t = NoTxn
    /\ t.at \notin {"insert", "mark", "commit"} => t.inserted = {}
    /\ t.at = "insert" =>
          /\ IsFiniteSet(t.inserted) /\ Cardinality(t.inserted) < Len(chunks)
          /\ t.inserted = Begun(r, Cardinality(t.inserted))
    /\ t.at \in {"mark", "commit"} => t.inserted = ChunksOf(r)
    /\ OneGeneration(t.snapshot) /\ OneGeneration(t.deleted)

\* Who has inserted is alone, and has deleted what there was.
AloneInv ==
    /\ \A r \in Indexers : txn[r].inserted # {} => rows \subseteq txn[r].deleted
    /\ \A q, r \in Indexers : txn[q].inserted # {} /\ txn[r].inserted # {} => q = r

IndexInv ==
    /\ txn \in [Indexers -> Txns]
    /\ \A r \in Indexers : TxnFits(r, txn[r])
    /\ rows \subseteq [by : Indexers, ordinal : Nat]
    /\ rows # {} => Explored
    /\ rows = {} => status = "PARSED"
    /\ IndexIsWhole
    /\ AloneInv

-----------------------------------------------------------------------------
\* A document that is explored has a first chunk.
LEMMA FirstChunk ==
    ASSUME TextInv, Explored
    PROVE  /\ Len(chunks) \in Nat \ {0} /\ 0 \in Ordinals /\ Ordinals \subseteq Nat
           /\ \A q \in Indexers : [by |-> q, ordinal |-> 0] \in ChunksOf(q)
PROOF
<1>1. chunks \in Seq(Cuts) /\ chunks # <<>>
  BY DEF TextInv, TextTypes, PagesInv, Explored
<1>2. Len(chunks) \in Nat \ {0}
  BY <1>1, EmptySeq
<1>3. 0 \in Ordinals /\ Ordinals \subseteq Nat
  BY <1>2 DEF Ordinals
<1> QED BY <1>2, <1>3 DEF ChunksOf

\* Inserting the next chunk.
LEMMA BegunGrows ==
    ASSUME NEW r, NEW set, IsFiniteSet(set), set = Begun(r, Cardinality(set))
    PROVE  LET n == Cardinality(set)
               more == set \cup {[by |-> r, ordinal |-> n]}
           IN  /\ n \in Nat /\ IsFiniteSet(more) /\ Cardinality(more) = n + 1
               /\ more = Begun(r, n + 1)
PROOF
<1> DEFINE n == Cardinality(set)
           new == [by |-> r, ordinal |-> n]
           more == set \cup {new}
<1>1. n \in Nat
  BY FS_CardinalityType
<1>2. new \notin set
  <2> SUFFICES ASSUME new \in set PROVE FALSE
    OBVIOUS
  <2>1. PICK o \in 0..(n - 1) : new = [by |-> r, ordinal |-> o]
    BY DEF Begun
  <2>2. new.ordinal = o /\ new.ordinal = n
    <3> HIDE DEF n
    <3> QED BY <2>1
  <2> HIDE DEF n
  <2> QED BY <1>1, <2>2
<1>3. IsFiniteSet(more) /\ Cardinality(more) = n + 1
  BY <1>2, FS_AddElement
<1>4. more = Begun(r, n + 1)
  <2>1. 0..n = 0..(n - 1) \cup {n} /\ (n + 1) - 1 = n
    BY <1>1
  <2>2. set = {[by |-> r, ordinal |-> o] : o \in 0..(n - 1)}
    BY DEF Begun
  <2> HIDE DEF n
  <2>3. Begun(r, n + 1) = {[by |-> r, ordinal |-> o] : o \in 0..n}
    BY <2>1 DEF Begun
  <2> QED BY <2>1, <2>2, <2>3
<1> QED BY <1>1, <1>3, <1>4

\* All of them are the chunks of the request; if there are any, the first is
\* among them.
LEMMA BegunIsAll ==
    ASSUME NEW r
    PROVE  /\ Begun(r, Len(chunks)) = ChunksOf(r)
           /\ \A n \in Nat \ {0} : [by |-> r, ordinal |-> 0] \in Begun(r, n)
PROOF
<1>1. Begun(r, Len(chunks)) \subseteq ChunksOf(r)
  BY DEF Begun, ChunksOf, Ordinals
<1>2. ASSUME NEW c \in ChunksOf(r) PROVE c \in Begun(r, Len(chunks))
  <2>1. c = [by |-> r, ordinal |-> c.ordinal] /\ c.ordinal \in 0..(Len(chunks) - 1)
    BY DEF ChunksOf, Ordinals
  <2> QED BY <2>1 DEF Begun
<1>3. ASSUME NEW n \in Nat \ {0} PROVE [by |-> r, ordinal |-> 0] \in Begun(r, n)
  <2>1. 0 \in 0..(n - 1)
    OBVIOUS
  <2> QED BY <2>1 DEF Begun
<1> QED BY <1>1, <1>2, <1>3

\* Two generations that share a chunk are the same.
LEMMA SameGeneration ==
    ASSUME NEW set, NEW other, OneGeneration(set), OneGeneration(other),
           NEW c, c \in set, c \in other
    PROVE  set = other
PROOF
<1>1. PICK p \in Indexers : set = ChunksOf(p)
  BY DEF OneGeneration
<1>2. PICK q \in Indexers : other = ChunksOf(q)
  BY DEF OneGeneration
<1>3. c.by = p /\ c.by = q
  BY <1>1, <1>2 DEF ChunksOf
<1> QED BY <1>1, <1>2, <1>3

\* A transaction that has inserted anything has inserted its first chunk.
LEMMA FirstIsInserted ==
    ASSUME TextInv, IndexInv, NEW r \in Indexers, txn[r].inserted # {}
    PROVE  [by |-> r, ordinal |-> 0] \in txn[r].inserted /\ Explored
PROOF
<1>1. txn[r] \in Txns /\ TxnFits(r, txn[r])
  BY DEF IndexInv
<1>2. txn[r].at \in {"insert", "mark", "commit"} /\ Explored
  BY <1>1 DEF TxnFits
<1>3. CASE txn[r].at = "insert"
  <2> DEFINE n == Cardinality(txn[r].inserted)
  <2>1. IsFiniteSet(txn[r].inserted) /\ txn[r].inserted = Begun(r, n)
    BY <1>1, <1>3 DEF TxnFits
  <2>2. n \in Nat \ {0}
    BY <2>1, FS_CardinalityType, FS_EmptySet
  <2> HIDE DEF n
  <2> QED BY <1>2, <2>1, <2>2, BegunIsAll
<1>4. CASE txn[r].at # "insert"
  <2>1. txn[r].inserted = ChunksOf(r)
    BY <1>1, <1>2, <1>4 DEF TxnFits
  <2> QED BY <1>2, <2>1, FirstChunk
<1> QED BY <1>3, <1>4

\* A step of one transaction that commits nothing.
LEMMA TxnMoves ==
    ASSUME IndexInv, NEW r \in Indexers, NEW t \in Txns,
           txn' = [txn EXCEPT ![r] = t], UNCHANGED <<textVars, rows, status>>,
           TxnFits(r, t),
           \/ t.inserted = {}
           \/ t.deleted = txn[r].deleted /\ txn[r].inserted # {}
           \/ rows \subseteq t.deleted /\ \A q \in Indexers \ {r} : txn[q].inserted = {}
    PROVE  IndexInv'
PROOF
<1>1. /\ phase' = phase /\ parts' = parts /\ chunks' = chunks /\ rows' = rows
      /\ status' = status
  BY DEF textVars
<1>2. /\ txn \in [Indexers -> Txns] /\ \A q \in Indexers : TxnFits(q, txn[q])
      /\ rows \subseteq [by : Indexers, ordinal : Nat]
      /\ rows # {} => Explored
      /\ rows = {} => status = "PARSED"
      /\ IndexIsWhole /\ AloneInv
  BY DEF IndexInv
<1>3. /\ txn' \in [Indexers -> Txns] /\ txn'[r] = t
      /\ \A q \in Indexers \ {r} : txn'[q] = txn[q]
  BY <1>2
<1>4. \A q \in Indexers : TxnFits(q, txn'[q])
  BY <1>2, <1>3
<1>5. \A q \in Indexers : TxnFits(q, txn[q])'
  BY <1>1, <1>4 DEF TxnFits, Explored, Begun, OneGeneration, ChunksOf, Ordinals
<1>6. (rows # {} => Explored)' /\ (rows = {} => status = "PARSED")' /\ IndexIsWhole'
  BY <1>1, <1>2 DEF Explored, IndexIsWhole, ChunksOf, Ordinals
<1>7. AloneInv'
  <2>1. /\ \A q \in Indexers : txn[q].inserted # {} => rows \subseteq txn[q].deleted
        /\ \A p, q \in Indexers : txn[p].inserted # {} /\ txn[q].inserted # {} => p = q
    BY <1>2 DEF AloneInv
  <2>2. \A q \in Indexers : txn'[q].inserted # {} => rows \subseteq txn'[q].deleted
    BY <1>3, <2>1
  <2>3. \A p, q \in Indexers : txn'[p].inserted # {} /\ txn'[q].inserted # {} => p = q
    BY <1>3, <2>1
  <2> QED BY <1>1, <2>2, <2>3 DEF AloneInv
<1> QED BY <1>1, <1>2, <1>3, <1>5, <1>6, <1>7 DEF IndexInv

\* A statement that inserts nothing.
LEMMA StatementHolds ==
    ASSUME TextInv, IndexInv, NEW r \in Indexers,
           Begin(r) \/ Embed(r) \/ StartDelete(r) \/ EndDelete(r) \/ Mark(r)
    PROVE  IndexInv'
PROOF
<1> DEFINE old == txn[r]
<1>1. /\ txn \in [Indexers -> Txns] /\ old \in Txns /\ TxnFits(r, old)
      /\ OneGeneration(rows) /\ rows \subseteq [by : Indexers, ordinal : Nat]
  BY DEF IndexInv, IndexIsWhole, OneGeneration
<1>2. UNCHANGED <<textVars, rows, status>>
  BY DEF Begin, Embed, StartDelete, EndDelete, Mark
<1>4. ASSUME NEW at \in Places, txn' = [txn EXCEPT ![r].at = at],
             \/ old.at \in {"idle", "embed"} /\ at \in {"embed", "delete"} /\ Explored
             \/ old.at = "mark" /\ at = "commit"
      PROVE  IndexInv'
  <2> DEFINE t == [old EXCEPT !.at = at]
  <2>1. txn' = [txn EXCEPT ![r] = t]
    BY <1>1, <1>4
  <2>2. /\ t \in Txns /\ t.at = at /\ t.inserted = old.inserted /\ t.deleted = old.deleted
        /\ t.snapshot = old.snapshot
    BY <1>1 DEF Txns
  <2> HIDE DEF t, old
  <2>3. TxnFits(r, t)
    BY <1>1, <1>4, <2>2 DEF TxnFits
  <2>4. t.inserted = {} \/ (t.deleted = old.deleted /\ old.inserted # {})
    BY <2>2
  <2> QED BY <1>2, <2>1, <2>2, <2>3, <2>4, TxnMoves DEF old
<1>5. CASE Begin(r) \/ Embed(r) \/ Mark(r)
  <2>1. old.at = "embed" => Explored
    BY <1>1 DEF TxnFits
  <2> HIDE DEF old
  <2> QED BY <1>4, <1>5, <2>1 DEF Begin, Embed, Mark, Goto, Places, old
<1>6. CASE StartDelete(r)
  <2> DEFINE t == [at |-> "wait", snapshot |-> rows, deleted |-> old.deleted,
                   inserted |-> old.inserted]
  <2>1. old.at = "delete"
    BY <1>6 DEF StartDelete
  <2>2. txn' = [txn EXCEPT ![r] = t]
    <3>1. txn' \in [Indexers -> Txns] /\ \A q \in Indexers \ {r} : txn'[q] = txn[q]
      BY <1>1, <1>6 DEF StartDelete, Txns, Places
    <3>2. /\ txn'[r] \in Txns /\ txn'[r].at = "wait" /\ txn'[r].snapshot = rows
          /\ txn'[r].deleted = old.deleted /\ txn'[r].inserted = old.inserted
      BY <1>1, <1>6, <3>1 DEF StartDelete, Txns
    <3>3. txn'[r] = t
      BY <3>2 DEF Txns
    <3> HIDE DEF t
    <3> QED BY <1>1, <3>1, <3>3
  <2>3. t \in Txns
    BY <1>1 DEF Txns, Places
  <2>4. TxnFits(r, t) /\ t.inserted = {}
    BY <1>1, <2>1 DEF TxnFits
  <2> HIDE DEF t
  <2> QED BY <1>2, <2>2, <2>3, <2>4, TxnMoves
<1>7. CASE EndDelete(r)
  <2> DEFINE t == [at |-> "insert", snapshot |-> old.snapshot,
                   deleted |-> old.snapshot \cap rows, inserted |-> old.inserted]
  <2>1. old.at = "wait"
    BY <1>7 DEF EndDelete
  <2>2. txn' = [txn EXCEPT ![r] = t]
    <3>1. txn' \in [Indexers -> Txns] /\ \A q \in Indexers \ {r} : txn'[q] = txn[q]
      BY <1>1, <1>7 DEF EndDelete, Txns, Places
    <3>2. /\ txn'[r] \in Txns /\ txn'[r].at = "insert" /\ txn'[r].snapshot = old.snapshot
          /\ txn'[r].deleted = old.snapshot \cap rows /\ txn'[r].inserted = old.inserted
      BY <1>1, <1>7, <3>1 DEF EndDelete, Txns
    <3>3. txn'[r] = t
      BY <3>2 DEF Txns
    <3> HIDE DEF t
    <3> QED BY <1>1, <3>1, <3>3
  <2>3. t \in Txns
    BY <1>1 DEF Txns, Places
  <2>4. OneGeneration(old.snapshot \cap rows)
    <3>1. CASE old.snapshot \cap rows = {}
      BY <3>1 DEF OneGeneration
    <3>2. CASE old.snapshot \cap rows # {}
      <4>1. PICK c : c \in old.snapshot /\ c \in rows
        BY <3>2
      <4>2. OneGeneration(old.snapshot)
        BY <1>1 DEF TxnFits
      <4>3. old.snapshot = rows
        BY <1>1, <4>1, <4>2, SameGeneration
      <4> QED BY <1>1, <4>3
    <3> QED BY <3>1, <3>2
  <2>5. old.inserted = {} /\ Explored /\ OneGeneration(old.snapshot)
    BY <1>1, <2>1 DEF TxnFits
  <2>6. IsFiniteSet({}) /\ Cardinality({}) = 0 /\ Begun(r, 0) = {} /\ 0 < Len(chunks)
    BY <2>5, FS_EmptySet, FirstChunk DEF Begun
  <2>7. TxnFits(r, t) /\ t.inserted = {}
    BY <2>4, <2>5, <2>6 DEF TxnFits
  <2> HIDE DEF t
  <2> QED BY <1>2, <2>2, <2>3, <2>7, TxnMoves
<1> QED BY <1>5, <1>6, <1>7

\* One INSERT.  The first of a transaction finds ordinal 0 free: nobody else
\* has inserted, and what is committed is what the transaction has deleted.
LEMMA InsertHolds ==
    ASSUME TextInv, IndexInv, NEW r \in Indexers, Insert(r) PROVE IndexInv'
PROOF
<1> DEFINE old == txn[r]
           n == Cardinality(old.inserted)
           new == [by |-> r, ordinal |-> n]
           more == old.inserted \cup {new}
           t == [at |-> IF more = ChunksOf(r) THEN "mark" ELSE "insert",
                 snapshot |-> old.snapshot, deleted |-> old.deleted, inserted |-> more]
<1>1. /\ txn \in [Indexers -> Txns] /\ old \in Txns /\ TxnFits(r, old)
      /\ OneGeneration(rows)
  BY DEF IndexInv, IndexIsWhole, OneGeneration
<1>2. /\ old.at = "insert" /\ Explored
      /\ IsFiniteSet(old.inserted) /\ n < Len(chunks) /\ old.inserted = Begun(r, n)
      /\ OneGeneration(old.snapshot) /\ OneGeneration(old.deleted)
  BY <1>1 DEF Insert, TxnFits
<1>3. UNCHANGED <<textVars, rows, status>> /\ txn' = [txn EXCEPT ![r] = t]
  <2> DEFINE at == IF more = ChunksOf(r) THEN "mark" ELSE "insert"
  <2>1. /\ UNCHANGED <<textVars, rows, status>>
        /\ txn' = [txn EXCEPT ![r].inserted = more, ![r].at = at]
    BY DEF Insert, Put, NextOrdinal
  <2>2. n \in Nat /\ new \in [by : Indexers, ordinal : Nat]
    BY <1>2, FS_CardinalityType
  <2>3. more \in SUBSET [by : Indexers, ordinal : Nat] /\ at \in Places
    BY <1>1, <2>2 DEF Txns, Places
  <2> HIDE DEF more, at
  <2>4. txn' \in [Indexers -> Txns] /\ \A q \in Indexers \ {r} : txn'[q] = txn[q]
    BY <1>1, <2>1, <2>3 DEF Txns
  <2>5. /\ txn'[r] \in Txns /\ txn'[r].at = at /\ txn'[r].snapshot = old.snapshot
        /\ txn'[r].deleted = old.deleted /\ txn'[r].inserted = more
    BY <1>1, <2>1, <2>4 DEF Txns
  <2>6. txn'[r] = t
    BY <2>5 DEF Txns, at
  <2> HIDE DEF t
  <2> QED BY <1>1, <2>1, <2>4, <2>6
<1>4. /\ n \in Nat /\ IsFiniteSet(more) /\ Cardinality(more) = n + 1
      /\ more = Begun(r, n + 1)
  BY <1>2, BegunGrows
<1>5. t \in Txns
  BY <1>1, <1>4 DEF Txns, Places
<1>6. Len(chunks) \in Nat
  BY <1>2, FirstChunk
<1>7. more # ChunksOf(r) => n + 1 < Len(chunks)
  <2>1. n + 1 = Len(chunks) => more = ChunksOf(r)
    BY <1>4, BegunIsAll
  <2> HIDE DEF n, more
  <2> QED BY <1>2, <1>4, <1>6, <2>1
<1>8. TxnFits(r, t)
  <2> HIDE DEF more, n, old
  <2> QED BY <1>2, <1>4, <1>7 DEF TxnFits
<1>9. CASE old.inserted # {}
  <2> QED BY <1>3, <1>5, <1>8, <1>9, TxnMoves
<1>10. CASE old.inserted = {}
  <2>1. n = 0
    BY <1>10, FS_EmptySet
  <2>2. ~InFlight(r, 0) /\ ~Conflict(r, 0)
    BY <2>1 DEF Insert, NextOrdinal
  <2>3. \A q \in Indexers \ {r} : txn[q].inserted = {}
    <3> SUFFICES ASSUME NEW q \in Indexers \ {r}, txn[q].inserted # {} PROVE FALSE
      OBVIOUS
    <3>1. [by |-> q, ordinal |-> 0] \in txn[q].inserted
      BY FirstIsInserted
    <3> QED BY <2>2, <3>1 DEF InFlight
  <2>4. rows \subseteq old.deleted
    <3>1. CASE rows = {}
      BY <3>1
    <3>2. CASE rows # {}
      <4>1. PICK q \in Indexers : rows = ChunksOf(q)
        BY <1>1, <3>2 DEF OneGeneration
      <4>2. [by |-> q, ordinal |-> 0] \in rows
        BY <1>2, <4>1, FirstChunk
      <4>3. [by |-> q, ordinal |-> 0] \in old.deleted
        BY <2>2, <4>2 DEF Conflict
      <4>4. rows = old.deleted
        BY <1>1, <1>2, <4>2, <4>3, SameGeneration
      <4> QED BY <4>4
    <3> QED BY <3>1, <3>2
  <2>5. rows \subseteq t.deleted
    BY <2>4
  <2> QED BY <1>3, <1>5, <1>8, <2>3, <2>5, TxnMoves
<1> QED BY <1>9, <1>10

\* The end of a transaction that leaves nothing behind.
LEMMA RollbackHolds ==
    ASSUME TextInv, IndexInv, NEW r \in Indexers, Refused(r) \/ Abort(r) PROVE IndexInv'
PROOF
<1> DEFINE t == [at |-> "failed", snapshot |-> {}, deleted |-> {}, inserted |-> {}]
<1>1. /\ txn \in [Indexers -> Txns] /\ TxnFits(r, txn[r])
  BY DEF IndexInv
<1>2. UNCHANGED <<textVars, rows, status>> /\ txn' = [txn EXCEPT ![r] = t]
      /\ txn[r].at # "idle"
  BY DEF Refused, Abort, End, NoTxn, Open
<1>3. t \in Txns
  BY DEF Txns, Places
<1>4. TxnFits(r, t)
  BY <1>1, <1>2 DEF TxnFits, OneGeneration
<1> QED BY <1>2, <1>3, <1>4, TxnMoves

\* The commit puts one generation in the place of the other.
LEMMA CommitHolds ==
    ASSUME TextInv, IndexInv, NEW r \in Indexers, Commit(r) PROVE IndexInv'
PROOF
<1> DEFINE old == txn[r]
           t == [at |-> "indexed", snapshot |-> {}, deleted |-> {}, inserted |-> {}]
<1>1. /\ txn \in [Indexers -> Txns] /\ old \in Txns
      /\ \A q \in Indexers : TxnFits(q, txn[q])
      /\ AloneInv
  BY DEF IndexInv
<1>2. /\ phase' = phase /\ parts' = parts /\ chunks' = chunks
      /\ rows' = (rows \ old.deleted) \cup old.inserted /\ status' = "INDEXED"
      /\ txn' = [txn EXCEPT ![r] = t] /\ old.at = "commit"
  <2>1. UNCHANGED textVars /\ t = [NoTxn EXCEPT !.at = "indexed"]
    BY DEF Commit, NoTxn
  <2> HIDE DEF t
  <2> QED BY <2>1 DEF Commit, End, textVars
<1>3. Explored /\ old.inserted = ChunksOf(r)
  BY <1>1, <1>2 DEF TxnFits
<1>4. old.inserted # {}
  BY <1>3, FirstChunk
<1>5. rows' = ChunksOf(r)
  <2>1. rows \subseteq old.deleted
    BY <1>1, <1>4 DEF AloneInv
  <2> QED BY <1>2, <1>3, <2>1
<1>6. /\ txn' \in [Indexers -> Txns] /\ txn'[r] = t
      /\ \A q \in Indexers \ {r} : txn'[q] = txn[q]
  <2>1. t \in Txns
    BY DEF Txns, Places
  <2> HIDE DEF t
  <2> QED BY <1>1, <1>2, <2>1
<1>7. \A q \in Indexers : txn'[q].inserted = {}
  BY <1>1, <1>4, <1>6 DEF AloneInv
<1>8. \A q \in Indexers : TxnFits(q, txn'[q])
  <2>1. TxnFits(r, t)
    BY <1>3 DEF TxnFits, OneGeneration
  <2> HIDE DEF t
  <2> QED BY <1>1, <1>6, <2>1
<1>9. \A q \in Indexers : TxnFits(q, txn[q])'
  BY <1>2, <1>8 DEF TxnFits, Explored, Begun, OneGeneration, ChunksOf, Ordinals
<1>10. AloneInv'
  BY <1>7 DEF AloneInv
<1>11. IndexIsWhole' /\ Explored'
  BY <1>2, <1>3, <1>5 DEF IndexIsWhole, Explored, ChunksOf, Ordinals
<1>12. rows' \subseteq [by : Indexers, ordinal : Nat]
  BY <1>3, <1>5, FirstChunk DEF ChunksOf
<1>13. rows' # {}
  BY <1>3, <1>5, FirstChunk
<1> QED BY <1>6, <1>9, <1>10, <1>11, <1>12, <1>13 DEF IndexInv

\* While the document is read and cut nobody has anything of an index.
LEMMA TextStepHolds ==
    ASSUME TextInv, IndexInv, TextNext, UNCHANGED <<rows, status, txn>> PROVE IndexInv'
PROOF
<1>1. ~Explored
  BY DEF Explored, TextNext, ParsePage, EndParse, SplitPages, TakeChunk, EndPage, EndDocument
<1>2. /\ txn \in [Indexers -> Txns] /\ \A q \in Indexers : TxnFits(q, txn[q])
      /\ rows \subseteq [by : Indexers, ordinal : Nat] /\ rows = {} /\ IndexIsWhole /\ AloneInv
  BY <1>1 DEF IndexInv
<1>3. rows' = rows /\ status' = status /\ txn' = txn
  OBVIOUS
<1>4. status = "PARSED" /\ \A q \in Indexers : txn[q] = NoTxn
  BY <1>1, <1>2 DEF IndexInv, TxnFits
<1>5. \A q \in Indexers : TxnFits(q, NoTxn)'
  BY DEF TxnFits, NoTxn, OneGeneration
<1>6. IndexIsWhole' /\ AloneInv'
  BY <1>2, <1>3, <1>4 DEF IndexIsWhole, AloneInv, NoTxn
<1> QED BY <1>2, <1>3, <1>4, <1>5, <1>6 DEF IndexInv

-----------------------------------------------------------------------------
\* Nothing is indexed.
LEMMA InitIndexInv == Init => IndexInv
PROOF
<1> SUFFICES ASSUME Init PROVE IndexInv
  OBVIOUS
<1>1. rows = {} /\ status = "PARSED" /\ txn = [r \in Indexers |-> NoTxn]
  BY DEF Init
<1>2. NoTxn \in Txns
  BY DEF Txns, NoTxn, Places
<1>3. \A r \in Indexers : TxnFits(r, NoTxn) /\ NoTxn.inserted = {}
  BY DEF TxnFits, NoTxn, OneGeneration
<1> QED BY <1>1, <1>2, <1>3 DEF IndexInv, IndexIsWhole, AloneInv

\* A search, or nothing at all, leaves the index as it is.
LEMMA IndexStays ==
    ASSUME IndexInv, UNCHANGED vars PROVE IndexInv'
PROOF
<1>1. /\ phase' = phase /\ parts' = parts /\ chunks' = chunks
      /\ rows' = rows /\ status' = status /\ txn' = txn
  BY DEF vars, textVars
<1> QED BY <1>1 DEF IndexInv, TxnFits, Explored, Begun, OneGeneration, ChunksOf, Ordinals,
                    IndexIsWhole, AloneInv

\* Every step keeps the invariant.
LEMMA NextIndexInv ==
    ASSUME TextInv, IndexInv, [SearchNext]_<<vars, searchVars>> PROVE IndexInv'
PROOF
<1>1. CASE UNCHANGED vars
  BY <1>1, IndexStays
<1>2. CASE TextNext /\ UNCHANGED <<rows, status, txn>>
  BY <1>2, TextStepHolds
<1>3. ASSUME NEW r \in Indexers, Step(r) \/ Abort(r) PROVE IndexInv'
  BY <1>3, StatementHolds, InsertHolds, RollbackHolds, CommitHolds DEF Step
<1>4. CASE Terminated
  BY <1>4, IndexStays DEF Terminated
<1> QED BY <1>1, <1>2, <1>3, <1>4 DEF SearchNext, Next

\* Whatever requests index the document at the same time, and wherever they
\* fail, whoever reads its chunks finds none or all those of one request.
THEOREM IndexStaysWhole == SearchSpec => []IndexIsWhole
PROOF
<1>1. SearchInit => TextInv /\ IndexInv
  BY InitTextInv, InitIndexInv DEF SearchInit, Init
<1>2. TextInv /\ IndexInv /\ [SearchNext]_<<vars, searchVars>> => IndexInv'
  BY NextIndexInv
<1>3. IndexInv => IndexIsWhole
  BY DEF IndexInv
<1> QED BY <1>1, <1>2, <1>3, TextInvariant, PTL DEF SearchSpec

-----------------------------------------------------------------------------
(***************************************************************************)
(* Ranks in a finite set with a strict total order, given as the elements  *)
(* before each element.                                                    *)
(***************************************************************************)

TotallyOrders(before, S) ==
    /\ before \in [S -> SUBSET S]
    /\ \A x \in S : x \notin before[x]
    /\ \A x, y \in S : y \in before[x] => before[y] \subseteq before[x]
    /\ \A x, y \in S : x # y => x \in before[y] \/ y \in before[x]

\* Every position is the rank of one element.
LEMMA RanksInOrder ==
    ASSUME NEW S, IsFiniteSet(S), NEW before, TotallyOrders(before, S)
    PROVE  /\ \A x \in S : /\ IsFiniteSet(before[x])
                           /\ Cardinality(before[x]) \in 0..(Cardinality(S) - 1)
           /\ \A x, y \in S : y \in before[x] => Cardinality(before[y]) < Cardinality(before[x])
           /\ \A x, y \in S : Cardinality(before[x]) = Cardinality(before[y]) => x = y
           /\ \A n \in 1..Cardinality(S) : \E x \in S : Cardinality(before[x]) = n - 1
PROOF
<1> DEFINE size == Cardinality(S)
           rank == [x \in S |-> Cardinality(before[x])]
<1>1. /\ before \in [S -> SUBSET S] /\ \A x \in S : x \notin before[x]
      /\ \A x, y \in S : y \in before[x] => before[y] \subseteq before[x]
      /\ \A x, y \in S : x # y => x \in before[y] \/ y \in before[x]
  BY DEF TotallyOrders
<1>2. size \in Nat
  BY FS_CardinalityType
<1>3. ASSUME NEW x \in S
      PROVE  IsFiniteSet(before[x]) /\ Cardinality(before[x]) \in 0..(size - 1)
  <2>1. IsFiniteSet(S \ {x}) /\ Cardinality(S \ {x}) = size - 1
    BY FS_RemoveElement
  <2>2. before[x] \in SUBSET (S \ {x})
    BY <1>1
  <2>3. IsFiniteSet(before[x]) /\ Cardinality(before[x]) <= size - 1
    BY <2>1, <2>2, FS_Subset
  <2>4. Cardinality(before[x]) \in Nat
    BY <2>3, FS_CardinalityType
  <2> QED BY <1>2, <2>3, <2>4
<1>4. ASSUME NEW x \in S, NEW y \in S, y \in before[x]
      PROVE  Cardinality(before[y]) < Cardinality(before[x])
  <2>1. before[y] \in SUBSET before[x] /\ before[y] # before[x]
    BY <1>1, <1>4
  <2>2. IsFiniteSet(before[x])
    BY <1>3
  <2>3. /\ Cardinality(before[y]) <= Cardinality(before[x])
        /\ Cardinality(before[x]) # Cardinality(before[y])
    BY <2>1, <2>2, FS_Subset
  <2>4. Cardinality(before[x]) \in Nat /\ Cardinality(before[y]) \in Nat
    BY <1>3
  <2> QED BY <2>3, <2>4
<1>5. ASSUME NEW x \in S, NEW y \in S, Cardinality(before[x]) = Cardinality(before[y])
      PROVE  x = y
  <2> SUFFICES ASSUME x # y PROVE FALSE
    OBVIOUS
  <2>1. Cardinality(before[x]) \in Nat /\ Cardinality(before[y]) \in Nat
    BY <1>3
  <2>2. \/ Cardinality(before[x]) < Cardinality(before[y])
        \/ Cardinality(before[y]) < Cardinality(before[x])
    BY <1>1, <1>4
  <2> QED BY <1>5, <2>1, <2>2
<1>6. rank \in Injection(S, 0..(size - 1))
  BY <1>3, <1>5 DEF Injection, IsInjective
<1>7. IsFiniteSet(0..(size - 1)) /\ Cardinality(0..(size - 1)) = size
  <2>1. 0 \in Int /\ size - 1 \in Int
    BY <1>2
  <2> HIDE DEF size
  <2> QED BY <1>2, <2>1, FS_Interval
<1>8. rank \in Surjection(S, 0..(size - 1))
  BY <1>6, <1>7, FS_Injection
<1>9. ASSUME NEW n \in 1..size PROVE \E x \in S : Cardinality(before[x]) = n - 1
  <2>1. n - 1 \in 0..(size - 1)
    BY <1>2
  <2>2. \E x \in S : rank[x] = n - 1
    BY <1>8, <2>1 DEF Surjection
  <2> QED BY <2>2
<1> QED BY <1>3, <1>4, <1>5, <1>9

-----------------------------------------------------------------------------
(***************************************************************************)
(* The order of the entries: fractions, then ids.                          *)
(***************************************************************************)

\* Multiplying by a positive number changes no comparison.
LEMMA ScaledComparison ==
    ASSUME NEW a \in Int, NEW b \in Int, NEW c \in Int, c > 0
    PROVE  (a * c >= b * c <=> a >= b) /\ (a * c > b * c <=> a > b)
PROOF
<1>1. a * c - b * c = (a - b) * c
  OBVIOUS
<1>2. ASSUME a > b PROVE (a - b) * c > 0
  BY <1>2
<1>3. ASSUME a < b PROVE (b - a) * c > 0
  BY <1>3
<1>4. (b - a) * c = b * c - a * c
  OBVIOUS
<1>5. a * c \in Int /\ b * c \in Int
  OBVIOUS
<1>6. CASE a > b
  BY <1>1, <1>2, <1>5, <1>6
<1>7. CASE a < b
  BY <1>3, <1>4, <1>5, <1>7
<1>8. CASE a = b
  BY <1>5, <1>8
<1> QED BY <1>6, <1>7, <1>8

\* Comparing fractions is transitive.
LEMMA FractionsChain ==
    ASSUME NEW an \in Nat, NEW bn \in Nat, NEW cn \in Nat,
           NEW ad \in Nat \ {0}, NEW bd \in Nat \ {0}, NEW cd \in Nat \ {0},
           an * bd >= bn * ad, bn * cd >= cn * bd
    PROVE  /\ an * cd >= cn * ad
           /\ an * bd > bn * ad \/ bn * cd > cn * bd => an * cd > cn * ad
PROOF
<1>1. /\ an * bd \in Int /\ bn * ad \in Int /\ bn * cd \in Int /\ cn * bd \in Int
      /\ an * cd \in Int /\ cn * ad \in Int
  OBVIOUS
<1>2. (an * bd) * cd >= (bn * ad) * cd
  BY <1>1, ScaledComparison
<1>3. (bn * cd) * ad >= (cn * bd) * ad
  BY <1>1, ScaledComparison
<1>4. /\ (an * bd) * cd = (an * cd) * bd
      /\ (bn * ad) * cd = (bn * cd) * ad
      /\ (cn * bd) * ad = (cn * ad) * bd
  OBVIOUS
<1>5. (an * cd) * bd \in Int /\ (bn * cd) * ad \in Int /\ (cn * ad) * bd \in Int
  OBVIOUS
<1>6. (an * cd) * bd >= (cn * ad) * bd
  BY <1>2, <1>3, <1>4, <1>5
<1>7. ASSUME an * bd > bn * ad \/ bn * cd > cn * bd
      PROVE  (an * cd) * bd > (cn * ad) * bd
  <2>1. CASE an * bd > bn * ad
    <3>1. (an * bd) * cd > (bn * ad) * cd
      BY <1>1, <2>1, ScaledComparison
    <3> QED BY <1>3, <1>4, <1>5, <3>1
  <2>2. CASE bn * cd > cn * bd
    <3>1. (bn * cd) * ad > (cn * bd) * ad
      BY <1>1, <2>2, ScaledComparison
    <3> QED BY <1>2, <1>4, <1>5, <3>1
  <2> QED BY <1>7, <2>1, <2>2
<1> QED BY <1>1, <1>6, <1>7, ScaledComparison

\* A sum is larger when neither part is smaller and one is larger.
LEMMA FractionsAdd ==
    ASSUME NEW an \in Nat, NEW bn \in Nat, NEW cn \in Nat, NEW dn \in Nat,
           NEW ad \in Nat \ {0}, NEW bd \in Nat \ {0},
           NEW cd \in Nat \ {0}, NEW dd \in Nat \ {0},
           an * bd >= bn * ad, cn * dd >= dn * cd,
           an * bd > bn * ad \/ cn * dd > dn * cd
    PROVE  (an * cd + cn * ad) * (bd * dd) > (bn * dd + dn * bd) * (ad * cd)
PROOF
<1>1. /\ an * bd \in Int /\ bn * ad \in Int /\ cn * dd \in Int /\ dn * cd \in Int
      /\ cd * dd \in Int /\ cd * dd > 0 /\ ad * bd \in Int /\ ad * bd > 0
  OBVIOUS
<1>2. (an * bd) * (cd * dd) >= (bn * ad) * (cd * dd)
  BY <1>1, ScaledComparison
<1>3. (cn * dd) * (ad * bd) >= (dn * cd) * (ad * bd)
  BY <1>1, ScaledComparison
<1>4. \/ (an * bd) * (cd * dd) > (bn * ad) * (cd * dd)
      \/ (cn * dd) * (ad * bd) > (dn * cd) * (ad * bd)
  BY <1>1, ScaledComparison
<1>5. /\ (an * bd) * (cd * dd) \in Int /\ (bn * ad) * (cd * dd) \in Int
      /\ (cn * dd) * (ad * bd) \in Int /\ (dn * cd) * (ad * bd) \in Int
  OBVIOUS
<1>6. /\ (an * cd + cn * ad) * (bd * dd) = (an * bd) * (cd * dd) + (cn * dd) * (ad * bd)
      /\ (bn * dd + dn * bd) * (ad * cd) = (bn * ad) * (cd * dd) + (dn * cd) * (ad * bd)
  OBVIOUS
<1> QED BY <1>2, <1>3, <1>4, <1>5, <1>6

-----------------------------------------------------------------------------
(***************************************************************************)
(* Entries and their order.                                                *)
(***************************************************************************)

Entries(vector, lexical) ==
    {Entry(vector, lexical, chunk) : chunk \in ToSet(vector) \cup ToSet(lexical)}

RanksOrNone == (Nat \ {0}) \cup {None}

\* A chunk has the rank at which it is found, and none when it is not.
LEMMA RankOf ==
    ASSUME NEW ids \in Seq(Chunks), NEW chunk
    PROVE  /\ chunk \in ToSet(ids) =>
                 Rank(ids, chunk) \in Nat \ {0} /\ ids[Rank(ids, chunk)] = chunk
           /\ chunk \notin ToSet(ids) => Rank(ids, chunk) = None
           /\ Rank(ids, chunk) = None <=> chunk \notin ToSet(ids)
           /\ Rank(ids, chunk) \in RanksOrNone
PROOF
<1>1. DOMAIN ids = 1..Len(ids) /\ Len(ids) \in Nat
  BY LenProperties
<1>2. CASE chunk \in ToSet(ids)
  <2>1. \E i \in DOMAIN ids : ids[i] = chunk
    BY <1>2 DEF ToSet
  <2>2. Rank(ids, chunk) \in DOMAIN ids /\ ids[Rank(ids, chunk)] = chunk
    BY <1>2, <2>1 DEF Rank
  <2>3. Rank(ids, chunk) \in Nat \ {0}
    BY <1>1, <2>2
  <2> QED BY <1>2, <2>2, <2>3, NoneAssumption DEF RanksOrNone
<1>3. CASE chunk \notin ToSet(ids)
  BY <1>3 DEF Rank, RanksOrNone
<1> QED BY <1>2, <1>3

\* A fusion score is a fraction.
LEMMA ScoresAreFractions ==
    ASSUME NEW e, e.vector_rank \in RanksOrNone, e.lexical_rank \in RanksOrNone
    PROVE  FusionScore(e).num \in Nat /\ FusionScore(e).den \in Nat \ {0}
PROOF
<1>1. \A rank \in RanksOrNone : Reciprocal(rank).num \in Nat /\ Reciprocal(rank).den \in Nat \ {0}
  BY LimitsAssumption, NoneAssumption DEF Reciprocal, RanksOrNone
<1>2. \A an, bn \in Nat, ad, bd \in Nat \ {0} :
         an * bd + bn * ad \in Nat /\ ad * bd \in Nat \ {0}
  OBVIOUS
<1> QED BY <1>1, <1>2 DEF FusionScore

\* The fields of an entry.
LEMMA EntryFields ==
    ASSUME NEW vector \in Seq(Chunks), NEW lexical \in Seq(Chunks),
           NEW e \in Entries(vector, lexical)
    PROVE  /\ e = Entry(vector, lexical, e.chunk)
           /\ e.chunk \in ToSet(vector) \cup ToSet(lexical) /\ e.chunk \in Chunks
           /\ e.vector_rank = Rank(vector, e.chunk) /\ e.lexical_rank = Rank(lexical, e.chunk)
           /\ e.vector_rank \in RanksOrNone /\ e.lexical_rank \in RanksOrNone
           /\ FusionScore(e).num \in Nat /\ FusionScore(e).den \in Nat \ {0}
PROOF
<1>1. PICK c \in ToSet(vector) \cup ToSet(lexical) : e = Entry(vector, lexical, c)
  BY DEF Entries
<1>2. /\ e.chunk = c /\ e.vector_rank = Rank(vector, c) /\ e.lexical_rank = Rank(lexical, c)
  BY <1>1 DEF Entry
<1>3. c \in Chunks
  <2>1. \A ids \in Seq(Chunks) : ToSet(ids) \subseteq Chunks
    BY LenProperties, ElementOfSeq DEF ToSet
  <2> QED BY <1>1, <2>1
<1>4. e.vector_rank \in RanksOrNone /\ e.lexical_rank \in RanksOrNone
  BY <1>2, RankOf
<1> QED BY <1>1, <1>2, <1>3, <1>4, ScoresAreFractions

\* There are finitely many.
LEMMA EntriesAreFinite ==
    ASSUME NEW vector \in Seq(Chunks), NEW lexical \in Seq(Chunks)
    PROVE  IsFiniteSet(Entries(vector, lexical))
PROOF
<1>1. ASSUME NEW ids \in Seq(Chunks) PROVE IsFiniteSet(ToSet(ids))
  <2>1. DOMAIN ids = 1..Len(ids) /\ Len(ids) \in Nat /\ ids \in [1..Len(ids) -> Chunks]
    BY LenProperties
  <2>2. IsFiniteSet(1..Len(ids))
    BY <2>1, FS_Interval
  <2>3. ids \in Surjection(1..Len(ids), ToSet(ids))
    BY <2>1 DEF Surjection, ToSet
  <2> QED BY <2>2, <2>3, FS_Surjection DEF ExistsSurjection
<1> DEFINE found == ToSet(vector) \cup ToSet(lexical)
           entry == [c \in found |-> Entry(vector, lexical, c)]
<1>2. IsFiniteSet(found)
  BY <1>1, FS_Union
<1>3. entry \in Surjection(found, Entries(vector, lexical))
  BY DEF Surjection, Entries
<1> QED BY <1>2, <1>3, FS_Surjection DEF ExistsSurjection

\* The sort key is a strict total order of the entries.
LEMMA EntriesAreOrdered ==
    ASSUME NEW vector \in Seq(Chunks), NEW lexical \in Seq(Chunks)
    PROVE  LET S == Entries(vector, lexical)
           IN  /\ \A x \in S : ~Before(x, x)
               /\ \A x, y, z \in S : Before(x, y) /\ Before(y, z) => Before(x, z)
               /\ \A x, y \in S : x # y => Before(x, y) \/ Before(y, x)
PROOF
<1> DEFINE S == Entries(vector, lexical)
<1>1. ASSUME NEW x \in S, NEW y \in S
      PROVE  /\ Before(x, y) <=>
                   LET a == FusionScore(x)
                       b == FusionScore(y)
                   IN  \/ a.num * b.den > b.num * a.den
                       \/ a.num * b.den = b.num * a.den /\ Id(x.chunk) < Id(y.chunk)
             /\ Id(x.chunk) \in Int /\ Id(y.chunk) \in Int
             /\ x # y => Id(x.chunk) # Id(y.chunk)
  <2>1. /\ x = Entry(vector, lexical, x.chunk) /\ y = Entry(vector, lexical, y.chunk)
        /\ x.chunk \in Chunks /\ y.chunk \in Chunks
        /\ FusionScore(x).num \in Nat /\ FusionScore(x).den \in Nat \ {0}
        /\ FusionScore(y).num \in Nat /\ FusionScore(y).den \in Nat \ {0}
    BY EntryFields
  <2>2. Id(x.chunk) \in Int /\ Id(y.chunk) \in Int /\ (x # y => Id(x.chunk) # Id(y.chunk))
    BY <2>1, IdAssumption
  <2>3. \A an, bn \in Nat, ad, bd \in Nat \ {0} :
           /\ an * bd - bn * ad > 0 <=> an * bd > bn * ad
           /\ an * bd - bn * ad = 0 <=> an * bd = bn * ad
    OBVIOUS
  <2>4. /\ Compare(FusionScore(x), FusionScore(y)) > 0 <=>
             FusionScore(x).num * FusionScore(y).den > FusionScore(y).num * FusionScore(x).den
        /\ Compare(FusionScore(x), FusionScore(y)) = 0 <=>
             FusionScore(x).num * FusionScore(y).den = FusionScore(y).num * FusionScore(x).den
    <3> DEFINE an == FusionScore(x).num
               ad == FusionScore(x).den
               bn == FusionScore(y).num
               bd == FusionScore(y).den
    <3>1. Compare(FusionScore(x), FusionScore(y)) = an * bd - bn * ad
      BY DEF Compare
    <3>2. an \in Nat /\ bn \in Nat /\ ad \in Nat \ {0} /\ bd \in Nat \ {0}
      BY <2>1
    <3> HIDE DEF an, ad, bn, bd
    <3>3. /\ Compare(FusionScore(x), FusionScore(y)) > 0 <=> an * bd > bn * ad
          /\ Compare(FusionScore(x), FusionScore(y)) = 0 <=> an * bd = bn * ad
      BY <2>3, <3>1, <3>2
    <3> QED BY <3>3 DEF an, ad, bn, bd
  <2> QED BY <2>2, <2>4 DEF Before
<1>2. \A x \in S : ~Before(x, x)
  <2> SUFFICES ASSUME NEW x \in S, Before(x, x) PROVE FALSE
    OBVIOUS
  <2>1. FusionScore(x).num \in Nat /\ FusionScore(x).den \in Nat \ {0}
    BY EntryFields
  <2> QED BY <1>1, <2>1
<1>3. ASSUME NEW x \in S, NEW y \in S, x # y PROVE Before(x, y) \/ Before(y, x)
  <2>1. /\ FusionScore(x).num \in Nat /\ FusionScore(x).den \in Nat \ {0}
        /\ FusionScore(y).num \in Nat /\ FusionScore(y).den \in Nat \ {0}
    BY EntryFields
  <2>2. \A an, bn \in Nat, ad, bd \in Nat \ {0} :
           an * bd > bn * ad \/ bn * ad > an * bd \/ an * bd = bn * ad
    OBVIOUS
  <2>3. \/ FusionScore(x).num * FusionScore(y).den > FusionScore(y).num * FusionScore(x).den
        \/ FusionScore(y).num * FusionScore(x).den > FusionScore(x).num * FusionScore(y).den
        \/ FusionScore(x).num * FusionScore(y).den = FusionScore(y).num * FusionScore(x).den
    BY <2>1, <2>2
  <2>4. Id(x.chunk) < Id(y.chunk) \/ Id(y.chunk) < Id(x.chunk)
    BY <1>1, <1>3
  <2> QED BY <1>1, <2>3, <2>4
<1>4. ASSUME NEW x \in S, NEW y \in S, NEW z \in S, Before(x, y), Before(y, z)
      PROVE  Before(x, z)
  <2> DEFINE an == FusionScore(x).num
             ad == FusionScore(x).den
             bn == FusionScore(y).num
             bd == FusionScore(y).den
             cn == FusionScore(z).num
             cd == FusionScore(z).den
  <2>1. /\ an \in Nat /\ ad \in Nat \ {0} /\ bn \in Nat /\ bd \in Nat \ {0}
        /\ cn \in Nat /\ cd \in Nat \ {0}
    BY EntryFields
  <2>2. /\ an * bd > bn * ad \/ (an * bd = bn * ad /\ Id(x.chunk) < Id(y.chunk))
        /\ bn * cd > cn * bd \/ (bn * cd = cn * bd /\ Id(y.chunk) < Id(z.chunk))
    BY <1>1, <1>4
  <2>3. Before(x, z) <=> an * cd > cn * ad \/ (an * cd = cn * ad /\ Id(x.chunk) < Id(z.chunk))
    BY <1>1
  <2>4. Id(x.chunk) \in Int /\ Id(y.chunk) \in Int /\ Id(z.chunk) \in Int
    BY <1>1
  <2> HIDE DEF an, ad, bn, bd, cn, cd
  <2>5. an * bd >= bn * ad /\ bn * cd >= cn * bd
    BY <2>1, <2>2
  <2>6. /\ an * cd >= cn * ad
        /\ an * bd > bn * ad \/ bn * cd > cn * bd => an * cd > cn * ad
    BY <2>1, <2>5, FractionsChain
  <2>7. an * cd \in Int /\ cn * ad \in Int
    BY <2>1
  <2> QED BY <2>2, <2>3, <2>4, <2>6, <2>7
<1> QED BY <1>2, <1>3, <1>4

-----------------------------------------------------------------------------
(***************************************************************************)
(* Fusion.                                                                 *)
(***************************************************************************)

\* All the entries can be sorted.
LEMMA SortedEntries ==
    ASSUME NEW vector \in Seq(Chunks), NEW lexical \in Seq(Chunks)
    PROVE  LET S == Entries(vector, lexical)
               order == Sorted(S)
           IN  /\ Cardinality(S) \in Nat
               /\ order \in [1..Cardinality(S) -> S]
               /\ \A i, j \in 1..Cardinality(S) : i # j => order[i] # order[j]
               /\ \A e \in S : \E i \in 1..Cardinality(S) : order[i] = e
               /\ \A i, j \in 1..Cardinality(S) : Before(order[i], order[j]) => i < j
PROOF
<1> DEFINE S == Entries(vector, lexical)
           size == Cardinality(S)
           before == [e \in S |-> {d \in S : Before(d, e)}]
           ranked == [n \in 1..size |-> CHOOSE e \in S : Cardinality(before[e]) = n - 1]
           order == Sorted(S)
<1>1. IsFiniteSet(S)
  BY EntriesAreFinite
<1>2. size \in Nat
  BY <1>1, FS_CardinalityType
<1>3. /\ \A x \in S : ~Before(x, x)
      /\ \A x, y, z \in S : Before(x, y) /\ Before(y, z) => Before(x, z)
      /\ \A x, y \in S : x # y => Before(x, y) \/ Before(y, x)
  BY EntriesAreOrdered
<1> HIDE DEF S
<1>4. TotallyOrders(before, S)
  BY <1>3 DEF TotallyOrders
<1>5. /\ \A x \in S : Cardinality(before[x]) \in 0..(size - 1)
      /\ \A x, y \in S : y \in before[x] => Cardinality(before[y]) < Cardinality(before[x])
      /\ \A n \in 1..size : \E x \in S : Cardinality(before[x]) = n - 1
  <2> HIDE DEF before
  <2> QED BY <1>1, <1>4, RanksInOrder
<1>6. \A n \in 1..size : ranked[n] \in S /\ Cardinality(before[ranked[n]]) = n - 1
  <2>1. \A n \in 1..size : ranked[n] = CHOOSE e \in S : Cardinality(before[e]) = n - 1
    OBVIOUS
  <2> HIDE DEF ranked, before
  <2> QED BY <1>5, <2>1
<1>7. ranked \in SetToSeqs(S)
  <2>1. ranked \in [1..size -> S]
    BY <1>6
  <2>2. \A i, j \in 1..size : i # j => ranked[i] # ranked[j]
    <3> HIDE DEF ranked, before
    <3> QED BY <1>2, <1>6
  <2> HIDE DEF ranked
  <2> QED BY <2>1, <2>2 DEF SetToSeqs
<1>8. ASSUME NEW i \in DOMAIN ranked, NEW j \in DOMAIN ranked, Before(ranked[i], ranked[j])
      PROVE  i < j
  <2>1. i \in 1..size /\ j \in 1..size
    OBVIOUS
  <2>2. ranked[i] \in S /\ ranked[j] \in S
    BY <1>6, <2>1
  <2> HIDE DEF ranked
  <2>3. ranked[i] \in before[ranked[j]]
    BY <1>8, <2>2
  <2> HIDE DEF before
  <2>4. Cardinality(before[ranked[i]]) < Cardinality(before[ranked[j]])
    BY <1>5, <2>2, <2>3
  <2>5. Cardinality(before[ranked[i]]) = i - 1 /\ Cardinality(before[ranked[j]]) = j - 1
    BY <1>6, <2>1
  <2> QED BY <1>2, <2>1, <2>4, <2>5
<1>9. /\ order \in SetToSeqs(S)
      /\ \A i, j \in DOMAIN order : Before(order[i], order[j]) => i < j
  <2> HIDE DEF ranked
  <2> QED BY <1>7, <1>8 DEF Sorted
<1> HIDE DEF order
<1>10. /\ order \in [1..size -> S] /\ \A i, j \in 1..size : i # j => order[i] # order[j]
  BY <1>9 DEF SetToSeqs
<1>11. \A e \in S : \E i \in 1..size : order[i] = e
  <2>1. order \in Injection(1..size, S)
    BY <1>10 DEF Injection, IsInjective
  <2>2. IsFiniteSet(1..size) /\ Cardinality(1..size) = size
    <3> HIDE DEF size
    <3> QED BY <1>2, FS_Interval
  <2>3. order \in Surjection(1..size, S)
    BY <1>1, <2>1, <2>2, FS_Injection
  <2> QED BY <2>3 DEF Surjection
<1>12. \A i, j \in 1..size : Before(order[i], order[j]) => i < j
  BY <1>9, <1>10
<1> QED BY <1>2, <1>10, <1>11, <1>12 DEF S, order

\* What is cited: entries of different chunks, and whatever is before one of
\* them is cited before it.
LEMMA FusedEntries ==
    ASSUME NEW vector \in Seq(Chunks), NEW lexical \in Seq(Chunks), limit \in Nat
    PROVE  LET found == reciprocal_rank_fuse(vector, lexical)
               S == Entries(vector, lexical)
           IN  /\ found \in Seq(S) /\ DOMAIN found \subseteq Nat \ {0}
               /\ \A i, j \in DOMAIN found : i # j => found[i] # found[j]
               /\ \A i \in DOMAIN found, e \in S :
                     Before(e, found[i]) => \E j \in 1..(i - 1) : found[j] = e
PROOF
<1> DEFINE found == reciprocal_rank_fuse(vector, lexical)
           S == Entries(vector, lexical)
           size == Cardinality(S)
           order == Sorted(S)
           cut == Smaller(limit, size)
<1>1. /\ size \in Nat /\ order \in [1..size -> S]
      /\ \A i, j \in 1..size : i # j => order[i] # order[j]
      /\ \A e \in S : \E i \in 1..size : order[i] = e
      /\ \A i, j \in 1..size : Before(order[i], order[j]) => i < j
  BY SortedEntries
<1>2. found = SubSeq(order, 1, cut)
  BY DEF reciprocal_rank_fuse, Best, Entries
<1> HIDE DEF S, order, found
<1>3. cut \in 0..size
  <2> HIDE DEF size
  <2> QED BY <1>1 DEF Smaller
<1>4. order \in Seq(S) /\ Len(order) = size
  <2> HIDE DEF size
  <2> QED BY <1>1
<1>5. found \in Seq(S) /\ DOMAIN found = 1..cut /\ \A i \in 1..cut : found[i] = order[i]
  <2> HIDE DEF size, cut
  <2> QED BY <1>1, <1>2, <1>3, <1>4, SubSeqProperties, LenProperties
<1> HIDE DEF size, cut
<1>6. \A i \in 1..cut : i \in 1..size
  BY <1>1, <1>3
<1>7. \A i, j \in DOMAIN found : i # j => found[i] # found[j]
  BY <1>1, <1>5, <1>6
<1>8. ASSUME NEW i \in DOMAIN found, NEW e \in S, Before(e, found[i])
      PROVE  \E j \in 1..(i - 1) : found[j] = e
  <2>1. PICK j \in 1..size : order[j] = e
    BY <1>1
  <2>2. j < i
    BY <1>1, <1>5, <1>6, <1>8, <2>1
  <2>3. j \in 1..(i - 1) /\ j \in 1..cut
    BY <1>1, <1>3, <1>5, <2>2
  <2> QED BY <1>5, <2>1, <2>3
<1>9. DOMAIN found \subseteq Nat \ {0}
  BY <1>3, <1>5
<1> QED BY <1>5, <1>7, <1>8, <1>9 DEF found, S

-----------------------------------------------------------------------------
(***************************************************************************)
(* The invariant of a search.                                              *)
(***************************************************************************)

\* No more chunks are cut than the limit allows.
CountInv == phase \in {"chunking", "chunked"} => Len(chunks) <= MAX_DOCUMENT_CHUNKS

\* A ranking holds different chunks of one request.
Ranked(ids) ==
    /\ ids \in Seq(Chunks) /\ IsInjective(ids)
    /\ \A c, d \in ToSet(ids) : c.by = d.by

SearchInv ==
    /\ search \in {"vector", "lexical", "found", "unavailable"}
    /\ search # "found" => fused = <<>>
    /\ search \in {"lexical", "found"} => limit \in Nat /\ Ranked(vector_ids)
    /\ search = "found" =>
          Ranked(lexical_ids) /\ fused = reciprocal_rank_fuse(vector_ids, lexical_ids)

\* Chunks are counted as they are cut.
LEMMA NextCountInv ==
    ASSUME TextInv, CountInv, [SearchNext]_<<vars, searchVars>> PROVE CountInv'
PROOF
<1>1. CASE UNCHANGED textVars
  BY <1>1 DEF CountInv, textVars
<1>2. CASE TextNext
  <2>1. chunks \in Seq(Cuts) /\ PagesInv /\ MAX_DOCUMENT_CHUNKS \in Nat
    BY ChunkLimitsAssumption DEF TextInv, TextTypes
  <2>2. CASE ParsePage \/ EndParse
    BY <2>2 DEF ParsePage, EndParse, CountInv
  <2>3. CASE SplitPages
    <3>1. chunks' = <<>>
      BY <2>1, <2>3 DEF SplitPages, PagesInv
    <3> QED BY <2>1, <3>1, EmptySeq DEF CountInv
  <2>4. CASE TakeChunk
    <3>1. Len(chunks') \in Nat
      <4>1. chunks' = Append(chunks, Slice(pages[page])) /\ Slice(pages[page]) \in Cuts
        BY <2>4, NewChunk DEF TakeChunk
      <4> QED BY <2>1, <4>1, AppendProperties, LenProperties
    <3>2. CASE TooMany(Len(chunks'))
      BY <2>4, <3>2 DEF TakeChunk, CountInv
    <3>3. CASE ~TooMany(Len(chunks'))
      BY <2>1, <3>1, <3>3 DEF TooMany, CountInv
    <3> QED BY <3>2, <3>3
  <2>5. CASE EndPage \/ EndDocument
    BY <2>5 DEF EndPage, EndDocument, cutting, CountInv
  <2> QED BY <1>2, <2>2, <2>3, <2>4, <2>5 DEF TextNext
<1>3. ASSUME NEW r \in Indexers, Step(r) \/ Abort(r) PROVE UNCHANGED textVars
  BY <1>3 DEF Step, Begin, Embed, StartDelete, EndDelete, Insert, Put, Mark, Commit, Refused,
              Abort
<1> QED BY <1>1, <1>2, <1>3 DEF SearchNext, Next, Terminated, vars

\* Whatever is committed are finitely many chunks of one request.
LEMMA RowsAreRanked ==
    ASSUME TextInv, CountInv, IndexInv, NEW found \in SUBSET rows, NEW ids \in Rankings(found)
    PROVE  Ranked(ids)
PROOF
<1>1. IsFiniteSet(found) /\ found \subseteq Chunks /\ \A c, d \in found : c.by = d.by
  <2>1. CASE rows = {}
    <3>1. found = {}
      BY <2>1
    <3> QED BY <3>1, FS_EmptySet
  <2>2. CASE rows # {}
    <3>1. PICK r \in Indexers : rows = ChunksOf(r)
      BY <2>2 DEF IndexInv, IndexIsWhole
    <3>2. Explored
      BY <2>2 DEF IndexInv
    <3>3. Len(chunks) \in Nat
      BY <3>2, FirstChunk
    <3>4. Len(chunks) <= MAX_DOCUMENT_CHUNKS /\ MAX_DOCUMENT_CHUNKS \in Nat
      BY <3>2, ChunkLimitsAssumption DEF CountInv, Explored
    <3>5. Ordinals \subseteq 0..(MAX_DOCUMENT_CHUNKS - 1)
      BY <3>3, <3>4 DEF Ordinals
    <3>6. rows \subseteq Chunks /\ \A c \in rows : c.by = r
      BY <3>1, <3>5 DEF ChunksOf, Chunks
    <3>7. IsFiniteSet(rows)
      <4> DEFINE n == Len(chunks) - 1
                 number == [o \in 0..n |-> [by |-> r, ordinal |-> o]]
      <4>1. rows = {[by |-> r, ordinal |-> o] : o \in 0..n}
        BY <3>1, BegunIsAll DEF Begun
      <4>2. IsFiniteSet(0..n)
        <5>1. n \in Int
          BY <3>3
        <5> HIDE DEF n
        <5> QED BY <5>1, FS_Interval
      <4>3. number \in Surjection(0..n, rows)
        <5> HIDE DEF n
        <5> QED BY <4>1 DEF Surjection
      <4> HIDE DEF n, number
      <4> QED BY <4>2, <4>3, FS_Surjection DEF ExistsSurjection
    <3> QED BY <3>6, <3>7, FS_Subset
  <2> QED BY <2>1, <2>2
<1> DEFINE n == Smaller(Cardinality(found), MAX_RETRIEVAL_CANDIDATES)
<1>2. n \in Nat
  <2>1. Cardinality(found) \in Nat
    BY <1>1, FS_CardinalityType
  <2> QED BY <2>1, LimitsAssumption DEF Smaller
<1>3. ids \in [1..n -> found] /\ IsInjective(ids)
  BY DEF Rankings
<1> HIDE DEF n
<1>4. ids \in Seq(found) /\ DOMAIN ids = 1..n
  BY <1>2, <1>3
<1>5. ids \in Seq(Chunks)
  BY <1>1, <1>4, SeqMonotonic
<1>6. ToSet(ids) \subseteq found
  BY <1>3 DEF ToSet
<1> QED BY <1>1, <1>3, <1>5, <1>6 DEF Ranked

\* Each statement of a search, and those of everyone else.
LEMMA NextSearchInv ==
    ASSUME TextInv, CountInv, IndexInv, SearchInv, [SearchNext]_<<vars, searchVars>>
    PROVE  SearchInv'
PROOF
<1>1. CASE UNCHANGED searchVars
  <2>1. /\ search' = search /\ limit' = limit /\ vector_ids' = vector_ids
        /\ lexical_ids' = lexical_ids /\ fused' = fused
    BY <1>1 DEF searchVars
  <2> QED BY <2>1 DEF SearchInv, reciprocal_rank_fuse, Best, Ranked
<1>2. CASE SearchVector
  <2>1. /\ limit' \in Nat /\ Ranked(vector_ids') /\ search' = "lexical" /\ fused' = <<>>
    <3>1. rows \in SUBSET rows
      OBVIOUS
    <3>2. vector_ids' \in Rankings(rows) /\ limit' \in Limits /\ search = "vector"
      BY <1>2 DEF SearchVector
    <3>3. Ranked(vector_ids')
      BY <3>1, <3>2, RowsAreRanked
    <3> QED BY <1>2, <3>2, <3>3, LimitsAssumption DEF SearchVector, SearchInv
  <2> QED BY <2>1 DEF SearchInv, Ranked
<1>3. CASE SearchLexical
  <2>1. PICK matching \in SUBSET rows : \E ids \in Rankings(matching) :
           lexical_ids' = ids /\ fused' = reciprocal_rank_fuse(vector_ids, ids)
    BY <1>3 DEF SearchLexical
  <2>2. PICK ids \in Rankings(matching) :
           lexical_ids' = ids /\ fused' = reciprocal_rank_fuse(vector_ids, ids)
    BY <2>1
  <2>3. Ranked(ids)
    BY RowsAreRanked
  <2>4. /\ search' = "found" /\ limit' = limit /\ vector_ids' = vector_ids
        /\ limit \in Nat /\ Ranked(vector_ids)
    BY <1>3 DEF SearchLexical, SearchInv
  <2> QED BY <2>2, <2>3, <2>4 DEF SearchInv, Ranked, reciprocal_rank_fuse, Best
<1>4. CASE Unavailable
  BY <1>4 DEF Unavailable, SearchInv
<1> QED BY <1>1, <1>2, <1>3, <1>4 DEF SearchNext, searchVars

\* Every search holds what its statements found, in every reachable state.
THEOREM SearchInvariant == SearchSpec => [](CountInv /\ SearchInv)
PROOF
<1>1. SearchInit => TextInv /\ CountInv /\ IndexInv /\ SearchInv
  <2> SUFFICES ASSUME SearchInit PROVE TextInv /\ CountInv /\ IndexInv /\ SearchInv
    OBVIOUS
  <2>1. TextInv /\ IndexInv
    BY InitTextInv, InitIndexInv DEF SearchInit, Init
  <2>2. CountInv /\ SearchInv
    BY DEF SearchInit, Init, TextInit, CountInv, SearchInv
  <2> QED BY <2>1, <2>2
<1>2. TextInv /\ IndexInv /\ [SearchNext]_<<vars, searchVars>> => IndexInv'
  BY NextIndexInv
<1>3. TextInv /\ CountInv /\ [SearchNext]_<<vars, searchVars>> => CountInv'
  BY NextCountInv
<1>4. /\ TextInv /\ CountInv /\ IndexInv /\ SearchInv
      /\ [SearchNext]_<<vars, searchVars>>
      => SearchInv'
  BY NextSearchInv
<1> QED BY <1>1, <1>2, <1>3, <1>4, TextInvariant, PTL DEF SearchSpec

-----------------------------------------------------------------------------
\* Two chunks with one ordinal are of different requests, and no ranking holds
\* both: the first SELECT found one and the second, after another index was
\* committed, the other.
THEOREM PassagesAreCitedOncePerIndex == SearchSpec => []PassageCitedOncePerIndex
PROOF
<1>1. CountInv /\ SearchInv => PassageCitedOncePerIndex
  <2> SUFFICES ASSUME SearchInv, NEW i \in DOMAIN fused, NEW j \in DOMAIN fused, i # j,
                      fused[i].chunk.ordinal = fused[j].chunk.ordinal
               PROVE  /\ fused[i].chunk.by # fused[j].chunk.by
                      /\ {fused[k].vector_rank = None : k \in {i, j}} = BOOLEAN
                      /\ {fused[k].lexical_rank = None : k \in {i, j}} = BOOLEAN
    BY DEF PassageCitedOncePerIndex
  <2>1. search = "found"
    <3>1. DOMAIN <<>> = {}
      OBVIOUS
    <3> QED BY <3>1 DEF SearchInv
  <2>2. /\ limit \in Nat /\ Ranked(vector_ids) /\ Ranked(lexical_ids)
        /\ fused = reciprocal_rank_fuse(vector_ids, lexical_ids)
    BY <2>1 DEF SearchInv
  <2> DEFINE S == Entries(vector_ids, lexical_ids)
             c == fused[i].chunk
             d == fused[j].chunk
  <2>3. vector_ids \in Seq(Chunks) /\ lexical_ids \in Seq(Chunks)
    BY <2>2 DEF Ranked
  <2>4. fused[i] \in S /\ fused[j] \in S /\ fused[i] # fused[j]
    <3>1. fused \in Seq(S) /\ \A m, n \in DOMAIN fused : m # n => fused[m] # fused[n]
      BY <2>2, <2>3, FusedEntries
    <3> HIDE DEF S
    <3> QED BY <3>1, LenProperties, ElementOfSeq
  <2>5. /\ fused[i] = Entry(vector_ids, lexical_ids, c)
        /\ fused[j] = Entry(vector_ids, lexical_ids, d)
        /\ c \in Chunks /\ d \in Chunks
        /\ c \in ToSet(vector_ids) \cup ToSet(lexical_ids)
        /\ d \in ToSet(vector_ids) \cup ToSet(lexical_ids)
        /\ fused[i].vector_rank = Rank(vector_ids, c)
        /\ fused[j].vector_rank = Rank(vector_ids, d)
        /\ fused[i].lexical_rank = Rank(lexical_ids, c)
        /\ fused[j].lexical_rank = Rank(lexical_ids, d)
    BY <2>3, <2>4, EntryFields
  <2>6. c.by # d.by
    <3>1. c # d
      BY <2>4, <2>5
    <3>2. c = [by |-> c.by, ordinal |-> c.ordinal] /\ d = [by |-> d.by, ordinal |-> d.ordinal]
      <4> HIDE DEF c, d
      <4> QED BY <2>5 DEF Chunks
    <3> QED BY <3>1, <3>2
  <2>7. /\ ~(c \in ToSet(vector_ids) /\ d \in ToSet(vector_ids))
        /\ ~(c \in ToSet(lexical_ids) /\ d \in ToSet(lexical_ids))
    BY <2>2, <2>6 DEF Ranked
  <2>8. /\ Rank(vector_ids, c) = None <=> c \notin ToSet(vector_ids)
        /\ Rank(vector_ids, d) = None <=> d \notin ToSet(vector_ids)
        /\ Rank(lexical_ids, c) = None <=> c \notin ToSet(lexical_ids)
        /\ Rank(lexical_ids, d) = None <=> d \notin ToSet(lexical_ids)
    BY <2>3, RankOf
  <2>9. /\ (fused[i].vector_rank = None) = ~(fused[j].vector_rank = None)
        /\ (fused[i].lexical_rank = None) = ~(fused[j].lexical_rank = None)
    BY <2>5, <2>7, <2>8
  <2>10. /\ {fused[k].vector_rank = None : k \in {i, j}}
              = {fused[i].vector_rank = None, fused[j].vector_rank = None}
         /\ {fused[k].lexical_rank = None : k \in {i, j}}
              = {fused[i].lexical_rank = None, fused[j].lexical_rank = None}
    BY Zenon
  <2>11. /\ {fused[i].vector_rank = None, fused[j].vector_rank = None} = BOOLEAN
         /\ {fused[i].lexical_rank = None, fused[j].lexical_rank = None} = BOOLEAN
    BY <2>9, Zenon
  <2> QED BY <2>6, <2>10, <2>11
<1> QED BY <1>1, SearchInvariant, PTL

\* A rank that is at least as good gives at least as much, a better one more.
LEMMA ReciprocalGrows ==
    ASSUME NEW a \in RanksOrNone, NEW b \in RanksOrNone, AtLeast(a, b)
    PROVE  /\ Reciprocal(a).num * Reciprocal(b).den >= Reciprocal(b).num * Reciprocal(a).den
           /\ a # b => Reciprocal(a).num * Reciprocal(b).den > Reciprocal(b).num * Reciprocal(a).den
           /\ Reciprocal(a).num \in Nat /\ Reciprocal(a).den \in Nat \ {0}
           /\ Reciprocal(b).num \in Nat /\ Reciprocal(b).den \in Nat \ {0}
PROOF
<1>1. RRF_RANK_CONSTANT \in Nat /\ None \notin Nat
  BY LimitsAssumption, NoneAssumption
<1>2. CASE a = None /\ b = None
  BY <1>2 DEF Reciprocal
<1>3. CASE a # None /\ b = None
  <2>1. /\ Reciprocal(a).num = 1 /\ Reciprocal(a).den = RRF_RANK_CONSTANT + a
        /\ Reciprocal(b).num = 0 /\ Reciprocal(b).den = 1
    BY <1>3 DEF Reciprocal
  <2> QED BY <1>1, <1>3, <2>1 DEF RanksOrNone
<1>4. CASE a # None /\ b # None
  <2>1. /\ Reciprocal(a).num = 1 /\ Reciprocal(a).den = RRF_RANK_CONSTANT + a
        /\ Reciprocal(b).num = 1 /\ Reciprocal(b).den = RRF_RANK_CONSTANT + b
    BY <1>4 DEF Reciprocal
  <2>2. a <= b
    BY <1>4 DEF AtLeast
  <2> QED BY <1>1, <1>4, <2>1, <2>2 DEF RanksOrNone
<1> QED BY <1>2, <1>3, <1>4 DEF AtLeast

\* Who dominates has the higher score.
LEMMA DominantIsBefore ==
    ASSUME NEW vector \in Seq(Chunks), NEW lexical \in Seq(Chunks),
           NEW a \in Entries(vector, lexical), NEW b \in Entries(vector, lexical),
           Dominates(a, b)
    PROVE  Before(a, b)
PROOF
<1>1. /\ a = Entry(vector, lexical, a.chunk) /\ b = Entry(vector, lexical, b.chunk)
      /\ b.chunk \in ToSet(vector) \cup ToSet(lexical)
      /\ a.vector_rank = Rank(vector, a.chunk) /\ a.lexical_rank = Rank(lexical, a.chunk)
      /\ b.vector_rank = Rank(vector, b.chunk) /\ b.lexical_rank = Rank(lexical, b.chunk)
      /\ a.vector_rank \in RanksOrNone /\ a.lexical_rank \in RanksOrNone
      /\ b.vector_rank \in RanksOrNone /\ b.lexical_rank \in RanksOrNone
  BY EntryFields
<1>2. a # b /\ AtLeast(a.vector_rank, b.vector_rank) /\ AtLeast(a.lexical_rank, b.lexical_rank)
  BY DEF Dominates
<1>3. a.vector_rank # b.vector_rank \/ a.lexical_rank # b.lexical_rank
  <2> SUFFICES ASSUME a.vector_rank = b.vector_rank, a.lexical_rank = b.lexical_rank
               PROVE  a.chunk = b.chunk
    BY <1>1, <1>2
  <2>1. \A ids \in Seq(Chunks) :
           b.chunk \in ToSet(ids) /\ Rank(ids, a.chunk) = Rank(ids, b.chunk) => a.chunk = b.chunk
    <3> SUFFICES ASSUME NEW ids \in Seq(Chunks), b.chunk \in ToSet(ids),
                        Rank(ids, a.chunk) = Rank(ids, b.chunk)
                 PROVE  a.chunk = b.chunk
      OBVIOUS
    <3>1. ids[Rank(ids, b.chunk)] = b.chunk /\ Rank(ids, b.chunk) # None
      BY RankOf
    <3>2. a.chunk \in ToSet(ids)
      BY <3>1, RankOf
    <3>3. ids[Rank(ids, a.chunk)] = a.chunk
      BY <3>2, RankOf
    <3> QED BY <3>1, <3>3
  <2> QED BY <1>1, <2>1
<1> DEFINE an == Reciprocal(a.vector_rank).num
           ad == Reciprocal(a.vector_rank).den
           bn == Reciprocal(b.vector_rank).num
           bd == Reciprocal(b.vector_rank).den
           cn == Reciprocal(a.lexical_rank).num
           cd == Reciprocal(a.lexical_rank).den
           dn == Reciprocal(b.lexical_rank).num
           dd == Reciprocal(b.lexical_rank).den
<1>4. /\ an * bd >= bn * ad /\ cn * dd >= dn * cd
      /\ an * bd > bn * ad \/ cn * dd > dn * cd
      /\ an \in Nat /\ bn \in Nat /\ cn \in Nat /\ dn \in Nat
      /\ ad \in Nat \ {0} /\ bd \in Nat \ {0} /\ cd \in Nat \ {0} /\ dd \in Nat \ {0}
  BY <1>1, <1>2, <1>3, ReciprocalGrows
<1>5. /\ FusionScore(a) = [num |-> an * cd + cn * ad, den |-> ad * cd]
      /\ FusionScore(b) = [num |-> bn * dd + dn * bd, den |-> bd * dd]
  BY DEF FusionScore
<1> HIDE DEF an, ad, bn, bd, cn, cd, dn, dd
<1>6. Compare(FusionScore(a), FusionScore(b))
        = (an * cd + cn * ad) * (bd * dd) - (bn * dd + dn * bd) * (ad * cd)
  BY <1>5 DEF Compare
<1>7. (an * cd + cn * ad) * (bd * dd) > (bn * dd + dn * bd) * (ad * cd)
  BY <1>4, FractionsAdd
<1>8. (an * cd + cn * ad) * (bd * dd) \in Int /\ (bn * dd + dn * bd) * (ad * cd) \in Int
  BY <1>4
<1>9. Compare(FusionScore(a), FusionScore(b)) > 0
  BY <1>6, <1>7, <1>8
<1> QED BY <1>9 DEF Before

\* For all rankings, ids and limits: a chunk that one ranking puts ahead of a
\* cited one, and the other not behind it, is cited before it.
THEOREM FusionFollowsRankings == SearchSpec => []FusionRespectsRankings
PROOF
<1>1. CountInv /\ SearchInv => FusionRespectsRankings
  <2> SUFFICES ASSUME SearchInv, search = "found", NEW i \in DOMAIN fused,
                      NEW chunk \in ToSet(vector_ids) \cup ToSet(lexical_ids),
                      Dominates(Entry(vector_ids, lexical_ids, chunk), fused[i])
               PROVE  \E j \in 1..(i - 1) : fused[j] = Entry(vector_ids, lexical_ids, chunk)
    BY DEF FusionRespectsRankings
  <2> DEFINE S == Entries(vector_ids, lexical_ids)
             e == Entry(vector_ids, lexical_ids, chunk)
  <2>1. /\ limit \in Nat /\ vector_ids \in Seq(Chunks) /\ lexical_ids \in Seq(Chunks)
        /\ fused = reciprocal_rank_fuse(vector_ids, lexical_ids)
    BY DEF SearchInv, Ranked
  <2>2. /\ fused \in Seq(S)
        /\ \A n \in DOMAIN fused, x \in S :
              Before(x, fused[n]) => \E j \in 1..(n - 1) : fused[j] = x
    <3> DEFINE found == reciprocal_rank_fuse(vector_ids, lexical_ids)
    <3>1. /\ found \in Seq(S)
          /\ \A n \in DOMAIN found, x \in S :
                Before(x, found[n]) => \E j \in 1..(n - 1) : found[j] = x
      BY <2>1, FusedEntries
    <3> HIDE DEF found, S
    <3> QED BY <2>1, <3>1 DEF found
  <2>3. e \in S
    BY DEF Entries
  <2>4. fused[i] \in S
    <3> HIDE DEF S
    <3> QED BY <2>2, LenProperties, ElementOfSeq
  <2>5. Before(e, fused[i])
    BY <2>1, <2>3, <2>4, DominantIsBefore
  <2> HIDE DEF S, e
  <2> QED BY <2>2, <2>3, <2>5 DEF e
<1> QED BY <1>1, SearchInvariant, PTL

=============================================================================
