SPECIFICATION SearchSpec
CONSTANTS
    r1 = r1
    r2 = r2
    r3 = r3
    None = None
    MAX_DOCUMENT_PAGES = 3
    MAX_DOCUMENT_TEXT_CHARACTERS = 24
    MAX_CHUNK_CHARACTERS = 4
    CHUNK_OVERLAP_CHARACTERS = 1
    MAX_DOCUMENT_CHUNKS = 6
    Parts <- MCParts
    IndexedTexts <- MCIndexedTexts
    Indexers = {r1, r2, r3}
    RRF_RANK_CONSTANT = 60
    MAX_RETRIEVAL_CANDIDATES = 2
    Limits = {1, 2, 4}
    Id <- MCId
INVARIANTS
    ChunksNameTheirPage
    IndexedTextIsCovered
    NeighboursOverlap
    IndexIsWhole
    PassageCitedOncePerIndex
    FusionRespectsRankings
PROPERTY
    IndexersReturn
