CONSTANTS
  Reserved <- MCReserved
  Malformed <- MCMalformed
  LexicalLabels <- MCLexicalLabels
  LexicalTypes <- MCLexicalTypes
  ChunkId <- MCChunkId
  ChunkLabel = "Chunk"
  DocumentLabel = "Document"
  FromChunk = "FROM_CHUNK"
  FromDocument = "FROM_DOCUMENT"
  NextChunkType = "NEXT_CHUNK"
  Jobs <- LongWordJobs
SPECIFICATION Spec
INVARIANT NoTextBetweenChunks
