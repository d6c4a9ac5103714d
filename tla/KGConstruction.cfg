CONSTANTS
  Reserved <- MCReserved
  Malformed <- MCMalformed
  LexicalLabels <- MCLexicalLabels
  LexicalTypes <- MCLexicalTypes
  ChunkId <- MCChunkId
  ChunkLabel = "Chunk"
  DocumentLabel = "Document"
  FromChunk = "FROM_CHUNK"
  FromDocument = "FROM_DOCUMENT"
  NextChunkType = "NEXT_CHUNK"
  Jobs <- MCJobs
SPECIFICATION Spec
INVARIANTS
  TemplateSupplies
  TextSurvives
  SchemaIsSound
  PruningIsSound
  FittingIsKept
  ChunksAreTraced
  RowsJoin
PROPERTIES
  SplitterAdvances
