SPECIFICATION PromptSpec
CONSTANTS
  Letters <- MCLetters
  Space = "_"
  Blank = " "
  Utf8 <- MCUtf8
  Vocabularies <- MCVocabularies
  MaxEnc = 5
  ToolsId <- MCToolsId
  Queries <- MCQueries
  Catalogues <- MCCatalogues
  OutOfRange <- MCOutOfRange
  Word <- MCWord
  RawLists <- MCRawLists
  Refused <- MCRefused
INVARIANTS
  ArrivesWhole
PROPERTIES
  ImplementsGreedy
