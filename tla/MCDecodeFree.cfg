SPECIFICATION Spec
CONSTANTS
  weather = weather
  word = word
  Probe = Probe
  EOS = EOS
  Open = Open
  Name = Name
  Colon = Colon
  Comma = Comma
  Args = Args
  None = None
  Prompts <- MCPrompts
  Vocab <- MCVocab
  MaxGen = 5
INVARIANTS
  FreeUntilOpen
