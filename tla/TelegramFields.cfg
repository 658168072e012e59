\* One user, two updates handled at a time.
SPECIFICATION Spec
CONSTANTS
  note = note
  bookmark = bookmark
  h1 = h1
  h2 = h2
  r1 = r1
  r2 = r2
  Handlers = {h1, h2}
  Refs = {r1, r2}
  Targets = {note, bookmark}
  Offered = {note, bookmark}
  FastPaths = {bookmark}
  FieldsOf <- MCFieldsOf
  TextField = "text"
  MaxUpdates = 4
  NoRef = NoRef
  NoTarget = NoTarget
SYMMETRY Symmetry
INVARIANT AnswersTaken
