SPECIFICATION RecordSpec
CONSTANTS
  Asks = {a1, a2}
  Retries = {y1}
  Corrections = {z1}
  Post = Post
  None = None
SYMMETRY AsksSymmetry
INVARIANTS SessionClosesWithTheCall OneTicketUnlessTogether PagesAgree
PROPERTIES EndedCallIsFinal SummaryIsNeverTakenAway
CHECK_DEADLOCK FALSE
