\* Two messages and so up to two turns, with an agent message and a reasoning item of one
\* word each; three inputs, such as open, send and send, or open, send and a restart.
SPECIFICATION Spec
CONSTANTS
  NoKey = NoKey
  NoTurn = NoTurn
  Users = {u1, u2}
  Agents = {a1}
  Reasonings = {r1}
  Texts = {x}
  Words = 1
  MaxInputs = 3
  MaxPlans = 1
  MaxWire = 2
SYMMETRY UserSymmetry
VIEW View
INVARIANTS IndexSound AllShown ReadOnlyIsWatched
PROPERTIES InPlace MergeInOrder SavedCardsLast
CHECK_DEADLOCK FALSE
