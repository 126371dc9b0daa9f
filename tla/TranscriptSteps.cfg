\* One turn with two reasoning items, opened once.
SPECIFICATION Spec
CONSTANTS
  NoKey = NoKey
  NoTurn = NoTurn
  Users = {u1}
  Agents = {}
  Reasonings = {r1, r2}
  Texts = {x}
  Words = 1
  MaxInputs = 1
  MaxPlans = 0
  MaxWire = 2
INVARIANT StepOnce
CHECK_DEADLOCK FALSE
