SPECIFICATION MCSpec
CONSTANTS
  Games = {g1, g2}
  Past = Past
  None = None
  Slots <- MCSlots
  MaxMoves = 2
  MaxSaves = 3
  MaxFaults = 1
  guest = guest
  alice = alice
  new = new
  Profiles = {guest, alice, new}
  Guest = guest
  Stores <- MCStores
  MaxChoices = 2
  Nil = Nil
SYMMETRY Symmetry
INVARIANTS OneOwner ReleaseArrives LaunchIsWaitedFor
PROPERTIES SeenBeforeReplaced TakeoverIsConfirmed LaunchIsAsAsked LateAnswersChangeNothing
CHECK_DEADLOCK FALSE
