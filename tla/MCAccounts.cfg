CONSTANTS
  Couriers = {w1, w2}
  MaxChanges = 2
  WithCheckout = {1}
  Routes = {r1}
  MaxEventAttempts = 2
  MaxReviews = 1
  MaxYields = 1
  Checkouts = {w1, w2}
  CheckoutPlans = {basic, pro}
  MaxReservations = 3
  Visitors = {w1, w2}
  Mailers = {s1}
  MaxPasswords = 2
  MaxMail = 2
  MaxMailAttempts = 1
  Owner = o
  Members = {a}
  Postmen = {w1, w2}
  MaxLetters = 2
  MaxLetterAttempts = 2
  Hosts = {w1, w2}
  Extraction = {core, suggestion}
  OtherLanes = {delivery}
  LaneCapacity = 1
  MaxArrivals = 2
  MaxSetbacks = 1
SPECIFICATION AccountsSpec
SYMMETRY Alike
INVARIANT AccountsTypeOK
INVARIANT CompletedIsWhole
INVARIANT BudgetIsReviewed
INVARIANT OneOpenSession
INVARIANT AccessIsCurrent
INVARIANT InvitedByRight
PROPERTY PlanNeverGoesBack
CHECK_DEADLOCK FALSE
