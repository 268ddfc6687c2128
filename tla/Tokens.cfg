SPECIFICATION Spec
CONSTANTS
  Requests = {r1, r2}
  Vault = "v"
  Tokens = {"k1"}
  Paths <- PathsMC
  Bodies <- BodiesMC
  MaxItems = 2
  Braced <- BracedMC
  Zone = 1
  NoOffset = NoOffset
  Unparsed = Unparsed
  ZeroTm <- ZeroTmMC
  Clocks <- ClocksMC
  Odd = Odd
  V1 = V1
  V2 = V2
  U1 = U1
  P1 = P1
INVARIANTS StoredAsAsked AnswersMatchItems RightRoute
PROPERTY ImplementsTokenMap
SYMMETRY Symmetry
