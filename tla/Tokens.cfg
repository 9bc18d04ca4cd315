SPECIFICATION FairSpec
CONSTANTS
  Alice = Alice
  Bob = Bob
  engine = engine
  tool = tool
  n1 = n1
  n2 = n2
  Legacy = Legacy
  Login = Login
  Users = {Alice, Bob}
  Refreshers = {engine, tool}
  NamesUsers = {engine}
  Nonces = {n1, n2}
  Installs = {Legacy, Alice}
  Hazards = {"crash", "forget"}
  MaxIssued = 2
INVARIANTS
  TypeOK
  FiledUnderOwner
  RefreshTokenUsable
PROPERTIES
  PrimaryIsSticky
  GateOpens
CHECK_DEADLOCK FALSE
