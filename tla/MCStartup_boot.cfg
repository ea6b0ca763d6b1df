SPECIFICATION Spec
CONSTANTS
  ENV_SIZE = 15
  Coms = {1, 2}
  Orders <- MCOrders
  Lines <- MCLines
  Number <- MCNumber
  Kinds = {"8250", "16450", "16550", "16550A"}
  Rates = {9600, 115200}
  Text <- MCText
  Ways = {"cooked", "raw", "verify", "bios"}
  MaxMishaps = 2
INVARIANTS EnvIsOptions PortsAsAsked InPlaceMeansReached PaperIsText
