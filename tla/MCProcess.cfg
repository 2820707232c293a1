\* Three connections; every choice of stores; one writer of limits.
SPECIFICATION MCSpec
CONSTANTS
  h1 = h1
  h2 = h2
  h3 = h3
  Handler <- MCHandler
  k1 = k1
  w1 = w1
  Files <- MCFiles
  Environs <- MCEnvirons
  Supported <- MCSupported
  DefaultTimeout = 30
  None = None
  BootFiles <- MCBootFiles
  NoConfig = NoConfig
  KeyID <- MCKeyID
  Writer <- MCWriter
  Nothing = Nothing
  Hooked = FALSE
  MaxVersion = 2
CHECK_DEADLOCK FALSE
INVARIANT StoresOutliveHandlers
INVARIANT EndsHoldingNothing
INVARIANT VerdictIsOrderFree
PROPERTY ShutdownEnds
PROPERTY LimitsArrive
