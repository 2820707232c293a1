\* Three connections; every handler returns once its request is cancelled.
SPECIFICATION FairSpec
CONSTANTS
  Handler = {h1, h2, h3}
CHECK_DEADLOCK FALSE
PROPERTY AcceptedRequestsSettle
