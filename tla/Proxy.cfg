\* play.py through preparation, forwarding and the loss of either side.
SPECIFICATION Spec
CONSTANTS
  Message <- MCMessage
  Reset <- MCReset
  Ready <- MCReady
  Preparation <- MCPreparation
  Quota <- MCQuota
  Window = 2
\* peers that are done, play.py that has exited
CHECK_DEADLOCK FALSE
INVARIANTS
  InOrder
PROPERTIES
  Delivered
  LossEndsAll
