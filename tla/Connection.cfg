SPECIFICATION Spec
CONSTANTS
  Transformers = {ssl, readUntil, upgrader}
  PrepareOnly = {upgrader}
  Tasks = {owner, other}
  Owner = owner
  Adaptor = adaptor
  MaxOpens = 2
  MaxUnbinds = 2
CHECK_DEADLOCK FALSE
INVARIANTS ClosedIsReleased FinishedOnce ChainIsStack
PROPERTIES FinishTopDown
