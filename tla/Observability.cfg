SPECIFICATION Spec
CONSTANTS
  pub = pub  exch = exch  idPub = idPub  idExch = idExch
  poller = poller  reconciler = reconciler
  None = None
  Entities = {pub, exch}
  PartOf <- MCPartOf
  StageOf <- MCStageOf
  IdentifiersOf <- MCIdentifiersOf
  Identifiers = {idPub, idExch}
  Scheduled = {}
  Workers = {poller, reconciler}
  Reconciler = reconciler
  Rules <- MCRules
  RuleOf <- MCRuleOf
  Critical = {"PUBLICATION_FAILED"}
  Delivery = {2}
  MaxDisturbances = 1
  MaxSplits = 1
 
PROPERTIES OnlyRecoveryResolves
CHECK_DEADLOCK FALSE
