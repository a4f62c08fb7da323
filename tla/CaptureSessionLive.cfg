SPECIFICATION FairSpec
CONSTANTS
  Retirers = {r1}
  Senders = {s1}
  Failing = {"process"}
PROPERTIES
  RetirementCompletes
  StartReturns
