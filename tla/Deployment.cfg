SPECIFICATION DeploySpec
CONSTANT
  MaxCommits = 2
INVARIANTS
  NeverSilent
  SuccessMeansDeployed
  RollbackRestores
