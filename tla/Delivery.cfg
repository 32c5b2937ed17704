CONSTANTS
  NoLimit = NoLimit
  q1 = q1
  q2 = q2
  Requests <- TwoRequests
  Tokens = {t1}
  TokenPolicies <- OnePolicy
  Modes <- ProxyAndReveal
  Configs <- TwoConfigs
  SecretName = "s"
  Method = "m"
  Path = "p"
  MaxReloads = 1
SPECIFICATION FairSpec
INVARIANTS
  EveryAttemptRecorded
  ServicesOutliveHandlers
  LeavesByRight
PROPERTIES
  ShutdownCompletes
