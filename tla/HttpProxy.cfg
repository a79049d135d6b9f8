SPECIFICATION FairSpec
CONSTANTS
  Requests = {r1, r2}
  Ports = {0, 80, 11434}
  AllowPorts = {11434}
  Loopback4 = {"127.0.0.1"}
  Loopback6 = {"::1"}
  Private = {"10.0.0.1"}
  Public = {"93.184.215.14"}
  Answers <- MCAnswers
INVARIANTS
  TypeOK
  OnlyPermitted
  MixedRefused
  DialsChecked
PROPERTIES
  HandlersEnd
CHECK_DEADLOCK FALSE
