\* Two proposals for one file, and one command that leaves a process.
CONSTANTS
  Paths = {p1}
  Texts = {t1, t2}
  Servers = {s1, s2}
  TrustedServers = {s1}
  MaxProposals = 2
  MaxLeftOver = 1
  Torn = torn
SPECIFICATION Spec
INVARIANTS
  TypeOK
  NothingUnapproved
  AppliedOnce
PROPERTIES
  ModeIsKept
