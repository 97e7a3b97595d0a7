SPECIFICATION Spec
CONSTANTS
  NULL = NULL
  Line <- MCLine
  Proc <- MCProc
  Link <- MCLink
  Master <- MCMaster
  Session <- MCSession
  Leader <- MCLeader
  Ldisc = {"tty", "mouse"}
  N_TTY = "tty"
  Envs <- MCEnvs
  FlipMax = 1
  Chunks = 1
INVARIANTS CountsExact NoDangling EnableOwed CttySound
PROPERTY LdiscPromise
CHECK_DEADLOCK FALSE
