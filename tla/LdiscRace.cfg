SPECIFICATION Spec
CONSTANTS
  NULL = NULL
  Line <- MCLine
  Proc <- MCProc
  Link <- MCLink
  Master <- MCMaster
  Session <- MCSession
  Leader <- MCLeader
  Ldisc = {"tty", "mouse"}
  N_TTY = "tty"
  Envs <- TwoChanges
  FlipMax = 1
  Chunks = 1
PROPERTY LdiscPromise
CHECK_DEADLOCK FALSE
