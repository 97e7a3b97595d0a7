-------------------------------- MODULE Ldisc --------------------------------
(***************************************************************************)
(* What the line disciplines of the ttys promise their users: a discipline *)
(* is never closed or replaced under someone who holds a reference to it,  *)
(* and nobody gets a reference while it is being replaced.  Module Tty is  *)
(* shown to implement this specification.                                  *)
(*                                                                         *)
(* It abstracts the rules that the comments of drivers/char/tty_io.c state *)
(* for tty_ldisc_ref, tty_ldisc_deref and tty_set_ldisc.                   *)
(***************************************************************************)
EXTENDS Naturals

CONSTANTS
  Tty,       \* the ttys
  Disc,      \* line disciplines
  Default    \* the one a tty starts with

VARIABLES
  disc,      \* the discipline of each tty
  users,     \* references to it
  usable     \* may references be taken?

ldvars == <<disc, users, usable>>

LInit == /\ disc = [t \in Tty |-> Default] /\ users = [t \in Tty |-> 0]
         /\ usable \in [Tty -> BOOLEAN]

Take(t) == /\ usable[t] /\ users'[t] = users[t] + 1
           /\ disc'[t] = disc[t] /\ usable'[t]

Drop(t) == /\ users[t] > 0 /\ users'[t] = users[t] - 1
           /\ disc'[t] = disc[t] /\ (usable'[t] => usable[t])

(* A hangup or a close bars new users while old ones may still be there;    *)
(* who hangs up becomes one.                                                *)
Bar(t) == /\ usable[t] /\ ~usable'[t]
          /\ users'[t] \in {users[t], users[t] + 1}
          /\ disc'[t] = disc[t]

Unbar(t) == /\ ~usable[t] /\ usable'[t]
            /\ users'[t] = users[t] \/ (users[t] > 0 /\ users'[t] = users[t] - 1)
            /\ disc'[t] = disc[t]

(* Only an unused discipline that nobody can get hold of is replaced.       *)
Replace(t) == /\ ~usable[t] /\ users[t] = 0 /\ users'[t] = 0
              /\ disc'[t] \in Disc

Still(t) == disc'[t] = disc[t] /\ users'[t] = users[t] /\ usable'[t] = usable[t]

(* A step may concern both sides of a pty.                                  *)
LNext == \A t \in Tty : Take(t) \/ Drop(t) \/ Bar(t) \/ Unbar(t) \/ Replace(t) \/ Still(t)

LSpec == LInit /\ [][LNext]_ldvars
=============================================================================
