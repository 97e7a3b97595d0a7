-------------------------------- MODULE MCTty --------------------------------
(* A serial line c and a pty pair (m, s); processes p1, the leader, and p2  *)
(* of session 1, and p3, the leader of session 2.                           *)
EXTENDS Tty

MCLine == {"c", "m", "s"}
MCLink == [c |-> NULL, m |-> "s", s |-> "m"]
MCMaster == {"m"}
MCProc == {"p1", "p2", "p3"}
MCSession == [p1 |-> 1, p2 |-> 1, p3 |-> 2]
MCLeader == {"p1", "p3"}

None == [p \in MCProc |-> NULL]

(* Job control on c: the sessions take, steal and lose it.                  *)
JobControl == [ops |-> {"OPEN", "CLOSE", "CTTY", "SCTTY", "NOTTY", "PGRP", "EXIT", "EXCL"},
               setd |-> {}, opened |-> [None EXCEPT !["p2"] = "c"]]

(* The pty pair: either side opened and closed, opens that fail.            *)
Pty == [ops |-> {"PTMX", "OPEN", "CLOSE", "CTTY", "FAIL"}, setd |-> {}, opened |-> None]

(* Users of the discipline while it changes, on two ttys.                   *)
Change == [ops |-> {"MODULE", "READ", "USE", "RX", "FAIL", "DRAIN"}, setd |-> {"p1", "p3"},
           opened |-> [p1 |-> "c", p2 |-> "c", p3 |-> "s"]]

(* The carrier is lost while the line is read, written and closed.          *)
Carrier == [ops |-> {"CARRIER", "READ", "WRITE", "RX", "CLOSE", "FLOW", "SLEEP"},
            setd |-> {"p2"}, opened |-> [p1 |-> "c", p2 |-> "c", p3 |-> "c"]]

(* /dev/console redirected to a pty and back.                               *)
Redirect == [ops |-> {"CONSOLE", "CONS", "WRITE", "CLOSE", "OPEN"}, setd |-> {},
             opened |-> [p1 |-> NULL, p2 |-> "s", p3 |-> "m"]]

(* The secure attention key.                                                *)
Attention == [ops |-> {"SAK", "CTTY", "OPEN", "READ"}, setd |-> {},
              opened |-> [None EXCEPT !["p2"] = "c"]]

MCEnvs == {JobControl, Pty, Change, Carrier, Redirect, Attention}

(* Two processes change the line discipline of the same tty.                *)
TwoChanges == {[ops |-> {}, setd |-> {"p1", "p2"},
                opened |-> [p1 |-> "c", p2 |-> "c", p3 |-> NULL]]}
=============================================================================
