--------------------------------- MODULE Tty ---------------------------------
(***************************************************************************)
(* The tty layer: opening and closing ttys and pty pairs, the reference    *)
(* counted line discipline, hangups, the controlling tty, the flip buffer  *)
(* and its work queue.                                                     *)
(*                                                                         *)
(* Source: drivers/char/tty_io.c.                                          *)
(*                                                                         *)
(* Code that runs under the big kernel lock is one step up to the point    *)
(* where it sleeps; bkl is its owner when another step of the same thread  *)
(* follows without sleeping.  Code that does not take it (references to    *)
(* the discipline, the flip buffer) interleaves with every step.  What is  *)
(* done under tty_sem or tty_ldisc_lock is one step.                       *)
(*                                                                         *)
(* The reference count of N_TTY in the table of disciplines is left out:   *)
(* it only grows (every close leaves one reference) and nothing reads it,  *)
(* because N_TTY is never unregistered.                                    *)
(***************************************************************************)
EXTENDS Integers, FiniteSets

CONSTANTS
  Line,      \* slots of the tty drivers' tables (driver->ttys[idx])
  Proc,      \* processes; each has one file and is a process group
  Ldisc,     \* line disciplines
  N_TTY,     \* the default one
  Link,      \* the other side of a pty, NULL for other ttys
  Master,    \* the pty masters
  Session,   \* the session of each process
  Leader,    \* the session leaders
  Envs,      \* environments: the operations issued, who changes the line
             \* discipline, the files open at first
  FlipMax,   \* bound: characters in a flip buffer
  Chunks,    \* bound: the pieces a write is split in
  NULL

Worker == "keventd"

ASSUME TtyAssumption ==
  /\ N_TTY \in Ldisc /\ NULL \notin Line \cup Proc
  /\ IsFiniteSet(Proc) /\ IsFiniteSet(Line) /\ Worker \notin Proc \cup {NULL}
  /\ Line \cap Proc = {}
  /\ Link \in [Line -> Line \cup {NULL}] /\ Master \subseteq Line
  /\ \A t \in Line : Link[t] # NULL => Link[t] # t /\ Link[Link[t]] = t
  /\ \A t \in Master : Link[t] # NULL
  /\ \A t \in Line : Link[t] # NULL => (t \in Master <=> Link[t] \notin Master)
  /\ Session \in [Proc -> Nat \ {0}] /\ Leader \subseteq Proc
  /\ FlipMax \in Nat /\ Chunks \in Nat
  /\ \A e \in Envs : e.opened \in [Proc -> Line \cup {NULL}] /\ e.setd \subseteq Proc
  /\ \A e \in Envs : \A p, q \in Proc :        \* a master is opened once
       e.opened[p] \in Master /\ e.opened[p] = e.opened[q] => p = q

VARIABLES
  tty,       \* the tty_struct of each slot
  file,      \* filp of each process: private_data and f_op
  ctty,      \* current->signal->tty
  killed,    \* processes with a pending SIGKILL
  pc, loc,   \* where each process is, and its locals there
  work,      \* the work queue: <<handler, tty>>
  timer,     \* ttys whose flip.work is delayed
  wk,        \* the thread that runs the work queue
  defined,   \* registered line disciplines
  ldrefs,    \* tty_ldiscs[].refcount, but for N_TTY
  redirect,  \* the process whose file TIOCCONS installed
  idr,       \* allocated_ptys, by the master
  bkl,       \* owner of the big kernel lock
  env        \* the environment of this behaviour

vars == <<tty, file, ctty, killed, pc, loc, work, timer, wk, defined, ldrefs,
          redirect, idr, bkl, env>>

Free == [live |-> FALSE, count |-> 0, flags |-> {}, disc |-> N_TTY, refs |-> 0,
         session |-> 0, pgrp |-> NULL, stopped |-> FALSE, flip |-> 0, inq |-> 0,
         writer |-> NULL]

NoFile == [t |-> NULL, fops |-> "none"]
NoLoc == [t |-> NULL, d |-> N_TTY, o |-> N_TTY, closing |-> FALSE, o_closing |-> FALSE,
          ref |-> FALSE, work |-> FALSE, exit |-> FALSE, via |-> NULL, left |-> 0]
Idle == [pc |-> "idle", t |-> NULL, ld |-> FALSE]

Op(o) == o \in env.ops
IsSlave(t) == Link[t] # NULL /\ t \notin Master
Files(t) == {p \in Proc : file[p].t = t}

Go(p, to) == pc' = [pc EXCEPT ![p] = to]
Back(p) == Go(p, "user") /\ loc' = [loc EXCEPT ![p] = NoLoc]
Bkl(p) == bkl \in {p, NULL}

-----------------------------------------------------------------------------
(* References to the line discipline.                                       *)

tty_ldisc_try(r) == [r EXCEPT !.refs = @ + 1]

tty_ldisc_deref(r) == [r EXCEPT !.refs = IF @ = 0 THEN 0 ELSE @ - 1]

tty_ldisc_enable(r) == [r EXCEPT !.flags = @ \cup {"LDISC"}]

tty_ldisc_get(d) == [x \in DOMAIN ldrefs |-> IF x = d THEN ldrefs[x] + 1 ELSE ldrefs[x]]

tty_ldisc_put(n, d) == [x \in DOMAIN n |-> IF x = d THEN n[x] - 1 ELSE n[x]]

(* Loading a module defines its discipline; unloading fails while a tty     *)
(* uses it.  A discipline has one module, which is not loaded while it is:  *)
(* the function itself would let a second one clear the count.              *)
tty_register_ldisc(d) ==
  /\ Op("MODULE") /\ d # N_TTY
  /\ IF d \in defined
     THEN /\ ldrefs[d] = 0
          /\ defined' = defined \ {d}
          /\ UNCHANGED ldrefs
     ELSE /\ defined' = defined \cup {d}
          /\ ldrefs' = [ldrefs EXCEPT ![d] = 0]
  /\ UNCHANGED <<tty, file, ctty, killed, pc, loc, work, timer, wk, redirect, idr,
                 bkl, env>>

-----------------------------------------------------------------------------
(* Opening.                                                                 *)

initialize_tty_struct == [Free EXCEPT !.live = TRUE]

(* A new tty, with the other side of a pty; the slave counts its master.    *)
install(t) ==
  [x \in Line |-> CASE x = t -> tty_ldisc_enable([initialize_tty_struct EXCEPT !.count = 1])
                    [] x = Link[t] -> tty_ldisc_enable([initialize_tty_struct EXCEPT
                                        !.count = IF t \in Master THEN 1 ELSE 0])
                    [] OTHER -> tty[x]]

fast_track(t) ==
  [x \in Line |-> IF x = t \/ (t \in Master /\ x = Link[t])
                  THEN [tty[x] EXCEPT !.count = @ + 1] ELSE tty[x]]

(* A tty being closed cannot be opened, nor a pty master twice.             *)
can_open(t) == ~tty[t].live \/ /\ "CLOSING" \notin tty[t].flags
                               /\ t \notin Master \/ tty[t].count = 0

(* Without memory, or when the discipline does not open, everything is      *)
(* undone: such an open is no step.                                         *)
init_dev(t) == can_open(t) /\ tty' = IF tty[t].live THEN fast_track(t) ELSE install(t)

(* The file joins the tty; driver->open, which may sleep, comes next.       *)
OpenFile(p, t, fops) ==
  /\ pc[p] = "user" /\ file[p].t = NULL /\ p \notin killed /\ Bkl(p)
  /\ init_dev(t)
  /\ file' = [file EXCEPT ![p] = [t |-> t, fops |-> fops]]
  /\ Go(p, "open")
  /\ UNCHANGED <<ctty, killed, loc, work, timer, wk, defined, ldrefs, redirect, bkl, env>>

(* Through /dev/tty a process opens its controlling tty; /dev/console has   *)
(* operations of its own.                                                   *)
tty_open(p, t) ==
  /\ \/ Op("OPEN") /\ (t \notin Master \/ ctty[p] = t) /\ OpenFile(p, t, "tty")
     \/ Op("CONSOLE") /\ Link[t] = NULL /\ OpenFile(p, t, "console")
  /\ UNCHANGED idr

(* A master gets a free number.  An open that fails removes its number once *)
(* here, in release_mem; the code then does so a second time, when another  *)
(* open may have it already.                                                *)
ptmx_open(p, t) ==
  /\ Op("PTMX") /\ t \in Master \ idr
  /\ OpenFile(p, t, "tty")
  /\ idr' = idr \cup {t}

(* driver->close may sleep; that of a pty master hangs up the slave.        *)
driver_close(p) ==
  LET t == file[p].t
  IN IF t \in Master THEN Go(p, "hangup") /\ loc' = [loc EXCEPT ![p].t = Link[t]]
                     ELSE Go(p, "close") /\ UNCHANGED loc

(* The rest of tty_open: the driver refused, or the tty is exclusive, and   *)
(* the file is released again; or a session leader gets its tty, even one   *)
(* that was hung up in the meantime.                                        *)
tty_open_end(p) ==
  LET t == file[p].t
      noctty == t \in Master \/ file[p].fops = "console" \/ ~Op("CTTY")
      takes == ~noctty /\ p \in Leader /\ ctty[p] = NULL /\ tty[t].session = 0
  IN /\ pc[p] = "open" /\ Bkl(p)
     /\ \/ /\ Op("FAIL") \/ "EXCLUSIVE" \in tty[t].flags
           /\ driver_close(p)
           /\ UNCHANGED <<tty, ctty>>
        \/ /\ "EXCLUSIVE" \notin tty[t].flags
           /\ ctty' = IF takes THEN [ctty EXCEPT ![p] = t] ELSE ctty
           /\ tty' = IF takes THEN [tty EXCEPT ![t] = [@ EXCEPT !.session = Session[p], !.pgrp = p]]
                            ELSE tty
           /\ Go(p, "user") /\ UNCHANGED loc
     /\ UNCHANGED <<file, killed, work, timer, wk, defined, ldrefs, redirect, idr,
                    bkl, env>>

-----------------------------------------------------------------------------
(* Closing.                                                                 *)

(* The last reference to the file goes: none is held by a redirection or by *)
(* a redirected write.                                                      *)
tty_release(p) ==
  /\ pc[p] = "user" /\ file[p].t # NULL /\ (Op("CLOSE") \/ p \in killed)
  /\ redirect # p /\ \A q \in Proc : loc[q].via # p
  /\ driver_close(p)
  /\ UNCHANGED <<tty, file, ctty, killed, work, timer, wk, defined, ldrefs, redirect, idr,
                 bkl, env>>

(* Which sides are closing, judged under tty_sem, which is then released.  *)
(* The second down() is assumed not to sleep.                               *)
release_dev_closing(p) ==
  LET t == file[p].t
      o == Link[t]
  IN /\ pc[p] = "close" /\ Bkl(p)
     /\ loc' = [loc EXCEPT ![p] = [@ EXCEPT !.closing = tty[t].count <= 1,
          !.o_closing = o # NULL /\ tty[o].count <= IF t \in Master THEN 1 ELSE 0]]
     /\ bkl' = p
     /\ Go(p, "count")
     /\ UNCHANGED <<tty, file, ctty, killed, work, timer, wk, defined, ldrefs, redirect, idr,
                    env>>

(* Faulty variant: the sessions keep their controlling tty.                 *)
forget_cttyNever(t) == ctty

(* No process keeps a closing tty, or its other side, as controlling tty.   *)
forget_ctty(t) ==
  LET gone == {tty[t].session} \cup {tty[o].session : o \in {Link[t]} \ {NULL}}
  IN [q \in Proc |-> IF Session[q] \in gone THEN NULL ELSE ctty[q]]

(* Faulty variant: a master does not give its count of the slave back.      *)
uncountOneSide(t, r, x) == IF x = t THEN r.count - 1 ELSE r.count

uncount(t, r, x) == IF x = t \/ (t \in Master /\ x = Link[t]) THEN r.count - 1 ELSE r.count

(* The counts go down and the file leaves the tty; the last close of both   *)
(* sides goes on to free them.                                              *)
release_dev_count(p) ==
  LET t == file[p].t
      o == Link[t]
      l == loc[p]
      last == l.closing /\ (o = NULL \/ l.o_closing)
      closed(x) == (x = t /\ l.closing) \/ (x = o /\ l.o_closing)
  IN /\ pc[p] = "count" /\ Bkl(p)
     /\ tty' = [x \in Line |-> [tty[x] EXCEPT
                  !.count = uncount(t, tty[x], x),
                  !.flags = (@ \cup (IF closed(x) THEN {"CLOSING"} ELSE {}))
                            \ (IF last /\ x = t THEN {"LDISC", "DONT_FLIP"} ELSE {})]]
     /\ file' = [file EXCEPT ![p] = NoFile]
     /\ ctty' = IF l.closing \/ l.o_closing THEN forget_ctty(t) ELSE ctty
     /\ timer' = IF last THEN timer \ {t} ELSE timer
     /\ bkl' = NULL
     /\ IF last THEN Go(p, "flush") /\ loc' = [loc EXCEPT ![p].t = t] ELSE Back(p)
     /\ UNCHANGED <<killed, work, wk, defined, ldrefs, redirect, idr, env>>

flushed == work = {} /\ wk = Idle

(* flush_scheduled_work, and the wait for the last short-term user.         *)
release_dev_flush(p) ==
  /\ pc[p] = "flush" /\ flushed
  /\ Go(p, "free")
  /\ UNCHANGED <<tty, file, ctty, killed, loc, work, timer, wk, defined, ldrefs, redirect,
                 idr, bkl, env>>

(* The disciplines are closed and both sides freed.                         *)
release_mem(p) ==
  LET t == loc[p].t
      sides == {t} \cup ({Link[t]} \ {NULL})
  IN /\ pc[p] = "free" /\ Bkl(p) /\ tty[t].refs = 0
     /\ ldrefs' = [d \in DOMAIN ldrefs |->
                     ldrefs[d] - Cardinality({x \in sides : tty[x].disc = d})]
     /\ tty' = [x \in Line |-> IF x \in sides THEN Free ELSE tty[x]]
     /\ idr' = idr \ sides
     /\ Back(p)
     /\ UNCHANGED <<file, ctty, killed, work, timer, wk, defined, redirect, bkl, env>>

-----------------------------------------------------------------------------
(* Changing the line discipline.                                            *)

(* A process in the background may not change its controlling tty.          *)
tty_check_change(p, t) == ctty[p] # t \/ tty[t].pgrp \in {p, NULL}

(* The reference to the new discipline, and the old one remembered; output  *)
(* of a driver that drains (DRAIN) makes the process sleep after that.      *)
tty_set_ldisc(p, d) ==
  LET t == file[p].t
  IN /\ t # NULL /\ Bkl(p)
     /\ \/ pc[p] = "user" /\ p \in env.setd /\ file[p].fops # "hung" /\ p \notin killed
           /\ tty_check_change(p, t)
        \/ pc[p] = "setd" /\ loc[p].d = d /\ tty[t].refs = 0
     /\ IF tty[t].disc = d \/ d \notin defined
        THEN pc[p] = "setd" /\ Back(p) /\ UNCHANGED <<ldrefs, bkl>>
        ELSE /\ ldrefs' = tty_ldisc_get(d)
             /\ Go(p, "switch")
             /\ loc' = [loc EXCEPT ![p] = [@ EXCEPT !.d = d, !.o = tty[t].disc]]
             /\ bkl' = IF Op("DRAIN") THEN NULL ELSE p
     /\ UNCHANGED <<tty, file, ctty, killed, work, timer, wk, defined, redirect, idr, env>>

(* Faulty variant: a discipline is taken away under its users.              *)
tty_set_ldisc_lockBusy(p) ==
  LET t == file[p].t
  IN /\ pc[p] = "switch" /\ Bkl(p)
     /\ tty' = [tty EXCEPT ![t].flags = @ \ {"LDISC", "DONT_FLIP"}]
     /\ loc' = [loc EXCEPT ![p].work = t \in timer]
     /\ timer' = timer \ {t}
     /\ Go(p, "swflush")
     /\ bkl' = NULL
     /\ UNCHANGED <<file, ctty, killed, work, wk, defined, ldrefs, redirect, idr, env>>

(* With users the new reference is given up and the process waits for them; *)
(* without, TTY_LDISC is cleared, which keeps new ones out.                 *)
tty_set_ldisc_lock(p) ==
  LET t == file[p].t
  IN /\ pc[p] = "switch" /\ Bkl(p)
     /\ IF tty[t].refs # 0
        THEN /\ ldrefs' = tty_ldisc_put(ldrefs, loc[p].d)
             /\ Go(p, "setd")
             /\ UNCHANGED <<tty, timer, loc>>
        ELSE /\ tty' = [tty EXCEPT ![t].flags = @ \ {"LDISC", "DONT_FLIP"}]
             /\ loc' = [loc EXCEPT ![p].work = t \in timer]
             /\ timer' = timer \ {t}
             /\ Go(p, "swflush")
             /\ UNCHANGED ldrefs
     /\ bkl' = NULL
     /\ UNCHANGED <<file, ctty, killed, work, wk, defined, redirect, idr, env>>

(* Any signal ends the wait while there are users of the old discipline.    *)
tty_set_ldisc_signal(p) ==
  /\ pc[p] = "setd" /\ tty[file[p].t].refs # 0
  /\ Back(p)
  /\ UNCHANGED <<tty, file, ctty, killed, work, timer, wk, defined, ldrefs, redirect, idr,
                 bkl, env>>

(* The old discipline is closed and the new one opened; if that fails the   *)
(* old one comes back, and if that fails too N_TTY.  TTY_LDISC is set again *)
(* and the delayed work restarted.                                          *)
tty_set_ldisc_open(p) ==
  LET t == file[p].t
      l == loc[p]
  IN /\ pc[p] = "swflush" /\ flushed /\ Bkl(p)
     /\ \E d \in {l.d} \cup (IF Op("FAIL") THEN {l.o, N_TTY} ELSE {}) :
          /\ tty' = [tty EXCEPT ![t] = tty_ldisc_enable([@ EXCEPT !.disc = d])]
          /\ ldrefs' = [x \in DOMAIN ldrefs |-> ldrefs[x]
                          - (IF x = l.d /\ d # l.d THEN 1 ELSE 0)
                          + (IF x = d /\ d # l.d THEN 1 ELSE 0)
                          - (IF x = l.o THEN 1 ELSE 0)]
     /\ timer' = IF l.work THEN timer \cup {t} ELSE timer
     /\ Back(p)
     /\ UNCHANGED <<file, ctty, killed, work, wk, defined, redirect, idr, bkl, env>>

-----------------------------------------------------------------------------
(* Reading, writing and the other users of the discipline.  The wait in     *)
(* tty_ldisc_ref_wait is a guard: until TTY_LDISC is set the call does not  *)
(* begin.                                                                   *)

hung(p) == file[p].fops = "hung"

(* A call of process p on its own file takes a reference.                   *)
tty_ldisc_ref_wait(p, t, to) ==
  /\ pc[p] = "user" /\ file[p].t # NULL /\ p \notin killed
  /\ "LDISC" \in tty[t].flags
  /\ tty' = [tty EXCEPT ![t] = tty_ldisc_try(@)]
  /\ Go(p, to)

tty_read(p) ==
  LET t == file[p].t
  IN /\ Op("READ") /\ ~hung(p)
     /\ tty_ldisc_ref_wait(p, t, "read")
     /\ loc' = [loc EXCEPT ![p].t = t]
     /\ UNCHANGED <<file, ctty, killed, work, timer, wk, defined, ldrefs, redirect, idr,
                    bkl, env>>

(* The discipline's read (N_TTY): it sleeps until there is input, the file  *)
(* is hung up or a signal arrives, and keeps the flip buffer from being     *)
(* emptied while it copies.                                                 *)
n_tty_read(p) ==
  LET t == loc[p].t
  IN /\ pc[p] = "read" /\ Bkl(p) /\ tty[t].inq > 0
     /\ \A q \in Proc : pc[q] = "copy" => loc[q].t # t
     /\ tty' = [tty EXCEPT ![t] = [@ EXCEPT !.flags = tty[t].flags \cup {"DONT_FLIP"},
                                            !.inq = 0]]
     /\ Go(p, "copy")
     /\ UNCHANGED <<file, ctty, killed, loc, work, timer, wk, defined, ldrefs, redirect, idr,
                    bkl, env>>

tty_read_end(p) ==
  LET t == loc[p].t
  IN /\ pc[p] = "copy" \/ (pc[p] = "read" /\ (hung(p) \/ p \in killed))
     /\ tty' = [tty EXCEPT ![t] = tty_ldisc_deref(
                  IF pc[p] = "copy" THEN [@ EXCEPT !.flags = tty[t].flags \ {"DONT_FLIP"}] ELSE @)]
     /\ Back(p)
     /\ UNCHANGED <<file, ctty, killed, work, timer, wk, defined, ldrefs, redirect, idr,
                    bkl, env>>

(* A write to /dev/console goes to the file TIOCCONS redirected it to, and  *)
(* holds that file (loc.via) until it is done.                              *)
redirected_tty_write(p) ==
  IF file[p].fops = "console" /\ redirect # NULL THEN redirect ELSE p

tty_write(p) ==
  LET q == redirected_tty_write(p)
      t == file[q].t
  IN /\ Op("WRITE") /\ ~hung(q)
     /\ tty_ldisc_ref_wait(p, t, "write")
     /\ loc' = [loc EXCEPT ![p] = [@ EXCEPT !.t = t, !.via = q, !.left = Chunks]]
     /\ UNCHANGED <<file, ctty, killed, work, timer, wk, defined, ldrefs, redirect, idr,
                    bkl, env>>

(* One chunk of a write, under atomic_write from the first to the last; a   *)
(* stopped tty takes no output.                                             *)
do_tty_write(p) ==
  LET t == loc[p].t
  IN /\ pc[p] = "write" /\ Bkl(p) /\ tty[t].writer \in {NULL, p}
     /\ loc[p].left > 0 /\ ~tty[t].stopped /\ ~hung(loc[p].via)
     /\ loc' = [loc EXCEPT ![p].left = @ - 1]
     /\ tty' = [tty EXCEPT ![t].writer = p]
     /\ UNCHANGED <<file, ctty, killed, pc, work, timer, wk, defined, ldrefs, redirect, idr,
                    bkl, env>>

(* All is written, or a signal or a hangup ends the write.                  *)
do_tty_write_end(p) ==
  LET t == loc[p].t
  IN /\ pc[p] = "write"
     /\ loc[p].left = 0 \/ p \in killed \/ hung(loc[p].via)
     /\ tty' = [tty EXCEPT ![t] = tty_ldisc_deref([@ EXCEPT
                  !.writer = IF tty[t].writer = p THEN NULL ELSE tty[t].writer])]
     /\ Back(p)
     /\ UNCHANGED <<file, ctty, killed, work, timer, wk, defined, ldrefs, redirect, idr,
                    bkl, env>>

(* tty_poll, TIOCSTI and the ioctls that only the discipline knows; TIOCSTI *)
(* adds a character of input.                                               *)
tty_poll(p) ==
  LET t == file[p].t
  IN /\ Op("USE") /\ ~hung(p)
     /\ tty_ldisc_ref_wait(p, t, "use")
     /\ loc' = [loc EXCEPT ![p].t = t]
     /\ UNCHANGED <<file, ctty, killed, work, timer, wk, defined, ldrefs, redirect, idr,
                    bkl, env>>

tiocsti(p) ==
  LET t == loc[p].t
  IN /\ pc[p] = "use"
     /\ \E n \in {0, 1} :
          /\ tty[t].inq + n <= FlipMax
          /\ tty' = [tty EXCEPT ![t] = tty_ldisc_deref([@ EXCEPT !.inq = tty[t].inq + n])]
     /\ Back(p)
     /\ UNCHANGED <<file, ctty, killed, work, timer, wk, defined, ldrefs, redirect, idr,
                    bkl, env>>

(* Flow control.                                                            *)
stop_tty(t) ==
  /\ Op("FLOW") /\ tty[t].live
  /\ tty' = [tty EXCEPT ![t].stopped = ~@]
  /\ UNCHANGED <<file, ctty, killed, pc, loc, work, timer, wk, defined, ldrefs, redirect, idr,
                 bkl, env>>

-----------------------------------------------------------------------------
(* The controlling tty, and the other ioctls of tty_ioctl.                  *)

InIoctl(p) == pc[p] = "user" /\ file[p].t # NULL /\ ~hung(p) /\ p \notin killed /\ Bkl(p)

real_tty(t) == IF t \in Master THEN Link[t] ELSE t

(* Faulty variant: the session the tty is taken from keeps it.              *)
stolenKeeps(t) == ctty

stolen(t) == [q \in Proc |-> IF tty[t].session > 0 /\ Session[q] = tty[t].session
                              THEN NULL ELSE ctty[q]]

(* TIOCSCTTY; the superuser steals the tty of another session.              *)
tiocsctty(p) ==
  LET t == file[p].t
  IN /\ Op("SCTTY") /\ InIoctl(p)
     /\ p \in Leader /\ Session[p] # tty[t].session /\ ctty[p] = NULL
     /\ ctty' = [stolen(t) EXCEPT ![p] = t]
     /\ tty' = [tty EXCEPT ![t] = [@ EXCEPT !.session = Session[p], !.pgrp = p]]
     /\ UNCHANGED <<file, killed, pc, loc, work, timer, wk, defined, ldrefs, redirect, idr,
                    bkl, env>>

tiocspgrp(p, g) ==
  LET t == real_tty(file[p].t)
  IN /\ Op("PGRP") /\ InIoctl(p)
     /\ tty_check_change(p, t) /\ ctty[p] = t /\ tty[t].session = Session[p]
     /\ Session[g] = Session[p]
     /\ tty' = [tty EXCEPT ![t].pgrp = g]
     /\ UNCHANGED <<file, ctty, killed, pc, loc, work, timer, wk, defined, ldrefs, redirect,
                    idr, bkl, env>>

(* The last part of disassociate_ctty.                                      *)
disown(p, t) ==
  /\ tty' = [tty EXCEPT ![t] = [@ EXCEPT !.session = 0, !.pgrp = NULL]]
  /\ ctty' = [q \in Proc |-> IF Session[q] = Session[p] THEN NULL ELSE ctty[q]]

(* TIOCNOTTY: a session leader takes the tty from the whole session.        *)
tiocnotty(p) ==
  LET t == file[p].t
  IN /\ Op("NOTTY") /\ InIoctl(p) /\ ctty[p] = t
     /\ IF p \in Leader THEN disown(p, t)
                        ELSE ctty' = [ctty EXCEPT ![p] = NULL] /\ UNCHANGED tty
     /\ UNCHANGED <<file, killed, pc, loc, work, timer, wk, defined, ldrefs, redirect, idr,
                    bkl, env>>

(* A session leader exits with its files closed: a tty that is no pty is    *)
(* hung up first.                                                           *)
disassociate_ctty(p) ==
  LET t == ctty[p]
  IN /\ Op("EXIT") \/ p \in killed
     /\ pc[p] = "user" /\ p \in Leader /\ file[p].t = NULL /\ t # NULL
     /\ Bkl(p)
     /\ Go(p, IF Link[t] = NULL THEN "hangup" ELSE "exit")
     /\ loc' = [loc EXCEPT ![p] = [@ EXCEPT !.t = t, !.exit = TRUE]]
     /\ bkl' = p
     /\ UNCHANGED <<tty, file, ctty, killed, work, timer, wk, defined, ldrefs, redirect, idr,
                    env>>

disassociate_ctty_end(p) ==
  /\ pc[p] = "exit" /\ Bkl(p)
  /\ disown(p, loc[p].t)
  /\ Go(p, "dead") /\ loc' = [loc EXCEPT ![p] = NoLoc]
  /\ bkl' = NULL
  /\ UNCHANGED <<file, killed, work, timer, wk, defined, ldrefs, redirect, idr, env>>

(* TIOCEXCL and TIOCNXCL.                                                   *)
tiocexcl(p) ==
  LET t == file[p].t
  IN /\ Op("EXCL") /\ InIoctl(p)
     /\ tty' = [tty EXCEPT ![t].flags = IF "EXCLUSIVE" \in @ THEN @ \ {"EXCLUSIVE"}
                                        ELSE @ \cup {"EXCLUSIVE"}]
     /\ UNCHANGED <<file, ctty, killed, pc, loc, work, timer, wk, defined, ldrefs, redirect,
                    idr, bkl, env>>

(* TIOCCONS on /dev/console ends the redirection, on another tty begins one.*)
tioccons(p) ==
  /\ Op("CONS") /\ InIoctl(p) /\ file[p].t \notin Master
  /\ \/ file[p].fops = "console" /\ redirect' = NULL
     \/ file[p].fops = "tty" /\ redirect = NULL /\ redirect' = p
  /\ UNCHANGED <<tty, file, ctty, killed, pc, loc, work, timer, wk, defined, ldrefs, idr,
                 bkl, env>>

-----------------------------------------------------------------------------
(* The driver's side: input through the flip buffer, hangups, SAK.          *)

(* schedule_delayed_work does nothing while the work is delayed or queued.  *)
delay(t) == IF <<"flip", t>> \in work THEN timer ELSE timer \cup {t}

(* A driver delivers input as long as a file keeps it open.                 *)
tty_flip_buffer_push(t) ==
  /\ Op("RX") /\ Link[t] = NULL /\ tty[t].flip < FlipMax
  /\ \E p \in Files(t) : ~hung(p) /\ pc[p] \notin {"close", "count"}
  /\ tty' = [tty EXCEPT ![t].flip = @ + 1]
  /\ timer' = delay(t)
  /\ UNCHANGED <<file, ctty, killed, pc, loc, work, wk, defined, ldrefs, redirect, idr,
                 bkl, env>>

delayed_work(t) ==
  /\ t \in timer
  /\ timer' = timer \ {t}
  /\ work' = work \cup {<<"flip", t>>}
  /\ UNCHANGED <<tty, file, ctty, killed, pc, loc, wk, defined, ldrefs, redirect, idr,
                 bkl, env>>

(* A hangup by the driver and the secure attention key only queue work.     *)
Queue(t, handler) ==
  /\ \E p \in Files(t) : ~hung(p) /\ pc[p] \notin {"close", "count"}
  /\ work' = work \cup {<<handler, t>>}
  /\ UNCHANGED <<tty, file, ctty, killed, pc, loc, timer, wk, defined, ldrefs, redirect, idr,
                 bkl, env>>

tty_hangup(t) == Op("CARRIER") /\ Queue(t, "hangup")

(* Bound: the key is pressed until it has killed someone.                   *)
do_SAK(t) == Op("SAK") /\ killed = {} /\ Queue(t, "SAK")

flush_to_ldisc(t) ==
  /\ <<"flip", t>> \in work /\ wk = Idle
  /\ work' = work \ {<<"flip", t>>}
  /\ IF "LDISC" \in tty[t].flags
     THEN /\ tty' = [tty EXCEPT ![t] = tty_ldisc_try(@)]
          /\ wk' = [pc |-> "flip", t |-> t, ld |-> TRUE]
     ELSE UNCHANGED <<tty, wk>>
  /\ UNCHANGED <<file, ctty, killed, pc, loc, timer, defined, ldrefs, redirect, idr, bkl, env>>

(* While a reader copies, the work is delayed again.                        *)
flush_to_ldisc_end ==
  LET t == wk.t
      n == tty[t].inq + tty[t].flip
  IN /\ wk.pc = "flip"
     /\ IF "DONT_FLIP" \in tty[t].flags
        THEN /\ tty' = [tty EXCEPT ![t] = tty_ldisc_deref(@)]
             /\ timer' = delay(t)
        ELSE /\ tty' = [tty EXCEPT ![t] = tty_ldisc_deref([@ EXCEPT
                          !.flip = 0, !.inq = IF n > FlipMax THEN FlipMax ELSE n])]
             /\ UNCHANGED timer
     /\ wk' = Idle
     /\ UNCHANGED <<file, ctty, killed, pc, loc, work, defined, ldrefs, redirect, idr,
                    bkl, env>>

(* do_tty_hangup up to driver->hangup: the redirection ends, the files get  *)
(* the operations of a hung up tty (but not those of /dev/console), the     *)
(* session loses the tty, and all flags are cleared.                        *)
hangup(t) ==
  LET ld == "LDISC" \in tty[t].flags
  IN /\ redirect' = IF redirect # NULL /\ file[redirect].t = t THEN NULL ELSE redirect
     /\ file' = [p \in Proc |-> IF file[p] = [t |-> t, fops |-> "tty"]
                                 THEN [t |-> t, fops |-> "hung"] ELSE file[p]]
     /\ ctty' = [p \in Proc |-> IF ctty[p] = t /\ Session[p] = tty[t].session
                                 THEN NULL ELSE ctty[p]]
     /\ tty' = [tty EXCEPT ![t] = [IF ld THEN tty_ldisc_try(@) ELSE @ EXCEPT
                  !.inq = IF ld THEN 0 ELSE tty[t].inq,
                  !.flags = {}, !.session = 0, !.pgrp = NULL]]

(* Faulty variant: the discipline stays disabled.                           *)
hangup_endDisabled(t, ld) ==
  LET r == [tty[t] EXCEPT !.flags = @ \cup {"HUPPED"}]
  IN tty' = [tty EXCEPT ![t] = IF ld THEN tty_ldisc_deref(r) ELSE r]

(* The rest: the discipline is enabled again if there was one.              *)
hangup_end(t, ld) ==
  LET r == [tty[t] EXCEPT !.flags = @ \cup {"HUPPED"}]
  IN tty' = [tty EXCEPT ![t] = IF ld THEN tty_ldisc_deref(tty_ldisc_enable(r)) ELSE r]

(* A hangup in the context of a process: on its exit, and of the slave when *)
(* the master of a pty is closed.                                           *)
tty_vhangup(p) ==
  LET t == loc[p].t
  IN /\ pc[p] = "hangup" /\ Bkl(p)
     /\ hangup(t)
     /\ Go(p, "hangup_end")
     /\ loc' = [loc EXCEPT ![p].ref = "LDISC" \in tty[t].flags]
     /\ bkl' = IF Op("SLEEP") THEN NULL ELSE p
     /\ UNCHANGED <<killed, work, timer, wk, defined, ldrefs, idr, env>>

tty_vhangup_end(p) ==
  /\ pc[p] = "hangup_end" /\ Bkl(p)
  /\ hangup_end(loc[p].t, loc[p].ref)
  /\ IF loc[p].exit THEN Go(p, "exit") /\ loc' = [loc EXCEPT ![p].ref = FALSE]
                    ELSE Go(p, "close") /\ loc' = [loc EXCEPT ![p] = NoLoc]
  /\ bkl' = IF loc[p].exit THEN p ELSE NULL
  /\ UNCHANGED <<file, ctty, killed, work, timer, wk, defined, ldrefs, redirect, idr,
                 env>>

do_tty_hangup(t) ==
  /\ <<"hangup", t>> \in work /\ wk = Idle /\ Bkl(Worker)
  /\ work' = work \ {<<"hangup", t>>}
  /\ hangup(t)
  /\ wk' = [pc |-> "hangup", t |-> t, ld |-> "LDISC" \in tty[t].flags]
  /\ bkl' = IF Op("SLEEP") THEN NULL ELSE Worker
  /\ UNCHANGED <<killed, pc, loc, timer, defined, ldrefs, idr, env>>

do_tty_hangup_end ==
  /\ wk.pc = "hangup" /\ Bkl(Worker)
  /\ hangup_end(wk.t, wk.ld)
  /\ wk' = Idle
  /\ bkl' = NULL
  /\ UNCHANGED <<file, ctty, killed, pc, loc, work, timer, defined, ldrefs, redirect, idr,
                 env>>

(* Input is flushed and the tty's session is killed.  Without a discipline  *)
(* tty_ldisc_deref(NULL) stops the kernel.                                  *)
__do_SAK(t) ==
  LET ld == "LDISC" \in tty[t].flags
      s == tty[t].session
  IN /\ <<"SAK", t>> \in work /\ wk = Idle
     /\ work' = work \ {<<"SAK", t>>}
     /\ tty' = IF ld THEN [tty EXCEPT ![t].inq = 0] ELSE tty
     /\ killed' = IF ld THEN killed \cup {p \in Proc : s > 0 /\ Session[p] = s} ELSE killed
     /\ wk' = IF ld THEN wk ELSE [Idle EXCEPT !.pc = "BUG"]
     /\ UNCHANGED <<file, ctty, pc, loc, timer, defined, ldrefs, redirect, idr, bkl,
                    env>>

-----------------------------------------------------------------------------

Init ==
  /\ env \in Envs
  /\ file = [p \in Proc |-> IF env.opened[p] = NULL THEN NoFile
                             ELSE [t |-> env.opened[p], fops |-> "tty"]]
  /\ tty = [t \in Line |->
       LET n == Cardinality({p \in Proc : env.opened[p] = t})
           o == Cardinality({p \in Proc : Link[t] # NULL /\ env.opened[p] = Link[t]})
       IN IF n + o = 0 THEN Free
          ELSE tty_ldisc_enable([initialize_tty_struct EXCEPT
                 !.count = IF IsSlave(t) /\ o > 0 THEN n + 1 ELSE n])]
  /\ ctty = [p \in Proc |-> NULL] /\ killed = {}
  /\ pc = [p \in Proc |-> "user"] /\ loc = [p \in Proc |-> NoLoc]
  /\ work = {} /\ timer = {} /\ wk = Idle
  /\ defined = Ldisc /\ ldrefs = [d \in Ldisc \ {N_TTY} |-> 0]
  /\ redirect = NULL /\ idr = {t \in Master : tty[t].live}
  /\ bkl = NULL

Syscall(p) ==
  \/ \E t \in Line : tty_open(p, t) \/ ptmx_open(p, t)
  \/ tty_open_end(p) \/ tty_release(p)
  \/ release_dev_closing(p) \/ release_dev_count(p) \/ release_dev_flush(p) \/ release_mem(p)
  \/ (\E d \in Ldisc : tty_set_ldisc(p, d))
  \/ tty_set_ldisc_lock(p) \/ tty_set_ldisc_signal(p) \/ tty_set_ldisc_open(p)
  \/ tty_read(p) \/ n_tty_read(p) \/ tty_read_end(p)
  \/ tty_write(p) \/ do_tty_write(p) \/ do_tty_write_end(p)
  \/ tty_poll(p) \/ tiocsti(p)
  \/ tiocsctty(p) \/ (\E g \in Proc : tiocspgrp(p, g)) \/ tiocnotty(p)
  \/ tiocexcl(p) \/ tioccons(p)
  \/ disassociate_ctty(p) \/ disassociate_ctty_end(p) \/ tty_vhangup(p) \/ tty_vhangup_end(p)

Driver(t) == stop_tty(t) \/ tty_flip_buffer_push(t) \/ delayed_work(t)
             \/ tty_hangup(t) \/ do_SAK(t)

keventd == \/ \E t \in Line : flush_to_ldisc(t) \/ do_tty_hangup(t) \/ __do_SAK(t)
           \/ flush_to_ldisc_end \/ do_tty_hangup_end

Next == (\E p \in Proc : Syscall(p)) \/ (\E t \in Line : Driver(t)) \/ keventd
        \/ (\E d \in Ldisc : tty_register_ldisc(d))

Spec == Init /\ [][Next]_vars

-----------------------------------------------------------------------------
(* Properties.                                                              *)

(* tty->count is the number of files on the tty, and one more for a slave   *)
(* whose master is open (check_tty_count), through failed opens, hangups    *)
(* and closes of either side in any order.                                  *)
CountExact ==
  \A t \in Line : tty[t].live =>
    tty[t].count = Cardinality(Files(t))
                   + (IF IsSlave(t) /\ tty[Link[t]].count > 0 THEN 1 ELSE 0)

(* Nothing refers to a tty_struct that release_mem freed: no file, no       *)
(* controlling tty, no redirection, no delayed or queued work, no call in   *)
(* progress.                                                                *)
NoDangling ==
  \A t \in Line : ~tty[t].live =>
    /\ Files(t) = {} /\ \A p \in Proc : ctty[p] # t /\ loc[p].t # t
    /\ t \notin timer /\ wk.t # t /\ \A w \in work : w[2] # t

Users(t) == {p \in Proc : /\ loc[p].t = t
                          /\ \/ pc[p] \in {"read", "copy", "write", "use"}
                             \/ pc[p] = "hangup_end" /\ loc[p].ref}

(* The reference count of a tty's discipline is the number of calls that    *)
(* use it.                                                                  *)
UsersExact ==
  \A t \in Line : tty[t].refs = Cardinality(Users(t)) + (IF wk.t = t /\ wk.ld THEN 1 ELSE 0)

Holders(d) == {t \in Line : tty[t].disc = d}
              \cup {p \in Proc : pc[p] \in {"switch", "swflush"} /\ loc[p].d = d}

(* The count of a discipline in the table is that of the ttys it is set on  *)
(* and of the changes to it under way.  None of them is unregistered.       *)
TableExact ==
  \A d \in DOMAIN ldrefs :
    ldrefs[d] = Cardinality(Holders(d)) /\ (Holders(d) # {} => d \in defined)

(* The counts of the files, of the users of a tty's discipline and of those *)
(* of a discipline are exact: tty_release frees, and tty_set_ldisc and      *)
(* tty_register_ldisc replace and remove, by what they say.                 *)
CountsExact == CountExact /\ UsersExact /\ TableExact

(* A tty whose discipline is disabled is being closed, or a change of       *)
(* discipline or a hangup under way will enable it: no call waits for ever  *)
(* in tty_ldisc_ref_wait.                                                   *)
EnableOwed ==
  \A t \in Line : tty[t].live /\ "LDISC" \notin tty[t].flags =>
    \/ wk.t = t /\ wk.ld
    \/ \E p \in Proc : \/ pc[p] = "swflush" /\ file[p].t = t
                       \/ pc[p] \in {"flush", "free"} /\ loc[p].t = t
                       \/ pc[p] = "hangup_end" /\ loc[p].t = t /\ loc[p].ref

(* A controlling tty is live and belongs to the session of its process, and *)
(* its foreground process group is one of that session: no session can read *)
(* or signal through the tty of another.                                    *)
CttySound ==
  /\ \A p \in Proc : ctty[p] # NULL =>
       tty[ctty[p]].live /\ tty[ctty[p]].session = Session[p]
  /\ \A t \in Line : tty[t].pgrp # NULL => Session[tty[t].pgrp] = tty[t].session

(* Who could still take a reference: a file, queued work, a hangup.         *)
Reachable(t) == \/ Files(t) # {} \/ wk.t = t \/ \E w \in work : w[2] = t
                \/ \E p \in Proc : pc[p] \in {"hangup", "hangup_end"} /\ loc[p].t = t

(* The ttys implement the promise of their line disciplines: none is closed *)
(* or replaced under a user, or while somebody could become one.            *)
LD == INSTANCE Ldisc WITH Tty <- Line, Disc <- Ldisc, Default <- N_TTY,
        disc <- [t \in Line |-> tty[t].disc],
        users <- [t \in Line |-> tty[t].refs],
        usable <- [t \in Line |-> "LDISC" \in tty[t].flags /\ Reachable(t)]

LdiscPromise == LD!LSpec
=============================================================================
