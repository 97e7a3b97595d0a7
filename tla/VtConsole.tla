----------------------------- MODULE VtConsole -----------------------------
(***************************************************************************)
(* The virtual terminals of the ruby console layer: the pool of virtual    *)
(* consoles of every display, the switch between them with its VT_PROCESS  *)
(* handshake, and screen blanking.                                         *)
(*                                                                         *)
(* Source: drivers/char/vt.c (allocation, blanking, vt_callback, tty       *)
(* open/close, TIOCLINUX), drivers/char/vt_ioctl.c (the switching ioctls), *)
(* drivers/char/keyboard.c (the keys that reach them) and decvte.c (the    *)
(* setterm escape sequences).                                              *)
(*                                                                         *)
(* A display is a struct vt_struct, a console a struct vc_data.  Consoles  *)
(* are objects with an address, because the code keeps pointers to them    *)
(* (fg_console, last_console, want_vc, tty->driver_data) that outlive      *)
(* kfree: a freed object keeps its contents until its address is handed    *)
(* out again.                                                              *)
(*                                                                         *)
(* Every ioctl runs under the big kernel lock, which is dropped where the  *)
(* code sleeps; so an ioctl is one step up to its acquire_console_sem and  *)
(* one step under the semaphore.  The keyboard and the timer are           *)
(* interrupts and take no lock.                                            *)
(***************************************************************************)
EXTENDS Integers, FiniteSets, Functions

CONSTANTS
  NVT,        \* number of displays on vt_list
  VcCount,    \* vt->vc_count, the same for every display
  Obj,        \* addresses kmalloc can hand out for a struct vc_data
  Proc,       \* processes that open consoles and issue ioctls
  NULL,
  Fds,        \* Fds[p]: the consoles process p may have open
  Opened,     \* consoles whose tty is open in the initial state
  Closable,   \* consoles whose tty may be opened and closed
  Ops         \* the operations that userland and the keyboard issue

VT    == 0 .. NVT - 1
Index == 0 .. VcCount - 1
Slot  == VT \X Index          \* a console number: display and place in it

(***************************************************************************)
(* vc_num, which numbers the consoles of all displays consecutively.       *)
(***************************************************************************)
Num(s) == s[1] * VcCount + s[2]
First(t) == <<t, 0>>

(* What a process inside an ioctl remembers: the tty it called on, the      *)
(* console it looked up and the number it was given.                        *)
Locals == [tty : Slot, obj : Obj \cup {NULL}, slot : Slot]

AllOps == {"KDSETMODE_GRAPHICS", "KDSETMODE_TEXT", "VT_SETMODE", "VT_ACTIVATE",
           "VT_WAITACTIVE", "VT_RELDISP", "VT_DISALLOCATE", "VT_LOCKSWITCH",
           "BLANKSCREEN", "UNBLANKSCREEN", "SETTERM", "PRINTK", "EXIT", "SIGNAL",
           "K_KEY", "K_CONS", "K_LASTCONS", "K_DECR", "K_INCR", "K_SCROLL",
           "K_SAK", "TIMER"}

ASSUME SizeAssumption == NVT \in Nat \ {0} /\ VcCount \in Nat \ {0}
ASSUME AgentAssumption == Proc \cap VT = {}
ASSUME NullAssumption == NULL \notin Proc \cup VT \cup Obj \cup Slot \cup Locals
ASSUME FdsAssumption == Fds \in [Proc -> SUBSET Slot]
ASSUME InitAssumption == Opened \subseteq Slot /\ Closable \subseteq Slot
ASSUME OpsAssumption == Ops \subseteq AllOps

VARIABLES
  vc,           \* Obj -> struct vc_data
  vc_cons,      \* vt->vc_cons[], flattened: Slot -> Obj or NULL
  driver_data,  \* tty->driver_data of the tty of a console, NULL if closed
  vt,           \* VT -> the switching state of struct vt_struct
  bl,           \* VT -> the blanking state of struct vt_struct
  poke,         \* do_poke_blanked_console
  ignore_poke,
  sem,          \* console_sem: its holder, or NULL
  pc,           \* where each callback and each process is
  arg,          \* the locals of a process inside an ioctl
  alive         \* the processes that have not exited

vars == <<vc, vc_cons, driver_data, vt, bl, poke, ignore_poke, sem, pc, arg, alive>>

Agent == VT \cup Proc         \* a display stands for its vt_work

VcData == [live : BOOLEAN, slot : Slot, mode : {"KD_TEXT", "KD_GRAPHICS"},
           vt_mode : {"VT_AUTO", "VT_PROCESS"}, vt_pid : Proc \cup {NULL},
           vt_newvt : Slot \cup {NULL}, vc_tty : BOOLEAN]

VtStruct == [fg_console : Obj, last_console : Obj, want_vc : Obj,
             dont_switch : BOOLEAN, scroll : BOOLEAN, work : BOOLEAN]

BlankState == [blanked : BOOLEAN, state : {"off", "normal_wait", "vesa_wait"},
               timer : BOOLEAN, expired : BOOLEAN,
               interval : BOOLEAN, off_interval : BOOLEAN]

CallbackPc == {"idle", "acquire", "locked", "stuck"}
IoctlPc == {"idle", "unblank", "blank_gfx", "activate", "waitactive", "asleep",
            "reldisp", "disallocate", "stuck"}

-----------------------------------------------------------------------------
(* Helpers on one struct vc_data or one display.                            *)

Disp(o) == vc[o].slot[1]                 \* vc->display_fg
Fg(t) == vt[t].fg_console
Visible(o) == Fg(Disp(o)) = o            \* IS_VISIBLE
find_vc(s) == vc_cons[s]

(* Faulty variant: the result of kill_proc is taken the wrong way round.    *)
ReachableInverted(c) == c.vt_pid \in Proc /\ ~alive[c.vt_pid]

(* kill_proc(pid, sig, 1) == 0 *)
Reachable(c) == c.vt_pid \in Proc /\ alive[c.vt_pid]

(* Faulty variant: the pending switch is kept.                              *)
reset_vcKeepsPending(c) == [c EXCEPT !.mode = "KD_TEXT", !.vt_mode = "VT_AUTO", !.vt_pid = NULL]

reset_vc(c) == [c EXCEPT !.mode = "KD_TEXT", !.vt_mode = "VT_AUTO",
                         !.vt_pid = NULL, !.vt_newvt = NULL]

NewVc(s, open) ==
  [live |-> TRUE, slot |-> s, mode |-> "KD_TEXT", vt_mode |-> "VT_AUTO",
   vt_pid |-> NULL, vt_newvt |-> NULL, vc_tty |-> open]

(* Faulty variant: blank_state is left at blank_normal_wait.                *)
do_blank_screenKeepsState(b, mode, entering_gfx) ==
  IF b.blanked \/ b.state # "normal_wait" THEN b ELSE [b EXCEPT !.blanked = TRUE]

do_blank_screen(b, mode, entering_gfx) ==
  IF b.blanked
    THEN IF b.state = "vesa_wait" THEN [b EXCEPT !.state = "off"] ELSE b
  ELSE IF b.state # "normal_wait" THEN b
  ELSE IF entering_gfx \/ mode # "KD_TEXT"
    THEN [b EXCEPT !.state = "off", !.blanked = TRUE]
  ELSE [b EXCEPT !.blanked = TRUE, !.expired = FALSE, !.timer = b.off_interval,
                 !.state = IF b.off_interval THEN "vesa_wait" ELSE "off"]

(* Faulty variants: the timer is not armed again; a screen without an       *)
(* interval is not unblanked.                                               *)
unblank_vtNoTimer(b, mode) ==
  IF ~b.blanked \/ mode # "KD_TEXT" THEN b
  ELSE [b EXCEPT !.blanked = FALSE, !.state = IF b.interval THEN "normal_wait" ELSE b.state]

unblank_vtNeedsInterval(b, mode) ==
  IF ~b.blanked \/ mode # "KD_TEXT" \/ ~b.interval THEN b
  ELSE [b EXCEPT !.blanked = FALSE, !.timer = TRUE, !.state = "normal_wait"]

(* unblank_vt also clears ignore_poke, which its callers below do.          *)
unblank_vt(b, mode) ==
  IF ~b.blanked \/ mode # "KD_TEXT" THEN b
  ELSE [b EXCEPT !.blanked = FALSE,
                 !.timer = b.interval \/ b.timer,
                 !.state = IF b.interval THEN "normal_wait" ELSE b.state]

poke_blanked_console(b, mode, ignore) ==
  LET disarmed == [b EXCEPT !.timer = FALSE, !.expired = FALSE]
  IN IF ignore \/ mode = "KD_GRAPHICS" THEN disarmed
     ELSE IF b.blanked THEN unblank_vt(disarmed, mode)
     ELSE IF b.interval
       THEN [disarmed EXCEPT !.timer = TRUE, !.state = "normal_wait"]
     ELSE disarmed

(* What poke_blanked_console does to ignore_poke: through unblank_vt only.  *)
PokeClears(b, mode, ignore) == ~ignore /\ mode # "KD_GRAPHICS" /\ b.blanked

(***************************************************************************)
(* The struct vt_structs after set_console(o), and after each display in   *)
(* the argument ts had its vt_work scheduled.                              *)
(***************************************************************************)
set_console(table, o) ==
  [table EXCEPT ![Disp(o)] = [@ EXCEPT !.want_vc = o, !.work = TRUE]]

(* Faulty variant: the work is not scheduled.                               *)
schedule_workForgotten(table, t) == table

schedule_work(table, t) == [table EXCEPT ![t].work = TRUE]

(* Faulty variant: the queue is not woken.                                  *)
wake_upForgotten(pcs) == pcs

(* wake_up(&vt_activate_queue): every sleeper checks again.                 *)
wake_up(pcs) == [a \in Agent |-> IF pcs[a] = "asleep" THEN "waitactive" ELSE pcs[a]]

Init ==
  \E at \in [Opened \cup {First(t) : t \in VT} -> Obj] :
    /\ IsInjective(at)
    /\ vc = [o \in Obj |->
               IF \E s \in DOMAIN at : at[s] = o
                 THEN LET s == CHOOSE s \in DOMAIN at : at[s] = o
                      IN NewVc(s, s \in Opened)
               ELSE [NewVc(First(0), FALSE) EXCEPT !.live = FALSE]]
    /\ vc_cons = [s \in Slot |-> IF s \in DOMAIN at THEN at[s] ELSE NULL]
    /\ driver_data = [s \in Slot |-> IF s \in Opened THEN at[s] ELSE NULL]
    /\ vt = [t \in VT |->
               [fg_console |-> at[First(t)], last_console |-> at[First(t)],
                want_vc |-> at[First(t)], dont_switch |-> FALSE,
                scroll |-> FALSE, work |-> FALSE]]
    /\ bl = [t \in VT |->
               [blanked |-> FALSE, state |-> "normal_wait", timer |-> TRUE,
                expired |-> FALSE, interval |-> TRUE, off_interval |-> FALSE]]
    /\ poke = FALSE
    /\ ignore_poke = FALSE
    /\ sem = NULL
    /\ pc = [a \in Agent |-> "idle"]
    /\ arg = [p \in Proc |-> NULL]
    /\ alive = [p \in Proc |-> TRUE]

-----------------------------------------------------------------------------
(* Switching.                                                               *)

(***************************************************************************)
(* complete_change_console(new, old), run by agent self, which holds       *)
(* console_sem; consoles and displays are the tables at that point.        *)
(*                                                                         *)
(* When the two consoles differ in mode the code calls                     *)
(* acquire_console_sem again.  The semaphore is not recursive, so self     *)
(* sleeps on itself for ever: fg_console has moved and nothing after that  *)
(* line runs.                                                              *)
(***************************************************************************)
NestedAcquire(new, old, consoles) == consoles[old].mode # consoles[new].mode

complete_change_console(self, new, old, consoles, displays, after) ==
  LET t    == consoles[new].slot[1]
      gone == consoles[new].vt_mode = "VT_PROCESS" /\ ~Reachable(consoles[new])
      back == gone /\ consoles[old].mode # "KD_TEXT"
  IN /\ vt' = [displays EXCEPT ![t] = [@ EXCEPT !.last_console = old, !.fg_console = new]]
     /\ IF NestedAcquire(new, old, consoles)
          THEN /\ vc' = consoles
               /\ pc' = [pc EXCEPT ![self] = "stuck"]
               /\ UNCHANGED <<bl, ignore_poke>>
          ELSE /\ vc' = IF gone
                          THEN [consoles EXCEPT ![new] = reset_vc(consoles[new])]
                          ELSE consoles
               /\ bl' = IF back THEN [bl EXCEPT ![t] = unblank_vt(bl[t], "KD_TEXT")]
                                ELSE bl
               /\ ignore_poke' = (ignore_poke /\ ~back)
               /\ pc' = wake_up([pc EXCEPT ![self] = after])

(* Faulty variants: the switch goes on after the process was asked; and it  *)
(* ends when the process turns out to be gone.                              *)
change_consoleNoWait(t, new, old) ==
  complete_change_console(t, new, old,
    IF vc[old].vt_mode = "VT_PROCESS" /\ Reachable(vc[old])
      THEN [vc EXCEPT ![old].vt_newvt = vc[new].slot] ELSE vc, vt, "locked")

change_consoleGivesUp(t, new, old) ==
  IF vc[old].vt_mode = "VT_PROCESS"
    THEN /\ vc' = IF Reachable(vc[old])
                    THEN [vc EXCEPT ![old].vt_newvt = vc[new].slot]
                    ELSE [vc EXCEPT ![old] = reset_vc(vc[old])]
         /\ pc' = [pc EXCEPT ![t] = "locked"]
         /\ UNCHANGED <<vt, bl, ignore_poke>>
    ELSE complete_change_console(t, new, old, vc, vt, "locked")

(***************************************************************************)
(* change_console(new, fg_console), the front end, in the callback of t.   *)
(***************************************************************************)
change_console(t, new, old) ==
  LET asks == vc[old].vt_mode = "VT_PROCESS" /\ Reachable(vc[old])
      cons == IF vc[old].vt_mode = "VT_PROCESS"
                THEN [vc EXCEPT ![old] = reset_vc(vc[old])] ELSE vc
  IN \/ /\ asks
        /\ vc' = [vc EXCEPT ![old].vt_newvt = vc[new].slot]
        /\ pc' = [pc EXCEPT ![t] = "locked"]
        /\ UNCHANGED <<vt, bl, ignore_poke>>
     \/ /\ ~asks
        /\ cons[old].mode = "KD_GRAPHICS"
        /\ vc' = cons
        /\ pc' = [pc EXCEPT ![t] = "locked"]
        /\ UNCHANGED <<vt, bl, ignore_poke>>
     \/ /\ ~asks
        /\ cons[old].mode # "KD_GRAPHICS"
        /\ complete_change_console(t, new, old, cons, vt, "locked")

(***************************************************************************)
(* vt_callback, the work function of display t: the unlocked test, the     *)
(* switch, and the rest up to release_console_sem.                         *)
(***************************************************************************)
CallbackStart(t) ==
  /\ pc[t] = "idle"
  /\ vt[t].work
  /\ vt' = [vt EXCEPT ![t].work = FALSE]
  /\ pc' = [pc EXCEPT ![t] = IF vc[vt[t].want_vc].vc_tty THEN "acquire" ELSE "idle"]
  /\ UNCHANGED <<vc, vc_cons, driver_data, bl, poke, ignore_poke, sem, arg, alive>>

SwitchHoldingSem(t) ==
  /\ sem' = t
  /\ IF vt[t].want_vc # Fg(t) /\ ~vt[t].dont_switch
       THEN change_console(t, vt[t].want_vc, Fg(t))
       ELSE /\ pc' = [pc EXCEPT ![t] = "locked"]
            /\ UNCHANGED <<vc, vt, bl, ignore_poke>>
  /\ UNCHANGED <<vc_cons, driver_data, poke, arg, alive>>

(* Faulty variant: the semaphore is not waited for.                         *)
CallbackSwitchUnlocked(t) == pc[t] = "acquire" /\ SwitchHoldingSem(t)

CallbackSwitch(t) == pc[t] = "acquire" /\ sem = NULL /\ SwitchHoldingSem(t)

CallbackFinish(t) ==
  LET mode  == vc[Fg(t)].mode
      poked == IF poke THEN poke_blanked_console(bl[t], mode, ignore_poke) ELSE bl[t]
  IN /\ pc[t] = "locked"
     /\ poke' = FALSE
     /\ ignore_poke' = (ignore_poke /\ ~(poke /\ PokeClears(bl[t], mode, ignore_poke)))
     /\ vt' = [vt EXCEPT ![t].scroll = FALSE]
     /\ bl' = [bl EXCEPT ![t] =
                 IF poked.expired
                   THEN [do_blank_screen(poked, mode, FALSE) EXCEPT !.expired = FALSE]
                   ELSE poked]
     /\ sem' = NULL
     /\ pc' = [pc EXCEPT ![t] = "idle"]
     /\ UNCHANGED <<vc, vc_cons, driver_data, arg, alive>>

vt_callback(t) == CallbackStart(t) \/ CallbackSwitch(t) \/ CallbackFinish(t)

(* blank_screen_t: the timer of display t fires.                            *)
blank_screen_t(t) ==
  /\ "TIMER" \in Ops
  /\ bl[t].timer
  /\ bl' = [bl EXCEPT ![t] = [@ EXCEPT !.timer = FALSE, !.expired = TRUE]]
  /\ vt' = schedule_work(vt, t)
  /\ UNCHANGED <<vc, vc_cons, driver_data, poke, ignore_poke, sem, pc, arg, alive>>

-----------------------------------------------------------------------------
(* The pool of consoles.                                                    *)

(***************************************************************************)
(* vc_allocate(s) returning o, the new console at s.  The first console of *)
(* a display becomes its foreground console on the spot (Claimed, the      *)
(* displays afterwards).                                                   *)
(***************************************************************************)
FreeObj == {o \in Obj : ~vc[o].live}

Claimed(table, s, o) ==
  IF s = First(s[1])
    THEN [table EXCEPT ![s[1]] =
            [@ EXCEPT !.want_vc = o, !.fg_console = o, !.last_console = o]]
    ELSE table

vc_allocate(s, o, open) ==
  /\ o \in FreeObj
  /\ vc' = [vc EXCEPT ![o] = NewVc(s, open)]
  /\ vc_cons' = [vc_cons EXCEPT ![s] = o]

(* vc_disallocate of every object in os.                                    *)
MIN_NR_CONSOLES == 1

(* Faulty variant: the pool keeps the pointer.                              *)
vc_disallocateKeepsPointer(os) ==
  LET gone == {o \in os : Num(vc[o].slot) > MIN_NR_CONSOLES}
  IN /\ vc' = [o \in Obj |-> IF o \in gone THEN [vc[o] EXCEPT !.live = FALSE] ELSE vc[o]]
     /\ UNCHANGED vc_cons

vc_disallocate(os) ==
  LET gone == {o \in os : Num(vc[o].slot) > MIN_NR_CONSOLES}
  IN /\ vc' = [o \in Obj |-> IF o \in gone THEN [vc[o] EXCEPT !.live = FALSE] ELSE vc[o]]
     /\ vc_cons' = [s \in Slot |->
                      IF \E o \in gone : vc[o].slot = s THEN NULL ELSE vc_cons[s]]

(***************************************************************************)
(* vt_open on the first open of the tty of s: a new vc_data, even when the *)
(* pool already has one at s; vt_close on the last close.                  *)
(***************************************************************************)
InIoctl(s) == \E p \in Proc : arg[p] # NULL /\ arg[p].tty = s

vt_open(s) ==
  /\ s \in Closable
  /\ driver_data[s] = NULL
  /\ sem = NULL
  /\ \E o \in FreeObj :
       /\ vc_allocate(s, o, TRUE)
       /\ vt' = Claimed(vt, s, o)
       /\ driver_data' = [driver_data EXCEPT ![s] = o]
  /\ UNCHANGED <<bl, poke, ignore_poke, sem, pc, arg, alive>>

vt_close(s) ==
  /\ s \in Closable
  /\ driver_data[s] # NULL
  /\ ~InIoctl(s)
  /\ sem = NULL
  /\ vc' = [vc EXCEPT ![driver_data[s]].vc_tty = FALSE]
  /\ driver_data' = [driver_data EXCEPT ![s] = NULL]
  /\ UNCHANGED <<vc_cons, vt, bl, poke, ignore_poke, sem, pc, arg, alive>>

-----------------------------------------------------------------------------
(* The ioctls of process p on the tty of s.                                 *)

CanCall(p, s, op) ==
  /\ op \in Ops
  /\ alive[p]
  /\ pc[p] = "idle"
  /\ s \in Fds[p]
  /\ driver_data[s] # NULL

(* The ioctl blocks at place l with its locals; and comes back from there.  *)
Enter(p, l, s, obj, slot) ==
  /\ pc' = [pc EXCEPT ![p] = l]
  /\ arg' = [arg EXCEPT ![p] = [tty |-> s, obj |-> obj, slot |-> slot]]

Return(p) ==
  /\ pc' = [pc EXCEPT ![p] = "idle"]
  /\ arg' = [arg EXCEPT ![p] = NULL]

(* KDSETMODE: the mode is set and the visibility tested before the lock.    *)
KDSETMODE(p, s, mode, op, place) ==
  LET o == driver_data[s]
  IN /\ CanCall(p, s, op)
     /\ vc[o].mode # mode
     /\ vc' = [vc EXCEPT ![o].mode = mode]
     /\ IF Visible(o) THEN Enter(p, place, s, NULL, s) ELSE UNCHANGED <<pc, arg>>
     /\ UNCHANGED <<vc_cons, driver_data, vt, bl, poke, ignore_poke, sem, alive>>

KDSETMODE_LOCKED(p) ==
  /\ pc[p] \in {"unblank", "blank_gfx"}
  /\ sem = NULL
  /\ LET t == Disp(driver_data[arg[p].tty])
         m == vc[Fg(t)].mode
     IN /\ bl' = [bl EXCEPT ![t] = IF pc[p] = "unblank" THEN unblank_vt(bl[t], m)
                                   ELSE do_blank_screen(bl[t], m, TRUE)]
        /\ ignore_poke' = (ignore_poke /\ pc[p] # "unblank")
  /\ Return(p)
  /\ UNCHANGED <<vc, vc_cons, driver_data, vt, poke, sem, alive>>

VT_SETMODE(p, s, m) ==
  /\ CanCall(p, s, "VT_SETMODE")
  /\ sem = NULL
  /\ vc' = [vc EXCEPT ![driver_data[s]] =
               [@ EXCEPT !.vt_mode = m, !.vt_pid = p, !.vt_newvt = NULL]]
  /\ UNCHANGED <<vc_cons, driver_data, vt, bl, poke, ignore_poke, sem, pc, arg, alive>>

(***************************************************************************)
(* VT_ACTIVATE of console d: a console that is not there is allocated      *)
(* under the semaphore, whatever its display; only then is the display     *)
(* compared.                                                               *)
(***************************************************************************)
VT_ACTIVATE(p, s, d) ==
  /\ CanCall(p, s, "VT_ACTIVATE")
  /\ IF find_vc(d) = NULL
       THEN Enter(p, "activate", s, NULL, d) /\ UNCHANGED vt
       ELSE /\ Disp(find_vc(d)) = Disp(driver_data[s])
            /\ vt' = set_console(vt, find_vc(d))
            /\ UNCHANGED <<pc, arg>>
  /\ UNCHANGED <<vc, vc_cons, driver_data, bl, poke, ignore_poke, sem, alive>>

VT_ACTIVATE_LOCKED(p) ==
  /\ pc[p] = "activate"
  /\ sem = NULL
  /\ \/ /\ FreeObj = {}
        /\ UNCHANGED <<vc, vc_cons, vt>>
     \/ \E o \in FreeObj :
          LET d    == arg[p].slot
              made == Claimed(vt, d, o)
          IN /\ vc_allocate(d, o, FALSE)
             /\ vt' = IF d[1] = Disp(driver_data[arg[p].tty])
                        THEN [made EXCEPT ![d[1]] = [@ EXCEPT !.want_vc = o, !.work = TRUE]]
                        ELSE made
  /\ Return(p)
  /\ UNCHANGED <<driver_data, bl, poke, ignore_poke, sem, alive>>

(***************************************************************************)
(* VT_WAITACTIVE: vt_waitactive sleeps until the console is visible.  The  *)
(* test follows set_current_state, so a wake-up between the test and the   *)
(* sleep is not lost.                                                      *)
(***************************************************************************)
VT_WAITACTIVE(p, s, d) ==
  /\ CanCall(p, s, "VT_WAITACTIVE")
  /\ find_vc(d) # NULL
  /\ Disp(find_vc(d)) = Disp(driver_data[s])
  /\ Enter(p, "waitactive", s, find_vc(d), d)
  /\ UNCHANGED <<vc, vc_cons, driver_data, vt, bl, poke, ignore_poke, sem, alive>>

(* Faulty variant: sleeps without testing first.                            *)
WaitTestSkipped(p) ==
  /\ pc[p] = "waitactive"
  /\ pc' = [pc EXCEPT ![p] = "asleep"]
  /\ UNCHANGED <<vc, vc_cons, driver_data, vt, bl, poke, ignore_poke, sem, arg, alive>>

WaitTest(p) ==
  /\ pc[p] = "waitactive"
  /\ IF Visible(arg[p].obj) THEN Return(p)
     ELSE pc' = [pc EXCEPT ![p] = "asleep"] /\ UNCHANGED arg
  /\ UNCHANGED <<vc, vc_cons, driver_data, vt, bl, poke, ignore_poke, sem, alive>>

WaitInterrupted(p) ==
  /\ "SIGNAL" \in Ops
  /\ pc[p] = "asleep"
  /\ Return(p)
  /\ UNCHANGED <<vc, vc_cons, driver_data, vt, bl, poke, ignore_poke, sem, alive>>

(***************************************************************************)
(* VT_RELDISP: refused (arg 0) at once, or the target looked up before the *)
(* semaphore and the switch completed under it, away from whatever console *)
(* is in the foreground by then.                                           *)
(***************************************************************************)
VT_RELDISP(p, s, ok) ==
  LET o == driver_data[s]
  IN /\ CanCall(p, s, "VT_RELDISP")
     /\ vc[o].vt_mode = "VT_PROCESS"
     /\ vc[o].vt_newvt # NULL
     /\ IF ok THEN Enter(p, "reldisp", s, find_vc(vc[o].vt_newvt), s) /\ UNCHANGED vc
        ELSE /\ vc' = [vc EXCEPT ![o].vt_newvt = NULL]
             /\ UNCHANGED <<pc, arg>>
     /\ UNCHANGED <<vc_cons, driver_data, vt, bl, poke, ignore_poke, sem, alive>>

VT_RELDISP_LOCKED(p) ==
  LET o    == driver_data[arg[p].tty]
      t    == Disp(o)
      to   == vc[o].vt_newvt
      quit == [vc EXCEPT ![o].vt_newvt = NULL]
  IN /\ pc[p] = "reldisp"
     /\ sem = NULL
     /\ \/ /\ arg[p].obj # NULL
           /\ complete_change_console(p, arg[p].obj, Fg(t), quit, vt, "idle")
           /\ sem' = IF NestedAcquire(arg[p].obj, Fg(t), quit) THEN p ELSE NULL
           /\ UNCHANGED vc_cons
        \/ /\ arg[p].obj = NULL
           /\ to = NULL \/ FreeObj = {}
           /\ vc' = quit
           /\ pc' = [pc EXCEPT ![p] = "idle"]
           /\ UNCHANGED <<vc_cons, vt, bl, ignore_poke, sem>>
        \/ /\ arg[p].obj = NULL
           /\ to # NULL
           /\ \E n \in FreeObj :
                LET consoles == [quit EXCEPT ![n] = NewVc(to, FALSE)]
                    displays == Claimed(vt, to, n)
                    old      == displays[t].fg_console
                IN /\ complete_change_console(p, n, old, consoles, displays, "idle")
                   /\ sem' = IF NestedAcquire(n, old, consoles) THEN p ELSE NULL
                   /\ vc_cons' = [vc_cons EXCEPT ![to] = n]
     /\ arg' = [arg EXCEPT ![p] = NULL]
     /\ UNCHANGED <<driver_data, poke, alive>>

(***************************************************************************)
(* VT_DISALLOCATE.  VT_BUSY(tmp) tests that tmp is in use, or IS_VISIBLE:  *)
(* that macro names the variable vc of the enclosing function, so it is    *)
(* the caller's console whose visibility is tested, not tmp's.             *)
(***************************************************************************)
VT_BUSY(o, caller) == vc[o].vc_tty \/ Visible(caller)

VT_DISALLOCATE_ALL(p, s) ==
  LET o == driver_data[s]
      t == Disp(o)
  IN /\ CanCall(p, s, "VT_DISALLOCATE")
     /\ sem = NULL
     /\ vc_disallocate({n \in Obj : \E i \in Index \ {0} :
                           find_vc(<<t, i>>) = n /\ ~VT_BUSY(n, o)})
     /\ UNCHANGED <<driver_data, vt, bl, poke, ignore_poke, sem, pc, arg, alive>>

(* A single console: found and tested before the semaphore, freed under it. *)
VT_DISALLOCATE(p, s, d) ==
  /\ CanCall(p, s, "VT_DISALLOCATE")
  /\ find_vc(d) # NULL
  /\ ~VT_BUSY(find_vc(d), driver_data[s])
  /\ Enter(p, "disallocate", s, find_vc(d), d)
  /\ UNCHANGED <<vc, vc_cons, driver_data, vt, bl, poke, ignore_poke, sem, alive>>

VT_DISALLOCATE_LOCKED(p) ==
  /\ pc[p] = "disallocate"
  /\ sem = NULL
  /\ vc_disallocate({arg[p].obj})
  /\ Return(p)
  /\ UNCHANGED <<driver_data, vt, bl, poke, ignore_poke, sem, alive>>

(* VT_LOCKSWITCH and VT_UNLOCKSWITCH.                                       *)
VT_LOCKSWITCH(p, s, on) ==
  /\ CanCall(p, s, "VT_LOCKSWITCH")
  /\ vt' = [vt EXCEPT ![Disp(driver_data[s])].dont_switch = on]
  /\ UNCHANGED <<vc, vc_cons, driver_data, bl, poke, ignore_poke, sem, pc, arg, alive>>

(* TIOCL_BLANKSCREEN and TIOCL_UNBLANKSCREEN take no semaphore.             *)
TIOCL_BLANKSCREEN(p, s) ==
  LET t == Disp(driver_data[s])
  IN /\ CanCall(p, s, "BLANKSCREEN")
     /\ ignore_poke' = TRUE
     /\ bl' = [bl EXCEPT ![t] = do_blank_screen(bl[t], vc[Fg(t)].mode, FALSE)]
     /\ UNCHANGED <<vc, vc_cons, driver_data, vt, poke, sem, pc, arg, alive>>

TIOCL_UNBLANKSCREEN(p, s) ==
  /\ CanCall(p, s, "UNBLANKSCREEN")
  /\ ignore_poke' = FALSE
  /\ bl' = [t \in VT |-> unblank_vt(bl[t], vc[Fg(t)].mode)]
  /\ UNCHANGED <<vc, vc_cons, driver_data, vt, poke, sem, pc, arg, alive>>

(***************************************************************************)
(* The setterm escape sequences, in a write to the tty of s, which holds   *)
(* the semaphore: ESC[9;n] and ESC[14;n] set the two intervals, ESC[13]    *)
(* pokes, ESC[12;n] and ESC[15] ask for a switch.                          *)
(***************************************************************************)
Poke(t, b) ==
  /\ bl' = [bl EXCEPT ![t] = poke_blanked_console(b, vc[Fg(t)].mode, ignore_poke)]
  /\ ignore_poke' = (ignore_poke /\ ~PokeClears(b, vc[Fg(t)].mode, ignore_poke))

vte_setterm(p, s) ==
  LET t == Disp(driver_data[s])
  IN /\ CanCall(p, s, "SETTERM")
     /\ sem = NULL
     /\ \/ /\ \E on \in BOOLEAN : Poke(t, [bl[t] EXCEPT !.interval = on])
           /\ UNCHANGED vt
        \/ /\ Poke(t, bl[t])
           /\ UNCHANGED vt
        \/ /\ \E on \in BOOLEAN : bl' = [bl EXCEPT ![t].off_interval = on]
           /\ UNCHANGED <<vt, ignore_poke>>
        \/ /\ \E d \in Slot : find_vc(d) # NULL /\ vt' = set_console(vt, find_vc(d))
           /\ UNCHANGED <<bl, ignore_poke>>
        \/ /\ vt' = set_console(vt, vt[t].last_console)
           /\ UNCHANGED <<bl, ignore_poke>>
     /\ UNCHANGED <<vc, vc_cons, driver_data, poke, sem, pc, arg, alive>>

(* vt_console_print: kernel messages go to console 0 and poke its display.  *)
vt_console_print ==
  /\ "PRINTK" \in Ops
  /\ sem = NULL
  /\ vc[find_vc(First(0))].mode = "KD_TEXT"
  /\ Poke(0, bl[0])
  /\ UNCHANGED <<vc, vc_cons, driver_data, vt, poke, sem, pc, arg, alive>>

(* A process exits, and can be reached by no signal afterwards.             *)
Exit(p) ==
  /\ "EXIT" \in Ops
  /\ alive[p]
  /\ pc[p] \in {"idle", "asleep"}
  /\ alive' = [alive EXCEPT ![p] = FALSE]
  /\ Return(p)
  /\ UNCHANGED <<vc, vc_cons, driver_data, vt, bl, poke, ignore_poke, sem>>

-----------------------------------------------------------------------------
(***************************************************************************)
(* kbd_event: an interrupt from the keyboard of display t.  The key's      *)
(* handler runs first; every event then sets do_poke_blanked_console and   *)
(* schedules the display's work.                                           *)
(***************************************************************************)
kbd_event(t, consoles, displays) ==
  /\ vc' = consoles
  /\ vt' = schedule_work(displays, t)
  /\ poke' = TRUE
  /\ UNCHANGED <<vc_cons, driver_data, bl, ignore_poke, sem, pc, arg, alive>>

KeyPlain(t) == "K_KEY" \in Ops /\ kbd_event(t, vc, vt)

(* Faulty variant: the console found is wanted by the keyboard's display.   *)
k_consOwnDisplay(t) ==
  /\ "K_CONS" \in Ops
  /\ \E d \in Slot : /\ Num(d) >= Num(First(t))
                     /\ find_vc(d) # NULL
                     /\ kbd_event(t, vc, [vt EXCEPT ![t].want_vc = find_vc(d)])

(* k_cons adds the key's value to first_vc: it may run past the display.    *)
k_cons(t) ==
  /\ "K_CONS" \in Ops
  /\ \E d \in Slot : /\ Num(d) >= Num(First(t))
                     /\ find_vc(d) # NULL
                     /\ kbd_event(t, vc, set_console(vt, find_vc(d)))

fn_lastcons(t) ==
  /\ "K_LASTCONS" \in Ops
  /\ kbd_event(t, vc, set_console(vt, vt[t].last_console))

(***************************************************************************)
(* fn_inc_console and fn_dec_console walk the pool cyclically, away from   *)
(* the foreground console j, until they are back at it.  The wrap-around   *)
(* resets the index after the loop's test, so j itself is examined when it *)
(* is the place the walk wraps to.                                         *)
(***************************************************************************)
Steps(i, j, up) ==
  LET d == IF up THEN i - j ELSE j - i
  IN IF d > 0 THEN d ELSE d + VcCount

NextConsole(t, up) ==
  LET j       == vc[Fg(t)].slot[2]
      wrapsTo == IF up THEN 0 ELSE VcCount - 1
      hits    == {i \in Index : find_vc(<<t, i>>) # NULL /\ (i # j \/ j = wrapsTo)}
  IN {find_vc(<<t, i>>) : i \in {h \in hits : \A l \in hits : Steps(h, j, up) <= Steps(l, j, up)}}

fn_inc_console(t, op, up) ==
  /\ op \in Ops
  /\ \/ NextConsole(t, up) = {} /\ kbd_event(t, vc, vt)
     \/ \E o \in NextConsole(t, up) : kbd_event(t, vc, set_console(vt, o))

(* fn_scroll_forw and fn_scroll_back: deltas add up and may cancel.         *)
fn_scroll(t) ==
  /\ "K_SCROLL" \in Ops
  /\ \E nonzero \in BOOLEAN :
       /\ vt[t].scroll \/ nonzero
       /\ kbd_event(t, vc, [vt EXCEPT ![t].scroll = nonzero])

(* fn_SAK resets the foreground console (do_SAK kills through Exit).        *)
fn_SAK(t) ==
  /\ "K_SAK" \in Ops
  /\ kbd_event(t, [vc EXCEPT ![Fg(t)] = reset_vc(vc[Fg(t)])], vt)

Keyboard(t) ==
  \/ KeyPlain(t)
  \/ k_cons(t)
  \/ fn_lastcons(t)
  \/ fn_inc_console(t, "K_INCR", TRUE)
  \/ fn_inc_console(t, "K_DECR", FALSE)
  \/ fn_scroll(t)
  \/ fn_SAK(t)

(* The part of an ioctl that waits for the semaphore or for a switch.       *)
Continue(p) ==
  \/ KDSETMODE_LOCKED(p)
  \/ VT_ACTIVATE_LOCKED(p)
  \/ VT_RELDISP_LOCKED(p)
  \/ VT_DISALLOCATE_LOCKED(p)
  \/ WaitTest(p)

Call(p, s) ==
  \/ KDSETMODE(p, s, "KD_GRAPHICS", "KDSETMODE_GRAPHICS", "blank_gfx")
  \/ KDSETMODE(p, s, "KD_TEXT", "KDSETMODE_TEXT", "unblank")
  \/ \E m \in {"VT_AUTO", "VT_PROCESS"} : VT_SETMODE(p, s, m)
  \/ \E d \in Slot : VT_ACTIVATE(p, s, d) \/ VT_WAITACTIVE(p, s, d)
  \/ \E d \in Slot : VT_DISALLOCATE(p, s, d)
  \/ VT_DISALLOCATE_ALL(p, s)
  \/ \E ok \in BOOLEAN : VT_RELDISP(p, s, ok) \/ VT_LOCKSWITCH(p, s, ok)
  \/ TIOCL_BLANKSCREEN(p, s)
  \/ TIOCL_UNBLANKSCREEN(p, s)
  \/ vte_setterm(p, s)

Next ==
  \/ \E t \in VT : vt_callback(t) \/ blank_screen_t(t) \/ Keyboard(t)
  \/ \E p \in Proc, s \in Slot : Call(p, s)
  \/ \E p \in Proc : Continue(p) \/ WaitInterrupted(p) \/ Exit(p)
  \/ \E s \in Slot : vt_open(s) \/ vt_close(s)
  \/ vt_console_print

Spec == Init /\ [][Next]_vars

(***************************************************************************)
(* keventd runs every pending vt_work and every step of it that is not     *)
(* blocked; an ioctl that has started goes on.  A semaphore wakes its      *)
(* waiters in turn, which is strong fairness of the steps that take it.    *)
(* Nothing is assumed of the keyboard, the timer or of what userland       *)
(* calls.                                                                  *)
(***************************************************************************)
Fairness ==
  /\ \A t \in VT : /\ WF_vars(CallbackStart(t))
                   /\ SF_vars(CallbackSwitch(t))
                   /\ WF_vars(CallbackFinish(t))
  /\ \A p \in Proc : SF_vars(Continue(p))

FairSpec == Spec /\ Fairness

-----------------------------------------------------------------------------
(* Properties.                                                              *)

(* Every variable has its type.                                             *)
TypeOK ==
  /\ vc \in [Obj -> VcData]
  /\ vc_cons \in [Slot -> Obj \cup {NULL}]
  /\ driver_data \in [Slot -> Obj \cup {NULL}]
  /\ vt \in [VT -> VtStruct]
  /\ bl \in [VT -> BlankState]
  /\ poke \in BOOLEAN
  /\ ignore_poke \in BOOLEAN
  /\ sem \in Agent \cup {NULL}
  /\ pc \in [Agent -> CallbackPc \cup IoctlPc]
  /\ \A t \in VT : pc[t] \in CallbackPc
  /\ \A p \in Proc : pc[p] \in IoctlPc
  /\ arg \in [Proc -> Locals \cup {NULL}]
  /\ alive \in [Proc -> BOOLEAN]

(***************************************************************************)
(* While a process is inside an ioctl - waiting for the semaphore or for a *)
(* switch - the tty it called on keeps its vc_data, and the console the    *)
(* ioctl has looked up is one: no close of the tty comes in between.       *)
(***************************************************************************)
IoctlHoldsTty ==
  \A p \in Proc : pc[p] \notin {"idle", "stuck"} =>
     /\ arg[p] # NULL
     /\ driver_data[arg[p].tty] # NULL
     /\ pc[p] \in {"waitactive", "asleep", "disallocate"} => arg[p].obj # NULL

(***************************************************************************)
(* The pool never shows a console that has been freed, nor one that        *)
(* believes to live elsewhere: what find_vc returns is an allocated        *)
(* vc_data whose vc_num is the number asked for, whatever races of         *)
(* VT_DISALLOCATE, VT_ACTIVATE, VT_RELDISP, open and close went before.    *)
(***************************************************************************)
PoolSound ==
  \A s \in Slot : vc_cons[s] # NULL => vc[vc_cons[s]].live /\ vc[vc_cons[s]].slot = s

(***************************************************************************)
(* A pending switch (vt_newvt >= 0) is recorded only on a console that is  *)
(* still in VT_PROCESS mode with a controlling process: otherwise          *)
(* VT_RELDISP would answer EINVAL and the switch could not be completed.   *)
(***************************************************************************)
PendingSwitch ==
  \A o \in Obj : vc[o].vt_newvt # NULL =>
     vc[o].vt_mode = "VT_PROCESS" /\ vc[o].vt_pid \in Proc

(***************************************************************************)
(* Only the console on the screen can have a switch pending, as long as no *)
(* first console is opened anew (vc_allocate moves fg_console by itself).  *)
(***************************************************************************)
PendingIsForeground ==
  \A o \in Obj : vc[o].vt_newvt # NULL => Visible(o)

(***************************************************************************)
(* A console whose controlling process is alive leaves the screen only by  *)
(* a VT_RELDISP, the handshake that change_console describes.              *)
(***************************************************************************)
HandshakeRespected ==
  [][\A t \in VT :
       (/\ vc'[vt'[t].fg_console].slot # vc[Fg(t)].slot
        /\ vc[Fg(t)].vt_mode = "VT_PROCESS"
        /\ alive[vc[Fg(t)].vt_pid])
       => \E p \in Proc : pc[p] = "reldisp" /\ pc'[p] # "reldisp"]_vars

(***************************************************************************)
(* console_sem excludes: whoever is between acquire and release is its     *)
(* holder, so no two agents are.                                           *)
(***************************************************************************)
MutualExclusion ==
  \A a \in Agent : pc[a] \in {"locked", "stuck"} <=> sem = a

(***************************************************************************)
(* vt_waitactive loses no wake-up: nobody sleeps for a console that is on  *)
(* the screen.                                                             *)
(***************************************************************************)
NoLostWakeup ==
  \A p \in Proc : pc[p] = "asleep" =>
     ~Visible(arg[p].obj) \/ (sem # NULL /\ pc[sem] = "stuck")

(***************************************************************************)
(* The consoles a display points to are its own: no console of one seat    *)
(* ever comes up on another one's screen.                                  *)
(***************************************************************************)
DisplayIsolation ==
  \A t \in VT : /\ Disp(Fg(t)) = t
                /\ Disp(vt[t].want_vc) = t
                /\ Disp(vt[t].last_console) = t

(* A screen that waits for its blanking timer is not blanked already.       *)
BlankStateSound ==
  \A t \in VT : bl[t].state = "normal_wait" => ~bl[t].blanked

(***************************************************************************)
(* A lit text screen with a blanking interval has its timer armed, or the  *)
(* expiry waiting for vt_callback, outside the window in which KDSETMODE   *)
(* has changed the mode and not yet the screen.                            *)
(***************************************************************************)
AutoBlankArmed ==
  \A t \in VT :
    (/\ bl[t].state = "normal_wait"
     /\ bl[t].interval
     /\ vc[Fg(t)].mode = "KD_TEXT"
     /\ \A p \in Proc : pc[p] \notin {"blank_gfx", "unblank"})
    => bl[t].timer \/ bl[t].expired

(***************************************************************************)
(* What an interrupt leaves for the callback - an expired blanking timer,  *)
(* a scroll, a key that must unblank - has a callback coming.              *)
(***************************************************************************)
NothingForgotten ==
  /\ \A t \in VT : bl[t].expired \/ vt[t].scroll => vt[t].work \/ pc[t] # "idle"
  /\ poke => \E t \in VT : vt[t].work \/ pc[t] # "idle"

(***************************************************************************)
(* The console on the screen is allocated: VT_DISALLOCATE says that it     *)
(* "leaves visible VT" (vt_ioctl.c:1241), whichever console it is issued   *)
(* on.                                                                     *)
(***************************************************************************)
VisibleKept == \A t \in VT : vc[Fg(t)].live

(* Nobody sleeps on a semaphore it holds itself.                            *)
NoSelfDeadlock == \A a \in Agent : pc[a] # "stuck"

(***************************************************************************)
(* A request for a switch is granted, or put to the process that controls  *)
(* the visible console, or it was locked out.                              *)
(***************************************************************************)
SwitchServed ==
  \A t \in VT : vt[t].work ~>
     \/ Fg(t) = vt[t].want_vc
     \/ vc[Fg(t)].vt_newvt # NULL
     \/ vt[t].dont_switch

(***************************************************************************)
(* A key brings back the picture, unless the screen is in graphics mode or *)
(* was blanked until explicitly unblanked.                                 *)
(***************************************************************************)
KeyUnblanks ==
  \A t \in VT : poke ~> ~bl[t].blanked \/ ignore_poke \/ vc[Fg(t)].mode # "KD_TEXT"

(* Whoever waits for a console that stays on the screen returns.            *)
WaiterReturns ==
  \A p \in Proc : \A o \in Obj :
    (pc[p] \in {"waitactive", "asleep"} /\ arg[p].obj = o /\ Visible(o)
      ~> pc[p] = "idle" \/ ~Visible(o))

=============================================================================
