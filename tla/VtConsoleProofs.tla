-------------------------- MODULE VtConsoleProofs --------------------------
(***************************************************************************)
(* Theorems about VtConsole for every number of displays, consoles,        *)
(* processes and objects, and for every set of operations.                 *)
(*                                                                         *)
(* One inductive invariant carries them: the type, that an ioctl in        *)
(* progress holds its tty, and the four safety invariants; each action is  *)
(* treated once, through lemmas on what it does to the table of consoles.  *)
(***************************************************************************)
EXTENDS VtConsole, TLAPS

USE SizeAssumption, AgentAssumption, NullAssumption, FdsAssumption, InitAssumption, OpsAssumption

-----------------------------------------------------------------------------
(* The pieces of the state keep their type.                                 *)

(* A console number is a pair of a display and a place in it.               *)
LEMMA SlotParts == \A s \in Slot : s[1] \in VT /\ s[2] \in Index
BY DEF Slot

(* The first console of a display is one of its consoles.                   *)
LEMMA FirstInSlot == \A t \in VT : First(t) \in Slot
BY DEF First, Slot, Index

(* Resetting a console gives a console, and leaves its place and its life.  *)
LEMMA ResetType ==
  ASSUME NEW c \in VcData
  PROVE  /\ reset_vc(c) \in VcData
         /\ reset_vc(c).live = c.live
         /\ reset_vc(c).slot = c.slot
         /\ reset_vc(c).vt_newvt = NULL
BY DEF VcData, reset_vc

(* A console fresh from vc_allocate.                                        *)
LEMMA NewVcType ==
  ASSUME NEW s \in Slot, NEW open \in BOOLEAN
  PROVE  /\ NewVc(s, open) \in VcData
         /\ NewVc(s, open).live
         /\ NewVc(s, open).slot = s
         /\ NewVc(s, open).vt_newvt = NULL
BY DEF VcData, NewVc

(* Two consoles that agree on everything a pending switch depends on.       *)
Alike(c, d) == /\ d \in VcData
               /\ d.slot = c.slot
               /\ d.vt_newvt = c.vt_newvt
               /\ d.vt_mode = c.vt_mode
               /\ d.vt_pid = c.vt_pid

(* Freeing a console, closing its tty and changing its mode leave those.    *)
LEMMA FieldUpdates ==
  ASSUME NEW c \in VcData, NEW m \in {"KD_TEXT", "KD_GRAPHICS"}
  PROVE  /\ Alike(c, [c EXCEPT !.live = FALSE])
         /\ Alike(c, [c EXCEPT !.vc_tty = FALSE])
         /\ [c EXCEPT !.vc_tty = FALSE].live = c.live
         /\ Alike(c, [c EXCEPT !.mode = m])
         /\ [c EXCEPT !.mode = m].live = c.live
BY DEF VcData, Alike

(* A console that lost its pending switch and nothing of its place.         *)
Cleared(c, d) == /\ d \in VcData
                 /\ d.live = c.live
                 /\ d.slot = c.slot
                 /\ d.vt_newvt = NULL

(* VT_SETMODE on one console keeps its type and forgets a pending switch.   *)
LEMMA SetModeType ==
  ASSUME NEW c \in VcData, NEW m \in {"VT_AUTO", "VT_PROCESS"}, NEW p \in Proc
  PROVE  Cleared(c, [c EXCEPT !.vt_mode = m, !.vt_pid = p, !.vt_newvt = NULL])
BY DEF VcData, Cleared

(* So does VT_RELDISP, which forgets the pending switch and nothing else.   *)
LEMMA ForgetType ==
  ASSUME NEW c \in VcData
  PROVE  Cleared(c, [c EXCEPT !.vt_newvt = NULL])
BY DEF VcData, Cleared

(* Blanking keeps the type, and never blanks a screen that waits for it.    *)
LEMMA BlankType ==
  ASSUME NEW b \in BlankState, NEW m, NEW g,
         b.state = "normal_wait" => ~b.blanked
  PROVE  /\ do_blank_screen(b, m, g) \in BlankState
         /\ do_blank_screen(b, m, g).state = "normal_wait"
              => ~do_blank_screen(b, m, g).blanked
BY DEF BlankState, do_blank_screen

(* So does unblanking.                                                      *)
LEMMA UnblankType ==
  ASSUME NEW b \in BlankState, NEW m,
         b.state = "normal_wait" => ~b.blanked
  PROVE  /\ unblank_vt(b, m) \in BlankState
         /\ unblank_vt(b, m).state = "normal_wait" => ~unblank_vt(b, m).blanked
BY DEF BlankState, unblank_vt

(* And a poke.                                                              *)
LEMMA PokeType ==
  ASSUME NEW b \in BlankState, NEW m, NEW i,
         b.state = "normal_wait" => ~b.blanked
  PROVE  /\ poke_blanked_console(b, m, i) \in BlankState
         /\ poke_blanked_console(b, m, i).state = "normal_wait"
              => ~poke_blanked_console(b, m, i).blanked
BY DEF BlankState, poke_blanked_console, unblank_vt

(* Clearing the expiry flag, or setting an interval, changes nothing else.  *)
LEMMA FlagType ==
  ASSUME NEW b \in BlankState, NEW x \in BOOLEAN,
         b.state = "normal_wait" => ~b.blanked
  PROVE  /\ [b EXCEPT !.expired = x] \in BlankState
         /\ [b EXCEPT !.expired = x].state = "normal_wait"
              => ~[b EXCEPT !.expired = x].blanked
         /\ [b EXCEPT !.interval = x] \in BlankState
         /\ [b EXCEPT !.interval = x].state = "normal_wait"
              => ~[b EXCEPT !.interval = x].blanked
         /\ [b EXCEPT !.off_interval = x] \in BlankState
         /\ [b EXCEPT !.off_interval = x].state = "normal_wait"
              => ~[b EXCEPT !.off_interval = x].blanked
         /\ [b EXCEPT !.timer = FALSE, !.expired = TRUE] \in BlankState
         /\ [b EXCEPT !.timer = FALSE, !.expired = TRUE].state = "normal_wait"
              => ~[b EXCEPT !.timer = FALSE, !.expired = TRUE].blanked
BY DEF BlankState

(* The updates of one display.                                              *)
LEMMA DisplayType ==
  ASSUME NEW d \in VtStruct, NEW o \in Obj, NEW q \in Obj
  PROVE  /\ [d EXCEPT !.want_vc = o, !.fg_console = o, !.last_console = o] \in VtStruct
         /\ [d EXCEPT !.want_vc = o, !.work = TRUE] \in VtStruct
         /\ [d EXCEPT !.last_console = q, !.fg_console = o] \in VtStruct
BY DEF VtStruct

(* Its flags.                                                               *)
LEMMA DisplayFlagType ==
  ASSUME NEW d \in VtStruct, NEW x \in BOOLEAN
  PROVE  /\ [d EXCEPT !.work = x] \in VtStruct
         /\ [d EXCEPT !.scroll = x] \in VtStruct
         /\ [d EXCEPT !.dont_switch = x] \in VtStruct
BY DEF VtStruct

(* vc_allocate on the displays.                                             *)
LEMMA ClaimedType ==
  ASSUME NEW d \in [VT -> VtStruct], NEW s \in Slot, NEW o \in Obj
  PROVE  Claimed(d, s, o) \in [VT -> VtStruct]
BY DisplayType, SlotParts DEF Claimed

-----------------------------------------------------------------------------
(* The invariant, in the parts that the actions are checked against.        *)

Inv == /\ TypeOK
       /\ IoctlHoldsTty
       /\ PoolSound
       /\ PendingSwitch
       /\ BlankStateSound
       /\ MutualExclusion

(* The types of the program counters.                                       *)
PcType == /\ pc \in [Agent -> CallbackPc \cup IoctlPc]
          /\ \A t \in VT : pc[t] \in CallbackPc
          /\ \A p \in Proc : pc[p] \in IoctlPc

(* The vc_data of a step that neither allocates nor frees.                  *)
Kept == /\ vc' \in [Obj -> VcData]
        /\ \A o \in Obj : vc'[o].live = vc[o].live /\ vc'[o].slot = vc[o].slot
        /\ \A o \in Obj : vc'[o].vt_newvt # NULL =>
              vc'[o].vt_mode = "VT_PROCESS" /\ vc'[o].vt_pid \in Proc
        /\ vc_cons' = vc_cons

(* A step that keeps the consoles keeps what the pool promises.             *)
LEMMA KeptPool ==
  ASSUME TypeOK, PoolSound, Kept
  PROVE  PoolSound' /\ PendingSwitch'
BY DEF TypeOK, PoolSound, PendingSwitch, Kept

(* A step that does not touch the consoles keeps them.                      *)
LEMMA UnchangedKept ==
  ASSUME TypeOK, PendingSwitch, UNCHANGED <<vc, vc_cons>>
  PROVE  Kept
BY DEF TypeOK, PendingSwitch, Kept

(* vt_work starts.                                                          *)
LEMMA CallbackStartInv ==
  ASSUME Inv, NEW t \in VT, CallbackStart(t)
  PROVE  Inv'
<1>1. TypeOK'
  <2>1. vt' \in [VT -> VtStruct]
    BY DisplayFlagType DEF Inv, TypeOK, CallbackStart
  <2>2. PcType'
    BY DEF Inv, TypeOK, PcType, CallbackStart, Agent, CallbackPc
  <2> QED  BY <2>1, <2>2 DEF Inv, TypeOK, PcType, CallbackStart
<1>2. IoctlHoldsTty'
  BY DEF Inv, TypeOK, IoctlHoldsTty, CallbackStart, Agent
<1>3. PoolSound' /\ PendingSwitch'
  BY KeptPool, UnchangedKept DEF Inv, CallbackStart
<1>4. BlankStateSound'
  BY DEF Inv, BlankStateSound, CallbackStart
<1>5. MutualExclusion'
  BY DEF Inv, TypeOK, MutualExclusion, CallbackStart, Agent
<1> QED  BY <1>1, <1>2, <1>3, <1>4, <1>5 DEF Inv

(* vt_work finishes: poke, scroll, blank, release.                          *)
LEMMA CallbackFinishInv ==
  ASSUME Inv, NEW t \in VT, CallbackFinish(t)
  PROVE  Inv'
<1> DEFINE mode  == vc[Fg(t)].mode
           poked == IF poke THEN poke_blanked_console(bl[t], mode, ignore_poke) ELSE bl[t]
           done  == IF poked.expired
                      THEN [do_blank_screen(poked, mode, FALSE) EXCEPT !.expired = FALSE]
                      ELSE poked
<1>1. poked \in BlankState /\ (poked.state = "normal_wait" => ~poked.blanked)
  BY PokeType DEF Inv, TypeOK, BlankStateSound
<1>2. done \in BlankState /\ (done.state = "normal_wait" => ~done.blanked)
  <2> HIDE DEF poked
  <2> QED  BY <1>1, BlankType, FlagType
<1>3. bl' = [bl EXCEPT ![t] = done]
  BY DEF CallbackFinish
<1> HIDE DEF done
<1>4. bl' \in [VT -> BlankState] /\ BlankStateSound'
  BY <1>2, <1>3 DEF Inv, TypeOK, BlankStateSound
<1>5. TypeOK'
  <2>1. vt' \in [VT -> VtStruct]
    BY DisplayFlagType DEF Inv, TypeOK, CallbackFinish
  <2>2. PcType'
    BY DEF Inv, TypeOK, PcType, CallbackFinish, Agent, CallbackPc
  <2>3. poke' \in BOOLEAN /\ ignore_poke' \in BOOLEAN
    BY DEF CallbackFinish
  <2> QED  BY <1>4, <2>1, <2>2, <2>3 DEF Inv, TypeOK, PcType, CallbackFinish
<1>6. IoctlHoldsTty'
  BY DEF Inv, TypeOK, IoctlHoldsTty, CallbackFinish, Agent
<1>7. PoolSound' /\ PendingSwitch'
  BY KeptPool, UnchangedKept DEF Inv, CallbackFinish
<1>8. MutualExclusion'
  BY DEF Inv, TypeOK, MutualExclusion, CallbackFinish, Agent
<1> QED  BY <1>4, <1>5, <1>6, <1>7, <1>8 DEF Inv

(* A table of consoles in which every pending switch can be completed.      *)
Sound(table) ==
  /\ table \in [Obj -> VcData]
  /\ \A o \in Obj : table[o].vt_newvt # NULL =>
        table[o].vt_mode = "VT_PROCESS" /\ table[o].vt_pid \in Proc

(* Two tables with the same consoles at the same places.                    *)
SameHeap(old, new) ==
  \A o \in Obj : new[o].live = old[o].live /\ new[o].slot = old[o].slot

(* Resetting a console keeps the table sound, and every console's place.    *)
LEMMA ResetSound ==
  ASSUME NEW table, Sound(table), NEW o \in Obj
  PROVE  /\ Sound([table EXCEPT ![o] = reset_vc(table[o])])
         /\ SameHeap(table, [table EXCEPT ![o] = reset_vc(table[o])])
BY ResetType DEF Sound, SameHeap

(* So does clearing a pending switch.                                       *)
LEMMA ClearedSound ==
  ASSUME NEW table, Sound(table), NEW o \in Obj, NEW d, Cleared(table[o], d)
  PROVE  /\ Sound([table EXCEPT ![o] = d])
         /\ SameHeap(table, [table EXCEPT ![o] = d])
BY DEF Sound, SameHeap, Cleared

(* The program counters after a switch by self that continues at after.     *)
Woken(self, after) ==
  /\ PcType'
  /\ pc'[self] \in {after, "stuck"}
  /\ \A a \in Agent \ {self} :
        pc'[a] = pc[a] \/ (pc[a] = "asleep" /\ pc'[a] = "waitactive")

(* What complete_change_console does to each part of the state.             *)
LEMMA CompleteStep ==
  ASSUME TypeOK, BlankStateSound,
         NEW self \in Agent, NEW new \in Obj, NEW old \in Obj,
         NEW consoles, Sound(consoles), NEW displays \in [VT -> VtStruct],
         NEW after \in {"locked", "idle"}, self \in Proc => after = "idle",
         complete_change_console(self, new, old, consoles, displays, after)
  PROVE  /\ vt' \in [VT -> VtStruct]
         /\ Sound(vc') /\ SameHeap(consoles, vc')
         /\ bl' \in [VT -> BlankState] /\ BlankStateSound'
         /\ ignore_poke' \in BOOLEAN
         /\ Woken(self, after)
         /\ pc'[self] = "stuck" <=> NestedAcquire(new, old, consoles)
<1> DEFINE t    == consoles[new].slot[1]
           gone == consoles[new].vt_mode = "VT_PROCESS" /\ ~Reachable(consoles[new])
           back == gone /\ consoles[old].mode # "KD_TEXT"
<1>1. t \in VT
  BY SlotParts DEF Sound, VcData
<1>2. vt' \in [VT -> VtStruct]
  BY <1>1, DisplayType DEF complete_change_console
<1>3. Sound(vc') /\ SameHeap(consoles, vc')
  <2>1. vc' = consoles \/ vc' = [consoles EXCEPT ![new] = reset_vc(consoles[new])]
    BY DEF complete_change_console
  <2>2. SameHeap(consoles, consoles)
    BY DEF SameHeap
  <2> QED  BY <2>1, <2>2, ResetSound
<1>4. bl' \in [VT -> BlankState] /\ BlankStateSound'
  <2>1. bl' = bl \/ bl' = [bl EXCEPT ![t] = unblank_vt(bl[t], "KD_TEXT")]
    BY DEF complete_change_console
  <2> QED  BY <1>1, <2>1, UnblankType DEF TypeOK, BlankStateSound
<1>5. ignore_poke' \in BOOLEAN
  BY DEF complete_change_console, TypeOK
<1>6. CASE NestedAcquire(new, old, consoles)
  <2>1. pc' = [pc EXCEPT ![self] = "stuck"]
    BY <1>6 DEF complete_change_console
  <2>2. Woken(self, after) /\ pc'[self] = "stuck"
    BY <2>1 DEF TypeOK, PcType, Woken, Agent, CallbackPc, IoctlPc
  <2> QED  BY <1>2, <1>3, <1>4, <1>5, <1>6, <2>2
<1>7. CASE ~NestedAcquire(new, old, consoles)
  <2>1. pc' = wake_up([pc EXCEPT ![self] = after])
    BY <1>7 DEF complete_change_console
  <2>2. /\ pc' = [a \in Agent |-> IF pc'[a] = "waitactive" THEN pc'[a] ELSE pc'[a]]
        /\ pc'[self] = after
        /\ \A a \in Agent \ {self} :
             pc'[a] = IF pc[a] = "asleep" THEN "waitactive" ELSE pc[a]
    BY <2>1 DEF wake_up, TypeOK
  <2>3. Woken(self, after) /\ pc'[self] # "stuck"
    BY <2>2 DEF TypeOK, PcType, Woken, Agent, CallbackPc, IoctlPc
  <2> QED  BY <1>2, <1>3, <1>4, <1>5, <1>7, <2>3
<1> QED  BY <1>6, <1>7

(* A step that only moves agents on, wakes sleepers, and takes or passes on *)
(* the semaphore, keeps what an ioctl holds and who is locked.              *)
LEMMA WokenHolds ==
  ASSUME TypeOK, IoctlHoldsTty, MutualExclusion, sem = NULL,
         NEW self \in Agent, NEW after \in {"locked", "idle"},
         Woken(self, after),
         self \in Proc => after = "idle",
         sem' = IF pc'[self] = "idle" THEN NULL ELSE self,
         \A p \in Proc \ {self} : arg'[p] = arg[p],
         driver_data' = driver_data
  PROVE  IoctlHoldsTty' /\ MutualExclusion'
<1>1. \A p \in Proc : pc'[p] \notin {"idle", "stuck"} =>
        /\ p # self
        /\ pc[p] \notin {"idle", "stuck"}
        /\ pc'[p] \in {"waitactive", "asleep", "disallocate"} =>
             pc[p] \in {"waitactive", "asleep", "disallocate"}
  BY DEF Woken, PcType, Agent, IoctlPc
<1>2. IoctlHoldsTty'
  BY <1>1 DEF IoctlHoldsTty
<1>3. MutualExclusion'
  BY DEF MutualExclusion, Woken, PcType, Agent
<1> QED  BY <1>2, <1>3

(* What change_console does.                                                *)
LEMMA ChangeStep ==
  ASSUME Inv, NEW t \in VT, NEW new \in Obj, NEW old \in Obj,
         change_console(t, new, old)
  PROVE  /\ vt' \in [VT -> VtStruct]
         /\ Sound(vc') /\ SameHeap(vc, vc')
         /\ bl' \in [VT -> BlankState] /\ BlankStateSound'
         /\ ignore_poke' \in BOOLEAN
         /\ Woken(t, "locked")
<1> DEFINE asks == vc[old].vt_mode = "VT_PROCESS" /\ Reachable(vc[old])
           cons == IF vc[old].vt_mode = "VT_PROCESS"
                     THEN [vc EXCEPT ![old] = reset_vc(vc[old])] ELSE vc
<1>1. Sound(vc) /\ SameHeap(vc, vc)
  BY DEF Inv, TypeOK, PendingSwitch, Sound, SameHeap
<1>2. Sound(cons) /\ SameHeap(vc, cons)
  BY <1>1, ResetSound
<1>3. CASE asks
  <2>1. /\ vc' = [vc EXCEPT ![old].vt_newvt = vc[new].slot]
        /\ pc' = [pc EXCEPT ![t] = "locked"]
        /\ UNCHANGED <<vt, bl, ignore_poke>>
    BY <1>3 DEF change_console
  <2>2. Sound(vc') /\ SameHeap(vc, vc')
    BY <1>1, <1>3, <2>1 DEF Sound, SameHeap, VcData, Reachable
  <2>3. Woken(t, "locked")
    BY <2>1 DEF Inv, TypeOK, PcType, Woken, Agent, CallbackPc
  <2> QED  BY <2>1, <2>2, <2>3 DEF Inv, TypeOK, BlankStateSound
<1>4. CASE ~asks /\ cons[old].mode = "KD_GRAPHICS"
  <2>1. /\ vc' = cons
        /\ pc' = [pc EXCEPT ![t] = "locked"]
        /\ UNCHANGED <<vt, bl, ignore_poke>>
    BY <1>4 DEF change_console
  <2>2. Woken(t, "locked")
    BY <2>1 DEF Inv, TypeOK, PcType, Woken, Agent, CallbackPc
  <2> QED  BY <1>2, <2>1, <2>2 DEF Inv, TypeOK, BlankStateSound
<1>5. CASE ~asks /\ cons[old].mode # "KD_GRAPHICS"
  <2>1. complete_change_console(t, new, old, cons, vt, "locked")
    BY <1>5 DEF change_console
  <2>2. t \in Agent /\ t \notin Proc /\ vt \in [VT -> VtStruct]
    BY DEF Inv, TypeOK, Agent
  <2>3. SameHeap(cons, vc') => SameHeap(vc, vc')
    BY <1>2 DEF SameHeap
  <2> HIDE DEF cons
  <2> QED  BY <1>2, <2>1, <2>2, <2>3, CompleteStep DEF Inv
<1> QED  BY <1>3, <1>4, <1>5

(* vt_callback takes the semaphore and switches.                            *)
LEMMA CallbackSwitchInv ==
  ASSUME Inv, NEW t \in VT, CallbackSwitch(t)
  PROVE  Inv'
<1> DEFINE wanted == vt[t].want_vc # Fg(t) /\ ~vt[t].dont_switch
<1>1. vt[t].want_vc \in Obj /\ Fg(t) \in Obj
  BY DEF Inv, TypeOK, VtStruct, Fg
<1>2. /\ vt' \in [VT -> VtStruct]
      /\ Sound(vc') /\ SameHeap(vc, vc')
      /\ bl' \in [VT -> BlankState] /\ BlankStateSound'
      /\ ignore_poke' \in BOOLEAN
      /\ Woken(t, "locked")
  <2>1. CASE wanted
    <3>1. change_console(t, vt[t].want_vc, Fg(t))
      BY <2>1 DEF CallbackSwitch, SwitchHoldingSem
    <3> QED  BY <1>1, <3>1, ChangeStep
  <2>2. CASE ~wanted
    <3>1. pc' = [pc EXCEPT ![t] = "locked"] /\ UNCHANGED <<vc, vt, bl, ignore_poke>>
      BY <2>2 DEF CallbackSwitch, SwitchHoldingSem
    <3>2. Woken(t, "locked")
      BY <3>1 DEF Inv, TypeOK, PcType, Woken, Agent, CallbackPc
    <3>3. Sound(vc) /\ SameHeap(vc, vc)
      BY DEF Inv, TypeOK, PendingSwitch, Sound, SameHeap
    <3> QED  BY <3>1, <3>2, <3>3 DEF Inv, TypeOK, BlankStateSound
  <2> QED  BY <2>1, <2>2
<1>3. /\ sem = NULL /\ sem' = t
      /\ UNCHANGED <<vc_cons, driver_data, poke, arg, alive>>
  BY DEF CallbackSwitch, SwitchHoldingSem
<1>4. TypeOK'
  BY <1>2, <1>3 DEF Inv, TypeOK, Sound, Woken, PcType, Agent
<1>5. PoolSound' /\ PendingSwitch'
  BY <1>2, <1>3, KeptPool DEF Inv, Sound, SameHeap, Kept
<1>6. IoctlHoldsTty' /\ MutualExclusion'
  BY <1>2, <1>3, WokenHolds DEF Inv, Woken, Agent
<1> QED  BY <1>2, <1>4, <1>5, <1>6 DEF Inv

-----------------------------------------------------------------------------
(* Frames: what a step that leaves part of the state alone preserves.       *)

(* Agents that do not move.                                                 *)
LEMMA AgentsStill ==
  ASSUME Inv, UNCHANGED <<driver_data, sem, pc, arg>>
  PROVE  PcType' /\ IoctlHoldsTty' /\ MutualExclusion'
BY DEF Inv, TypeOK, PcType, IoctlHoldsTty, MutualExclusion

(* The locals of an ioctl are not mistaken for none.                        *)
LEMMA LocalsNotNull == NULL \notin Locals
BY DEF Locals

(* A process that enters an ioctl on an open tty.                           *)
LEMMA EnterHolds ==
  ASSUME Inv, NEW p \in Proc, NEW s \in Slot, NEW slot \in Slot,
         NEW l \in IoctlPc \ {"idle", "stuck"}, NEW obj \in Obj \cup {NULL},
         l \in {"waitactive", "asleep", "disallocate"} => obj # NULL,
         pc[p] = "idle", driver_data[s] # NULL,
         Enter(p, l, s, obj, slot), UNCHANGED <<driver_data, sem>>
  PROVE  /\ PcType' /\ IoctlHoldsTty' /\ MutualExclusion'
         /\ arg' \in [Proc -> Locals \cup {NULL}]
<1>1. /\ pc' = [pc EXCEPT ![p] = l]
      /\ arg' = [arg EXCEPT ![p] = [tty |-> s, obj |-> obj, slot |-> slot]]
  BY DEF Enter
<1>2. PcType'
  BY <1>1 DEF Inv, TypeOK, PcType, Agent
<1>3. [tty |-> s, obj |-> obj, slot |-> slot] \in Locals
  BY DEF Locals
<1>4. [tty |-> s, obj |-> obj, slot |-> slot] # NULL
  <2>1. NULL \notin Locals
    BY LocalsNotNull
  <2> QED  BY <1>3, <2>1
<1>5. IoctlHoldsTty'
  BY <1>1, <1>4 DEF Inv, TypeOK, IoctlHoldsTty, Agent
<1>6. MutualExclusion'
  BY <1>1 DEF Inv, TypeOK, MutualExclusion, Agent, IoctlPc
<1> QED  BY <1>1, <1>2, <1>3, <1>5, <1>6 DEF Inv, TypeOK

(* A process that returns from one.                                         *)
LEMMA ReturnHolds ==
  ASSUME Inv, NEW p \in Proc, pc[p] # "stuck", Return(p), UNCHANGED <<driver_data, sem>>
  PROVE  /\ PcType' /\ IoctlHoldsTty' /\ MutualExclusion'
         /\ arg' \in [Proc -> Locals \cup {NULL}]
<1>1. PcType'
  BY DEF Inv, TypeOK, PcType, Agent, Return, IoctlPc
<1>2. IoctlHoldsTty'
  BY DEF Inv, TypeOK, IoctlHoldsTty, Agent, Return
<1>3. MutualExclusion'
  BY DEF Inv, TypeOK, MutualExclusion, Agent, Return, IoctlPc
<1> QED  BY <1>1, <1>2, <1>3 DEF Inv, TypeOK, Return

(* set_console on a console keeps the displays' type.                       *)
LEMMA SetConsoleType ==
  ASSUME TypeOK, NEW d \in [VT -> VtStruct], NEW o \in Obj
  PROVE  set_console(d, o) \in [VT -> VtStruct]
<1>1. Disp(o) \in VT
  BY SlotParts DEF TypeOK, VcData, Disp
<1> QED  BY <1>1, DisplayType DEF set_console

(* So does schedule_work on a display.                                      *)
LEMMA ScheduleType ==
  ASSUME NEW d \in [VT -> VtStruct], NEW t \in VT
  PROVE  schedule_work(d, t) \in [VT -> VtStruct]
BY DisplayFlagType DEF schedule_work

(* What fn_inc_console and fn_dec_console find is a console.                *)
LEMMA NextConsoleType ==
  ASSUME TypeOK, NEW t \in VT, NEW up \in BOOLEAN
  PROVE  NextConsole(t, up) \subseteq Obj
<1> SUFFICES ASSUME NEW o \in NextConsole(t, up)
             PROVE  o \in Obj
  OBVIOUS
<1>1. PICK i \in Index : find_vc(<<t, i>>) # NULL /\ o = find_vc(<<t, i>>)
  BY Zenon DEF NextConsole
<1> QED  BY <1>1 DEF TypeOK, find_vc, Slot

(* The display of a console, and its foreground console.                    *)
LEMMA DispFg ==
  ASSUME TypeOK
  PROVE  /\ \A o \in Obj : Disp(o) \in VT
         /\ \A t \in VT : Fg(t) \in Obj /\ vt[t].last_console \in Obj
BY SlotParts DEF TypeOK, VcData, VtStruct, Disp, Fg

-----------------------------------------------------------------------------
(* Interrupts.                                                              *)

(* The blanking timer.                                                      *)
LEMMA TimerInv ==
  ASSUME Inv, NEW t \in VT, blank_screen_t(t)
  PROVE  Inv'
<1>1. bl' \in [VT -> BlankState] /\ BlankStateSound'
  BY FlagType DEF Inv, TypeOK, BlankStateSound, blank_screen_t
<1>2. vt' \in [VT -> VtStruct]
  BY ScheduleType DEF Inv, TypeOK, blank_screen_t
<1>3. PoolSound' /\ PendingSwitch'
  BY KeptPool, UnchangedKept DEF Inv, blank_screen_t
<1>4. PcType' /\ IoctlHoldsTty' /\ MutualExclusion'
  BY AgentsStill DEF blank_screen_t
<1>5. TypeOK'
  BY <1>1, <1>2, <1>4 DEF Inv, TypeOK, PcType, blank_screen_t
<1> QED  BY <1>1, <1>3, <1>4, <1>5 DEF Inv

(* A keyboard event whose handler leaves sound tables.                      *)
LEMMA KbdEventInv ==
  ASSUME Inv, NEW t \in VT, NEW consoles, Sound(consoles), SameHeap(vc, consoles),
         NEW displays \in [VT -> VtStruct], kbd_event(t, consoles, displays)
  PROVE  Inv'
<1>1. vt' \in [VT -> VtStruct]
  BY ScheduleType DEF kbd_event
<1>2. PoolSound' /\ PendingSwitch'
  BY KeptPool DEF Inv, kbd_event, Kept, Sound, SameHeap
<1>3. PcType' /\ IoctlHoldsTty' /\ MutualExclusion'
  BY AgentsStill DEF kbd_event
<1>4. TypeOK' /\ BlankStateSound'
  BY <1>1, <1>3 DEF Inv, TypeOK, PcType, BlankStateSound, kbd_event, Sound
<1> QED  BY <1>2, <1>3, <1>4 DEF Inv

(* Any key.                                                                 *)
LEMMA KeyboardInv ==
  ASSUME Inv, NEW t \in VT, Keyboard(t)
  PROVE  Inv'
<1>1. Sound(vc) /\ SameHeap(vc, vc) /\ vt \in [VT -> VtStruct]
  BY DEF Inv, TypeOK, PendingSwitch, Sound, SameHeap
<1>2. \A s \in Slot : find_vc(s) # NULL => find_vc(s) \in Obj
  BY DEF Inv, TypeOK, find_vc
<1>3. CASE KeyPlain(t)
  BY <1>1, <1>3, KbdEventInv DEF KeyPlain
<1>4. CASE k_cons(t)
  <2>1. PICK d \in Slot : find_vc(d) # NULL /\ kbd_event(t, vc, set_console(vt, find_vc(d)))
    BY <1>4 DEF k_cons
  <2>2. set_console(vt, find_vc(d)) \in [VT -> VtStruct]
    BY <1>1, <1>2, <2>1, SetConsoleType DEF Inv
  <2> QED  BY <1>1, <2>1, <2>2, KbdEventInv
<1>5. CASE fn_lastcons(t)
  <2>1. set_console(vt, vt[t].last_console) \in [VT -> VtStruct]
    BY <1>1, SetConsoleType, DispFg DEF Inv
  <2> QED  BY <1>1, <1>5, <2>1, KbdEventInv DEF fn_lastcons
<1>6. ASSUME NEW op, NEW up \in BOOLEAN, fn_inc_console(t, op, up)
      PROVE  Inv'
  <2>1. CASE kbd_event(t, vc, vt)
    BY <1>1, <2>1, KbdEventInv
  <2>2. CASE \E o \in NextConsole(t, up) : kbd_event(t, vc, set_console(vt, o))
    <3>1. PICK o \in NextConsole(t, up) : kbd_event(t, vc, set_console(vt, o))
      BY <2>2
    <3>2. o \in Obj
      BY NextConsoleType DEF Inv
    <3>3. set_console(vt, o) \in [VT -> VtStruct]
      BY <1>1, <3>2, SetConsoleType DEF Inv
    <3> QED  BY <1>1, <3>1, <3>3, KbdEventInv
  <2> QED  BY <1>6, <2>1, <2>2 DEF fn_inc_console
<1>7. CASE fn_scroll(t)
  <2>1. PICK nonzero \in BOOLEAN : kbd_event(t, vc, [vt EXCEPT ![t].scroll = nonzero])
    BY <1>7 DEF fn_scroll
  <2>2. [vt EXCEPT ![t].scroll = nonzero] \in [VT -> VtStruct]
    BY <1>1, DisplayFlagType
  <2> QED  BY <1>1, <2>1, <2>2, KbdEventInv
<1>8. CASE fn_SAK(t)
  <2>1. Fg(t) \in Obj
    BY DispFg DEF Inv
  <2>2. /\ Sound([vc EXCEPT ![Fg(t)] = reset_vc(vc[Fg(t)])])
        /\ SameHeap(vc, [vc EXCEPT ![Fg(t)] = reset_vc(vc[Fg(t)])])
    BY <1>1, <2>1, ResetSound
  <2> QED  BY <1>1, <1>8, <2>2, KbdEventInv DEF fn_SAK
<1> QED  BY <1>3, <1>4, <1>5, <1>6, <1>7, <1>8 DEF Keyboard

-----------------------------------------------------------------------------
(* The pool.                                                                *)

(* A console is allocated at s: nothing pointed to the object before.       *)
LEMMA AllocateStep ==
  ASSUME Inv, NEW s \in Slot, NEW o \in FreeObj, NEW open \in BOOLEAN,
         NEW table, Sound(table), SameHeap(vc, table),
         Sound(vc'), SameHeap([table EXCEPT ![o] = NewVc(s, open)], vc'),
         vc_cons' = [vc_cons EXCEPT ![s] = o]
  PROVE  PoolSound' /\ PendingSwitch' /\ vc_cons' \in [Slot -> Obj \cup {NULL}]
<1>1. o \in Obj /\ ~vc[o].live
  BY DEF FreeObj
<1>2. \A q \in Slot : vc_cons[q] # o
  BY <1>1 DEF Inv, PoolSound
<1>3. vc'[o].live /\ vc'[o].slot = s
  BY <1>1, NewVcType DEF SameHeap, Sound
<1>4. \A q \in Obj \ {o} : vc'[q].live = vc[q].live /\ vc'[q].slot = vc[q].slot
  BY <1>1 DEF SameHeap, Sound
<1>5. vc_cons' \in [Slot -> Obj \cup {NULL}]
  BY <1>1 DEF Inv, TypeOK
<1>6. PoolSound'
  BY <1>1, <1>2, <1>3, <1>4 DEF Inv, TypeOK, PoolSound
<1> QED  BY <1>5, <1>6 DEF Sound, PendingSwitch

(* A fresh console keeps a table sound.                                     *)
LEMMA NewSound ==
  ASSUME NEW table, Sound(table), NEW o \in Obj, NEW s \in Slot, NEW open \in BOOLEAN
  PROVE  Sound([table EXCEPT ![o] = NewVc(s, open)])
BY NewVcType DEF Sound

(* Consoles are freed.                                                      *)
LEMMA DisallocateStep ==
  ASSUME Inv, NEW os, vc_disallocate(os)
  PROVE  /\ PoolSound' /\ PendingSwitch'
         /\ vc' \in [Obj -> VcData] /\ vc_cons' \in [Slot -> Obj \cup {NULL}]
<1> DEFINE gone == {o \in os : Num(vc[o].slot) > MIN_NR_CONSOLES}
<1>1. /\ vc' = [o \in Obj |-> IF o \in gone THEN [vc[o] EXCEPT !.live = FALSE] ELSE vc[o]]
      /\ vc_cons' = [s \in Slot |->
                       IF \E o \in gone : vc[o].slot = s THEN NULL ELSE vc_cons[s]]
  BY DEF vc_disallocate
<1> HIDE DEF gone
<1>2. \A o \in Obj : Alike(vc[o], vc'[o]) /\ (o \notin gone => vc'[o].live = vc[o].live)
  <2> SUFFICES ASSUME NEW o \in Obj
               PROVE  Alike(vc[o], vc'[o]) /\ (o \notin gone => vc'[o].live = vc[o].live)
    OBVIOUS
  <2>1. vc[o] \in VcData
    BY DEF Inv, TypeOK
  <2>2. Alike(vc[o], vc[o])
    BY <2>1 DEF Alike
  <2>3. vc'[o] = IF o \in gone THEN [vc[o] EXCEPT !.live = FALSE] ELSE vc[o]
    BY <1>1
  <2> QED  BY <2>1, <2>2, <2>3, FieldUpdates
<1>3. vc' \in [Obj -> VcData]
  BY <1>1, <1>2 DEF Alike
<1>4. vc_cons' \in [Slot -> Obj \cup {NULL}]
  BY <1>1 DEF Inv, TypeOK
<1>5. PoolSound'
  <2> SUFFICES ASSUME NEW s \in Slot, vc_cons'[s] # NULL
               PROVE  vc'[vc_cons'[s]].live /\ vc'[vc_cons'[s]].slot = s
    BY DEF PoolSound
  <2>1. vc_cons'[s] = vc_cons[s] /\ ~\E o \in gone : vc[o].slot = s
    BY <1>1
  <2>2. vc_cons[s] \in Obj /\ vc[vc_cons[s]].live /\ vc[vc_cons[s]].slot = s
    BY <2>1 DEF Inv, TypeOK, PoolSound
  <2>3. vc_cons[s] \notin gone
    BY <2>1, <2>2
  <2> QED  BY <1>2, <2>1, <2>2, <2>3 DEF Alike
<1>6. PendingSwitch'
  BY <1>2 DEF Inv, PendingSwitch, Alike
<1> QED  BY <1>3, <1>4, <1>5, <1>6

(* One console changes in nothing the pool or a pending switch depends on.  *)
LEMMA AlikeKept ==
  ASSUME TypeOK, PendingSwitch, NEW o \in Obj, NEW d,
         Alike(vc[o], d), d.live = vc[o].live,
         vc' = [vc EXCEPT ![o] = d], vc_cons' = vc_cons
  PROVE  Kept
BY DEF TypeOK, PendingSwitch, Kept, Alike

(* The tty of a console is opened.                                          *)
LEMMA OpenInv ==
  ASSUME Inv, NEW s \in Slot, vt_open(s)
  PROVE  Inv'
<1>1. PICK o \in FreeObj : /\ vc_allocate(s, o, TRUE)
                          /\ vt' = Claimed(vt, s, o)
                          /\ driver_data' = [driver_data EXCEPT ![s] = o]
  BY DEF vt_open
<1>2. o \in Obj
  BY DEF FreeObj
<1>3. Sound(vc) /\ SameHeap(vc, vc)
  BY DEF Inv, TypeOK, PendingSwitch, Sound, SameHeap
<1>4. Sound(vc') /\ vc' = [vc EXCEPT ![o] = NewVc(s, TRUE)]
  BY <1>1, <1>2, <1>3, NewSound DEF vc_allocate
<1>5. PoolSound' /\ PendingSwitch' /\ vc_cons' \in [Slot -> Obj \cup {NULL}]
  <2>1. SameHeap([vc EXCEPT ![o] = NewVc(s, TRUE)], vc')
    BY <1>4 DEF SameHeap
  <2> QED  BY <1>1, <1>3, <1>4, <2>1, AllocateStep DEF vc_allocate
<1>6. vt' \in [VT -> VtStruct]
  BY <1>1, <1>2, ClaimedType DEF Inv, TypeOK
<1>7. /\ driver_data' \in [Slot -> Obj \cup {NULL}]
      /\ \A q \in Slot : driver_data[q] # NULL => driver_data'[q] # NULL
  BY <1>1, <1>2 DEF Inv, TypeOK
<1>8. UNCHANGED <<bl, poke, ignore_poke, sem, pc, arg, alive>>
  BY DEF vt_open
<1>9. TypeOK'
  BY <1>4, <1>5, <1>6, <1>7, <1>8 DEF Inv, TypeOK, Sound
<1>10. IoctlHoldsTty'
  BY <1>7, <1>8 DEF Inv, TypeOK, IoctlHoldsTty, Locals
<1>11. BlankStateSound' /\ MutualExclusion'
  BY <1>8 DEF Inv, BlankStateSound, MutualExclusion
<1> QED  BY <1>5, <1>9, <1>10, <1>11 DEF Inv

(* The tty of a console is closed for the last time.                        *)
LEMMA CloseInv ==
  ASSUME Inv, NEW s \in Slot, vt_close(s)
  PROVE  Inv'
<1>1. driver_data[s] \in Obj
  BY DEF Inv, TypeOK, vt_close
<1>2. Kept
  <2> DEFINE o == driver_data[s]
             d == [vc[o] EXCEPT !.vc_tty = FALSE]
  <2>1. Alike(vc[o], d) /\ d.live = vc[o].live
    BY <1>1, FieldUpdates DEF Inv, TypeOK
  <2>2. vc' = [vc EXCEPT ![o] = d] /\ vc_cons' = vc_cons
    BY DEF vt_close
  <2> HIDE DEF d
  <2> QED  BY <1>1, <2>1, <2>2, AlikeKept DEF Inv
<1>3. PoolSound' /\ PendingSwitch'
  BY <1>2, KeptPool DEF Inv
<1>4. UNCHANGED <<vt, bl, poke, ignore_poke, sem, pc, arg, alive>>
  BY DEF vt_close
<1>5. /\ driver_data' \in [Slot -> Obj \cup {NULL}]
      /\ \A q \in Slot \ {s} : driver_data'[q] = driver_data[q]
  BY DEF Inv, TypeOK, vt_close
<1>6. IoctlHoldsTty'
  <2>1. \A p \in Proc : arg[p] # NULL => arg[p] \in Locals /\ arg[p].tty # s
    BY DEF vt_close, InIoctl, Inv, TypeOK
  <2> QED  BY <1>4, <1>5, <2>1 DEF Inv, IoctlHoldsTty, Locals
<1>7. TypeOK'
  BY <1>2, <1>4, <1>5 DEF Inv, TypeOK, Kept
<1>8. BlankStateSound' /\ MutualExclusion'
  BY <1>4 DEF Inv, BlankStateSound, MutualExclusion
<1> QED  BY <1>3, <1>6, <1>7, <1>8 DEF Inv

-----------------------------------------------------------------------------
(* The ioctls.                                                              *)

(* A step that keeps the consoles, and types the rest.                      *)
LEMMA StepInv ==
  ASSUME Inv, Kept, PcType', IoctlHoldsTty', MutualExclusion', BlankStateSound',
         vt' \in [VT -> VtStruct], bl' \in [VT -> BlankState],
         arg' \in [Proc -> Locals \cup {NULL}], alive' \in [Proc -> BOOLEAN],
         ignore_poke' \in BOOLEAN, UNCHANGED <<driver_data, poke, sem>>
  PROVE  Inv'
<1>1. PoolSound' /\ PendingSwitch'
  BY KeptPool DEF Inv
<1>2. TypeOK'
  BY DEF Inv, TypeOK, Kept, PcType
<1> QED  BY <1>1, <1>2 DEF Inv

(* What an ioctl starts from.                                               *)
LEMMA CallFacts ==
  ASSUME Inv, NEW p \in Proc, NEW s \in Slot, NEW op, CanCall(p, s, op)
  PROVE  /\ pc[p] = "idle" /\ pc[p] \in IoctlPc
         /\ driver_data[s] \in Obj /\ driver_data[s] # NULL
         /\ Disp(driver_data[s]) \in VT
         /\ Fg(Disp(driver_data[s])) \in Obj
BY DispFg DEF Inv, TypeOK, CanCall

(* KDSETMODE, the unlocked part.                                            *)
LEMMA KdSetModeInv ==
  ASSUME Inv, NEW p \in Proc, NEW s \in Slot, NEW m \in {"KD_TEXT", "KD_GRAPHICS"}, NEW op,
         NEW place \in {"blank_gfx", "unblank"}, KDSETMODE(p, s, m, op, place)
  PROVE  Inv'
<1> DEFINE o == driver_data[s]
           d == [vc[o] EXCEPT !.mode = m]
<1>1. CanCall(p, s, op) /\ UNCHANGED <<vc_cons, driver_data, vt, bl, poke, ignore_poke, sem, alive>>
  BY DEF KDSETMODE
<1>2. pc[p] = "idle" /\ o \in Obj /\ o # NULL
  BY <1>1, CallFacts
<1>3. Alike(vc[o], d) /\ d.live = vc[o].live
  BY <1>2, FieldUpdates DEF Inv, TypeOK
<1>4. vc' = [vc EXCEPT ![o] = d]
  BY DEF KDSETMODE
<1> HIDE DEF d
<1>5. Kept
  BY <1>1, <1>2, <1>3, <1>4, AlikeKept DEF Inv
<1>6. /\ PcType' /\ IoctlHoldsTty' /\ MutualExclusion'
      /\ arg' \in [Proc -> Locals \cup {NULL}]
  <2>1. CASE Enter(p, place, s, NULL, s)
    <3>1. place \in IoctlPc \ {"idle", "stuck"} /\ place \notin {"waitactive", "asleep", "disallocate"}
      BY DEF IoctlPc
    <3> QED  BY <1>1, <1>2, <2>1, <3>1, EnterHolds
  <2>2. CASE UNCHANGED <<pc, arg>>
    BY <1>1, <2>2, AgentsStill DEF Inv, TypeOK
  <2> QED  BY <2>1, <2>2 DEF KDSETMODE
<1> QED  BY <1>1, <1>5, <1>6, StepInv DEF Inv, TypeOK, BlankStateSound

(* KDSETMODE under the semaphore.                                           *)
LEMMA KdSetModeLockedInv ==
  ASSUME Inv, NEW p \in Proc, KDSETMODE_LOCKED(p)
  PROVE  Inv'
<1> DEFINE t == Disp(driver_data[arg[p].tty])
           m == vc[Fg(t)].mode
           b == IF pc[p] = "unblank" THEN unblank_vt(bl[t], m) ELSE do_blank_screen(bl[t], m, TRUE)
<1>1. UNCHANGED <<vc, vc_cons, driver_data, vt, poke, sem, alive>> /\ Return(p) /\ pc[p] # "stuck"
  BY DEF KDSETMODE_LOCKED
<1>2. t \in VT
  <2>1. arg[p] \in Locals /\ driver_data[arg[p].tty] # NULL
    BY DEF KDSETMODE_LOCKED, Inv, IoctlHoldsTty, TypeOK
  <2>2. driver_data[arg[p].tty] \in Obj
    BY <2>1 DEF Inv, TypeOK, Locals
  <2> QED  BY <2>2, DispFg DEF Inv
<1>3. b \in BlankState /\ (b.state = "normal_wait" => ~b.blanked)
  BY <1>2, BlankType, UnblankType DEF Inv, TypeOK, BlankStateSound
<1>4. bl' = [bl EXCEPT ![t] = b] /\ ignore_poke' \in BOOLEAN
  BY DEF KDSETMODE_LOCKED
<1> HIDE DEF b
<1>5. bl' \in [VT -> BlankState] /\ BlankStateSound'
  BY <1>2, <1>3, <1>4 DEF Inv, TypeOK, BlankStateSound
<1>6. Kept
  BY <1>1, UnchangedKept DEF Inv
<1>7. /\ PcType' /\ IoctlHoldsTty' /\ MutualExclusion'
      /\ arg' \in [Proc -> Locals \cup {NULL}]
  BY <1>1, ReturnHolds
<1> QED  BY <1>1, <1>4, <1>5, <1>6, <1>7, StepInv DEF Inv, TypeOK

(* VT_SETMODE.                                                              *)
LEMMA VtSetModeInv ==
  ASSUME Inv, NEW p \in Proc, NEW s \in Slot, NEW m \in {"VT_AUTO", "VT_PROCESS"},
         VT_SETMODE(p, s, m)
  PROVE  Inv'
<1> DEFINE o == driver_data[s]
           d == [vc[o] EXCEPT !.vt_mode = m, !.vt_pid = p, !.vt_newvt = NULL]
<1>1. /\ CanCall(p, s, "VT_SETMODE")
      /\ UNCHANGED <<vc_cons, driver_data, vt, bl, poke, ignore_poke, sem, pc, arg, alive>>
  BY DEF VT_SETMODE
<1>2. o \in Obj
  BY <1>1, CallFacts
<1>3. Cleared(vc[o], d)
  BY <1>2, SetModeType DEF Inv, TypeOK
<1>4. vc' = [vc EXCEPT ![o] = d]
  BY DEF VT_SETMODE
<1> HIDE DEF d
<1>5. Kept
  BY <1>1, <1>2, <1>3, <1>4, ClearedSound DEF Kept, Inv, TypeOK, PendingSwitch, Sound, SameHeap
<1>6. PcType' /\ IoctlHoldsTty' /\ MutualExclusion'
  BY <1>1, AgentsStill
<1> QED  BY <1>1, <1>5, <1>6, StepInv DEF Inv, TypeOK, BlankStateSound

(* VT_ACTIVATE up to the allocation.                                        *)
LEMMA ActivateInv ==
  ASSUME Inv, NEW p \in Proc, NEW s \in Slot, NEW d \in Slot, VT_ACTIVATE(p, s, d)
  PROVE  Inv'
<1>1. /\ CanCall(p, s, "VT_ACTIVATE")
      /\ UNCHANGED <<vc, vc_cons, driver_data, bl, poke, ignore_poke, sem, alive>>
  BY DEF VT_ACTIVATE
<1>2. pc[p] = "idle" /\ driver_data[s] # NULL
  BY <1>1, CallFacts
<1>3. Kept
  BY <1>1, UnchangedKept DEF Inv
<1>4. CASE find_vc(d) = NULL
  <2>1. Enter(p, "activate", s, NULL, d) /\ UNCHANGED vt
    BY <1>4 DEF VT_ACTIVATE
  <2>2. "activate" \in IoctlPc \ {"idle", "stuck"}
    BY DEF IoctlPc
  <2>3. /\ PcType' /\ IoctlHoldsTty' /\ MutualExclusion'
        /\ arg' \in [Proc -> Locals \cup {NULL}]
    BY <1>1, <1>2, <2>1, <2>2, EnterHolds
  <2> QED  BY <1>1, <1>3, <2>1, <2>3, StepInv DEF Inv, TypeOK, BlankStateSound
<1>5. CASE find_vc(d) # NULL
  <2>1. vt' = set_console(vt, find_vc(d)) /\ UNCHANGED <<pc, arg>>
    BY <1>5 DEF VT_ACTIVATE
  <2>2. vt' \in [VT -> VtStruct]
    BY <1>5, <2>1, SetConsoleType DEF Inv, TypeOK, find_vc
  <2>3. PcType' /\ IoctlHoldsTty' /\ MutualExclusion'
    BY <1>1, <2>1, AgentsStill
  <2> QED  BY <1>1, <1>3, <2>1, <2>2, <2>3, StepInv DEF Inv, TypeOK, BlankStateSound
<1> QED  BY <1>4, <1>5

(* VT_ACTIVATE allocates.                                                   *)
LEMMA ActivateLockedInv ==
  ASSUME Inv, NEW p \in Proc, VT_ACTIVATE_LOCKED(p)
  PROVE  Inv'
<1>1. /\ pc[p] = "activate" /\ Return(p)
      /\ UNCHANGED <<driver_data, bl, poke, ignore_poke, sem, alive>>
  BY DEF VT_ACTIVATE_LOCKED
<1>2. /\ PcType' /\ IoctlHoldsTty' /\ MutualExclusion'
      /\ arg' \in [Proc -> Locals \cup {NULL}]
  BY <1>1, ReturnHolds
<1>3. CASE UNCHANGED <<vc, vc_cons, vt>>
  <2>1. Kept
    BY <1>3, UnchangedKept DEF Inv
  <2> QED  BY <1>1, <1>2, <1>3, <2>1, StepInv DEF Inv, TypeOK, BlankStateSound
<1>4. CASE ~UNCHANGED <<vc, vc_cons, vt>>
  <2> DEFINE d == arg[p].slot
             made(o) == Claimed(vt, d, o)
             asked(o) == [made(o) EXCEPT ![d[1]] = [@ EXCEPT !.want_vc = o, !.work = TRUE]]
  <2>1. PICK o \in FreeObj : vc_allocate(d, o, FALSE) /\ vt' \in {made(o), asked(o)}
    BY <1>4 DEF VT_ACTIVATE_LOCKED
  <2>2. o \in Obj
    BY DEF FreeObj
  <2>3. d \in Slot
    BY <1>1 DEF Inv, TypeOK, IoctlHoldsTty, Locals
  <2>4. made(o) \in [VT -> VtStruct]
    BY <2>2, <2>3, ClaimedType DEF Inv, TypeOK
  <2>5. asked(o) \in [VT -> VtStruct]
    <3> HIDE DEF made, d
    <3> QED  BY <2>2, <2>3, <2>4, SlotParts, DisplayType
  <2>6. vt' \in [VT -> VtStruct]
    BY <2>1, <2>4, <2>5
  <2>7. Sound(vc) /\ SameHeap(vc, vc)
    BY DEF Inv, TypeOK, PendingSwitch, Sound, SameHeap
  <2>8. Sound(vc') /\ vc' = [vc EXCEPT ![o] = NewVc(d, FALSE)]
    BY <2>1, <2>2, <2>3, <2>7, NewSound DEF vc_allocate
  <2>9. SameHeap([vc EXCEPT ![o] = NewVc(d, FALSE)], vc')
    BY <2>8 DEF SameHeap
  <2>10. PoolSound' /\ PendingSwitch' /\ vc_cons' \in [Slot -> Obj \cup {NULL}]
    BY <2>1, <2>3, <2>7, <2>8, <2>9, AllocateStep DEF vc_allocate
  <2>11. TypeOK'
    BY <1>1, <1>2, <2>6, <2>8, <2>10 DEF Inv, TypeOK, PcType, Sound
  <2> QED  BY <1>1, <1>2, <2>10, <2>11 DEF Inv, BlankStateSound
<1> QED  BY <1>3, <1>4

(* VT_WAITACTIVE, and the sleep.                                            *)
LEMMA WaitInv ==
  ASSUME Inv, NEW p \in Proc, NEW s \in Slot, NEW d \in Slot,
         VT_WAITACTIVE(p, s, d) \/ WaitTest(p) \/ WaitInterrupted(p)
  PROVE  Inv'
<1>1. UNCHANGED <<vc, vc_cons, driver_data, vt, bl, poke, ignore_poke, sem, alive>>
  BY DEF VT_WAITACTIVE, WaitTest, WaitInterrupted
<1>2. Kept
  BY <1>1, UnchangedKept DEF Inv
<1>3. /\ PcType' /\ IoctlHoldsTty' /\ MutualExclusion'
      /\ arg' \in [Proc -> Locals \cup {NULL}]
  <2>1. CASE VT_WAITACTIVE(p, s, d)
    <3>1. /\ CanCall(p, s, "VT_WAITACTIVE") /\ find_vc(d) # NULL
          /\ Enter(p, "waitactive", s, find_vc(d), d)
      BY <2>1 DEF VT_WAITACTIVE
    <3>2. pc[p] = "idle" /\ driver_data[s] # NULL
      BY <3>1, CallFacts
    <3>3. "waitactive" \in IoctlPc \ {"idle", "stuck"} /\ find_vc(d) \in Obj \cup {NULL}
      BY DEF IoctlPc, Inv, TypeOK, find_vc
    <3> QED  BY <1>1, <3>1, <3>2, <3>3, EnterHolds
  <2>2. CASE Return(p) /\ pc[p] \in {"waitactive", "asleep"}
    BY <1>1, <2>2, ReturnHolds
  <2>3. CASE pc[p] = "waitactive" /\ pc' = [pc EXCEPT ![p] = "asleep"] /\ UNCHANGED arg
    <3>1. PcType'
      BY <2>3 DEF Inv, TypeOK, PcType, Agent, IoctlPc
    <3>2. IoctlHoldsTty'
      BY <1>1, <2>3 DEF Inv, TypeOK, IoctlHoldsTty, Agent
    <3>3. MutualExclusion'
      BY <1>1, <2>3 DEF Inv, TypeOK, MutualExclusion, Agent
    <3> QED  BY <2>3, <3>1, <3>2, <3>3 DEF Inv, TypeOK
  <2> QED  BY <2>1, <2>2, <2>3 DEF WaitTest, WaitInterrupted
<1> QED  BY <1>1, <1>2, <1>3, StepInv DEF Inv, TypeOK, BlankStateSound

(* VT_RELDISP, up to the semaphore.                                         *)
LEMMA RelDispInv ==
  ASSUME Inv, NEW p \in Proc, NEW s \in Slot, NEW ok \in BOOLEAN, VT_RELDISP(p, s, ok)
  PROVE  Inv'
<1> DEFINE o == driver_data[s]
           d == [vc[o] EXCEPT !.vt_newvt = NULL]
<1>1. /\ CanCall(p, s, "VT_RELDISP") /\ vc[o].vt_newvt # NULL
      /\ UNCHANGED <<vc_cons, driver_data, vt, bl, poke, ignore_poke, sem, alive>>
  BY DEF VT_RELDISP
<1>2. pc[p] = "idle" /\ o \in Obj /\ o # NULL
  BY <1>1, CallFacts
<1>3. CASE ok
  <2>1. Enter(p, "reldisp", s, find_vc(vc[o].vt_newvt), s) /\ UNCHANGED vc
    BY <1>3 DEF VT_RELDISP
  <2>2. vc[o].vt_newvt \in Slot
    BY <1>1, <1>2 DEF Inv, TypeOK, VcData
  <2>3. /\ "reldisp" \in IoctlPc \ {"idle", "stuck"}
        /\ find_vc(vc[o].vt_newvt) \in Obj \cup {NULL}
    BY <2>2 DEF IoctlPc, Inv, TypeOK, find_vc
  <2>4. /\ PcType' /\ IoctlHoldsTty' /\ MutualExclusion'
        /\ arg' \in [Proc -> Locals \cup {NULL}]
    BY <1>1, <1>2, <2>1, <2>3, EnterHolds
  <2>5. Kept
    BY <1>1, <2>1, UnchangedKept DEF Inv
  <2> QED  BY <1>1, <2>4, <2>5, StepInv DEF Inv, TypeOK, BlankStateSound
<1>4. CASE ~ok
  <2>1. vc' = [vc EXCEPT ![o] = d] /\ UNCHANGED <<pc, arg>>
    BY <1>4 DEF VT_RELDISP
  <2>2. Cleared(vc[o], d)
    BY <1>2, ForgetType DEF Inv, TypeOK
  <2> HIDE DEF d
  <2>3. Kept
    BY <1>1, <1>2, <2>1, <2>2, ClearedSound DEF Kept, Inv, TypeOK, PendingSwitch, Sound, SameHeap
  <2>4. PcType' /\ IoctlHoldsTty' /\ MutualExclusion'
    BY <1>1, <2>1, AgentsStill
  <2> QED  BY <1>1, <2>1, <2>3, <2>4, StepInv DEF Inv, TypeOK, BlankStateSound
<1> QED  BY <1>3, <1>4

(* VT_RELDISP completes the switch, or finds no console to switch to.       *)
LEMMA RelDispLockedInv ==
  ASSUME Inv, NEW p \in Proc, VT_RELDISP_LOCKED(p)
  PROVE  Inv'
<1> DEFINE o    == driver_data[arg[p].tty]
           t    == Disp(o)
           to   == vc[o].vt_newvt
           quit == [vc EXCEPT ![o].vt_newvt = NULL]
<1>1. /\ pc[p] = "reldisp" /\ sem = NULL
      /\ arg' = [arg EXCEPT ![p] = NULL] /\ UNCHANGED <<driver_data, poke, alive>>
  BY DEF VT_RELDISP_LOCKED
<1>2. /\ arg[p] \in Locals /\ o \in Obj /\ p \in Agent
      /\ arg' \in [Proc -> Locals \cup {NULL}]
      /\ \A q \in Proc \ {p} : arg'[q] = arg[q]
  BY <1>1 DEF Inv, TypeOK, IoctlHoldsTty, Locals, Agent
<1>3. t \in VT /\ Fg(t) \in Obj /\ arg[p].obj \in Obj \cup {NULL} /\ to \in Slot \cup {NULL}
  BY <1>2, DispFg DEF Inv, TypeOK, Locals, VcData
<1>4. Sound(quit) /\ SameHeap(vc, quit)
  <2>1. Sound(vc)
    BY DEF Inv, TypeOK, PendingSwitch, Sound
  <2>2. Cleared(vc[o], [vc[o] EXCEPT !.vt_newvt = NULL])
    BY <1>2, ForgetType DEF Inv, TypeOK
  <2> QED  BY <1>2, <2>1, <2>2, ClearedSound
<1> HIDE DEF quit, to, t
<1>5. CASE arg[p].obj # NULL
  <2>1. /\ complete_change_console(p, arg[p].obj, Fg(t), quit, vt, "idle")
        /\ sem' = IF NestedAcquire(arg[p].obj, Fg(t), quit) THEN p ELSE NULL
        /\ UNCHANGED vc_cons
    BY <1>5 DEF VT_RELDISP_LOCKED, quit, t
  <2>2. /\ vt' \in [VT -> VtStruct]
        /\ Sound(vc') /\ SameHeap(quit, vc')
        /\ bl' \in [VT -> BlankState] /\ BlankStateSound'
        /\ ignore_poke' \in BOOLEAN
        /\ Woken(p, "idle")
        /\ pc'[p] = "stuck" <=> NestedAcquire(arg[p].obj, Fg(t), quit)
    BY <1>2, <1>3, <1>4, <1>5, <2>1, CompleteStep DEF Inv, TypeOK
  <2>3. PoolSound' /\ PendingSwitch'
    BY <1>4, <2>1, <2>2, KeptPool DEF Inv, Sound, SameHeap, Kept
  <2>4. sem' = IF pc'[p] = "idle" THEN NULL ELSE p
    BY <2>1, <2>2 DEF Woken
  <2>5. IoctlHoldsTty' /\ MutualExclusion'
    BY <1>1, <1>2, <2>2, <2>4, WokenHolds DEF Inv
  <2>6. TypeOK'
    BY <1>1, <1>2, <2>1, <2>2 DEF Inv, TypeOK, Sound, Woken, PcType
  <2> QED  BY <2>2, <2>3, <2>5, <2>6 DEF Inv
<1>6. CASE arg[p].obj = NULL /\ (to = NULL \/ FreeObj = {})
  <2>1. /\ vc' = quit /\ pc' = [pc EXCEPT ![p] = "idle"]
        /\ UNCHANGED <<vc_cons, vt, bl, ignore_poke, sem>>
    BY <1>6 DEF VT_RELDISP_LOCKED, quit, to
  <2>2. Return(p)
    BY <1>1, <2>1 DEF Return
  <2>3. PcType' /\ IoctlHoldsTty' /\ MutualExclusion'
    BY <1>1, <2>1, <2>2, ReturnHolds
  <2>4. Kept
    BY <1>4, <2>1 DEF Kept, Sound, SameHeap
  <2> QED  BY <1>1, <1>2, <2>1, <2>3, <2>4, StepInv DEF Inv, TypeOK, BlankStateSound
<1>7. CASE arg[p].obj = NULL /\ to # NULL /\ FreeObj # {}
  <2> DEFINE consoles(n) == [quit EXCEPT ![n] = NewVc(to, FALSE)]
             displays(n) == Claimed(vt, to, n)
             old(n)      == displays(n)[t].fg_console
  <2>1. PICK n \in FreeObj :
          /\ complete_change_console(p, n, old(n), consoles(n), displays(n), "idle")
          /\ sem' = IF NestedAcquire(n, old(n), consoles(n)) THEN p ELSE NULL
          /\ vc_cons' = [vc_cons EXCEPT ![to] = n]
    BY <1>7 DEF VT_RELDISP_LOCKED, quit, to, t
  <2>2. n \in Obj /\ to \in Slot
    BY <1>3, <1>7 DEF FreeObj
  <2>3. displays(n) \in [VT -> VtStruct]
    BY <2>2, ClaimedType DEF Inv, TypeOK
  <2>4. Sound(consoles(n))
    BY <1>4, <2>2, NewSound
  <2>5. old(n) \in Obj
    <3> HIDE DEF displays
    <3> QED  BY <1>3, <2>3 DEF VtStruct
  <2>6. SameHeap([quit EXCEPT ![n] = NewVc(to, FALSE)], vc') <=> SameHeap(consoles(n), vc')
    OBVIOUS
  <2> HIDE DEF consoles, displays, old
  <2>7. /\ vt' \in [VT -> VtStruct]
        /\ Sound(vc') /\ SameHeap(consoles(n), vc')
        /\ bl' \in [VT -> BlankState] /\ BlankStateSound'
        /\ ignore_poke' \in BOOLEAN
        /\ Woken(p, "idle")
        /\ pc'[p] = "stuck" <=> NestedAcquire(n, old(n), consoles(n))
    BY <1>2, <2>1, <2>2, <2>3, <2>4, <2>5, CompleteStep DEF Inv
  <2>8. PoolSound' /\ PendingSwitch' /\ vc_cons' \in [Slot -> Obj \cup {NULL}]
    BY <1>4, <2>1, <2>2, <2>6, <2>7, AllocateStep
  <2>9. sem' = IF pc'[p] = "idle" THEN NULL ELSE p
    BY <2>1, <2>7 DEF Woken
  <2>10. IoctlHoldsTty' /\ MutualExclusion'
    BY <1>1, <1>2, <2>7, <2>9, WokenHolds DEF Inv
  <2>11. TypeOK'
    BY <1>1, <1>2, <2>1, <2>7, <2>8 DEF Inv, TypeOK, Sound, Woken, PcType
  <2> QED  BY <2>7, <2>8, <2>10, <2>11 DEF Inv
<1> QED  BY <1>5, <1>6, <1>7

(* VT_DISALLOCATE of one console, up to the semaphore.                      *)
LEMMA DisallocateInv ==
  ASSUME Inv, NEW p \in Proc, NEW s \in Slot, NEW d \in Slot, VT_DISALLOCATE(p, s, d)
  PROVE  Inv'
<1>1. /\ CanCall(p, s, "VT_DISALLOCATE") /\ find_vc(d) # NULL
      /\ Enter(p, "disallocate", s, find_vc(d), d)
      /\ UNCHANGED <<vc, vc_cons, driver_data, vt, bl, poke, ignore_poke, sem, alive>>
  BY DEF VT_DISALLOCATE
<1>2. pc[p] = "idle" /\ driver_data[s] # NULL
  BY <1>1, CallFacts
<1>3. "disallocate" \in IoctlPc \ {"idle", "stuck"} /\ find_vc(d) \in Obj \cup {NULL}
  BY DEF IoctlPc, Inv, TypeOK, find_vc
<1>4. /\ PcType' /\ IoctlHoldsTty' /\ MutualExclusion'
      /\ arg' \in [Proc -> Locals \cup {NULL}]
  BY <1>1, <1>2, <1>3, EnterHolds
<1>5. Kept
  BY <1>1, UnchangedKept DEF Inv
<1> QED  BY <1>1, <1>4, <1>5, StepInv DEF Inv, TypeOK, BlankStateSound

(* VT_DISALLOCATE frees, one console or all that are unused.                *)
LEMMA FreeInv ==
  ASSUME Inv, NEW p \in Proc, NEW s \in Slot,
         VT_DISALLOCATE_ALL(p, s) \/ VT_DISALLOCATE_LOCKED(p)
  PROVE  Inv'
<1>1. UNCHANGED <<driver_data, vt, bl, poke, ignore_poke, sem, alive>>
  BY DEF VT_DISALLOCATE_ALL, VT_DISALLOCATE_LOCKED
<1>2. PICK os : vc_disallocate(os)
  BY Zenon DEF VT_DISALLOCATE_ALL, VT_DISALLOCATE_LOCKED
<1>3. /\ PoolSound' /\ PendingSwitch'
      /\ vc' \in [Obj -> VcData] /\ vc_cons' \in [Slot -> Obj \cup {NULL}]
  BY <1>2, DisallocateStep
<1>4. /\ PcType' /\ IoctlHoldsTty' /\ MutualExclusion'
      /\ arg' \in [Proc -> Locals \cup {NULL}]
  <2>1. CASE VT_DISALLOCATE_ALL(p, s)
    BY <2>1, AgentsStill DEF VT_DISALLOCATE_ALL, Inv, TypeOK
  <2>2. CASE VT_DISALLOCATE_LOCKED(p)
    BY <1>1, <2>2, ReturnHolds DEF VT_DISALLOCATE_LOCKED
  <2> QED  BY <2>1, <2>2
<1>5. TypeOK' /\ BlankStateSound'
  BY <1>1, <1>3, <1>4 DEF Inv, TypeOK, PcType, BlankStateSound
<1> QED  BY <1>3, <1>4, <1>5 DEF Inv

(* VT_LOCKSWITCH.                                                           *)
LEMMA LockSwitchInv ==
  ASSUME Inv, NEW p \in Proc, NEW s \in Slot, NEW on \in BOOLEAN, VT_LOCKSWITCH(p, s, on)
  PROVE  Inv'
<1>1. /\ vt' = [vt EXCEPT ![Disp(driver_data[s])].dont_switch = on]
      /\ UNCHANGED <<vc, vc_cons, driver_data, bl, poke, ignore_poke, sem, pc, arg, alive>>
  BY DEF VT_LOCKSWITCH
<1>2. vt' \in [VT -> VtStruct]
  BY <1>1, DisplayFlagType DEF Inv, TypeOK
<1>3. Kept
  BY <1>1, UnchangedKept DEF Inv
<1>4. PcType' /\ IoctlHoldsTty' /\ MutualExclusion'
  BY <1>1, AgentsStill
<1> QED  BY <1>1, <1>2, <1>3, <1>4, StepInv DEF Inv, TypeOK, BlankStateSound

(* A step that changes only the blanking of one display.                    *)
LEMMA BlankingInv ==
  ASSUME Inv, NEW t \in VT, NEW b \in BlankState, b.state = "normal_wait" => ~b.blanked,
         bl' = [bl EXCEPT ![t] = b], ignore_poke' \in BOOLEAN,
         UNCHANGED <<vc, vc_cons, driver_data, vt, poke, sem, pc, arg, alive>>
  PROVE  Inv'
<1>1. bl' \in [VT -> BlankState] /\ BlankStateSound'
  BY DEF Inv, TypeOK, BlankStateSound
<1>2. Kept
  BY UnchangedKept DEF Inv
<1>3. PcType' /\ IoctlHoldsTty' /\ MutualExclusion'
  BY AgentsStill
<1> QED  BY <1>1, <1>2, <1>3, StepInv DEF Inv, TypeOK

(* TIOCL_BLANKSCREEN and TIOCL_UNBLANKSCREEN.                               *)
LEMMA TioclInv ==
  ASSUME Inv, NEW p \in Proc, NEW s \in Slot,
         TIOCL_BLANKSCREEN(p, s) \/ TIOCL_UNBLANKSCREEN(p, s)
  PROVE  Inv'
<1>1. CASE TIOCL_BLANKSCREEN(p, s)
  <2> DEFINE t == Disp(driver_data[s])
             b == do_blank_screen(bl[t], vc[Fg(t)].mode, FALSE)
  <2>1. CanCall(p, s, "BLANKSCREEN")
    BY <1>1 DEF TIOCL_BLANKSCREEN
  <2>2. t \in VT
    BY <2>1, CallFacts
  <2>3. b \in BlankState /\ (b.state = "normal_wait" => ~b.blanked)
    BY <2>2, BlankType DEF Inv, TypeOK, BlankStateSound
  <2>4. /\ bl' = [bl EXCEPT ![t] = b] /\ ignore_poke' \in BOOLEAN
        /\ UNCHANGED <<vc, vc_cons, driver_data, vt, poke, sem, pc, arg, alive>>
    BY <1>1 DEF TIOCL_BLANKSCREEN
  <2> HIDE DEF b, t
  <2> QED  BY <2>2, <2>3, <2>4, BlankingInv
<1>2. CASE TIOCL_UNBLANKSCREEN(p, s)
  <2>1. /\ bl' = [t \in VT |-> unblank_vt(bl[t], vc[Fg(t)].mode)] /\ ignore_poke' \in BOOLEAN
        /\ UNCHANGED <<vc, vc_cons, driver_data, vt, poke, sem, pc, arg, alive>>
    BY <1>2 DEF TIOCL_UNBLANKSCREEN
  <2>2. bl' \in [VT -> BlankState] /\ BlankStateSound'
    BY <2>1, UnblankType DEF Inv, TypeOK, BlankStateSound
  <2>3. Kept
    BY <2>1, UnchangedKept DEF Inv
  <2>4. PcType' /\ IoctlHoldsTty' /\ MutualExclusion'
    BY <2>1, AgentsStill
  <2> QED  BY <2>1, <2>2, <2>3, <2>4, StepInv DEF Inv, TypeOK
<1> QED  BY <1>1, <1>2

(* A poke of display t whose blanking state was b.                          *)
LEMMA PokeInv ==
  ASSUME Inv, NEW t \in VT, NEW b \in BlankState, b.state = "normal_wait" => ~b.blanked,
         Poke(t, b), UNCHANGED <<vc, vc_cons, driver_data, vt, poke, sem, pc, arg, alive>>
  PROVE  Inv'
<1> DEFINE d == poke_blanked_console(b, vc[Fg(t)].mode, ignore_poke)
<1>1. d \in BlankState /\ (d.state = "normal_wait" => ~d.blanked)
  BY PokeType
<1>2. bl' = [bl EXCEPT ![t] = d] /\ ignore_poke' \in BOOLEAN
  BY DEF Poke
<1> HIDE DEF d
<1> QED  BY <1>1, <1>2, BlankingInv

(* The setterm escape sequences.                                            *)
LEMMA SettermInv ==
  ASSUME Inv, NEW p \in Proc, NEW s \in Slot, vte_setterm(p, s)
  PROVE  Inv'
<1> DEFINE t == Disp(driver_data[s])
<1>1. /\ CanCall(p, s, "SETTERM")
      /\ UNCHANGED <<vc, vc_cons, driver_data, poke, sem, pc, arg, alive>>
  BY DEF vte_setterm
<1>2. t \in VT
  BY <1>1, CallFacts
<1>3. bl[t] \in BlankState /\ (bl[t].state = "normal_wait" => ~bl[t].blanked)
  BY <1>2 DEF Inv, TypeOK, BlankStateSound
<1>4. ASSUME NEW on \in BOOLEAN, Poke(t, [bl[t] EXCEPT !.interval = on]), UNCHANGED vt
      PROVE  Inv'
  <2> DEFINE b == [bl[t] EXCEPT !.interval = on]
  <2>1. b \in BlankState /\ (b.state = "normal_wait" => ~b.blanked)
    BY <1>3, FlagType
  <2> QED  BY <1>1, <1>2, <1>4, <2>1, PokeInv
<1>5. CASE Poke(t, bl[t]) /\ UNCHANGED vt
  BY <1>1, <1>2, <1>3, <1>5, PokeInv
<1>6. ASSUME NEW on \in BOOLEAN, bl' = [bl EXCEPT ![t].off_interval = on],
             UNCHANGED <<vt, ignore_poke>>
      PROVE  Inv'
  <2> DEFINE b == [bl[t] EXCEPT !.off_interval = on]
  <2>1. b \in BlankState /\ (b.state = "normal_wait" => ~b.blanked)
    BY <1>3, FlagType
  <2>2. bl' = [bl EXCEPT ![t] = b] /\ ignore_poke' \in BOOLEAN
    BY <1>6 DEF Inv, TypeOK
  <2> HIDE DEF b
  <2> QED  BY <1>1, <1>2, <1>6, <2>1, <2>2, BlankingInv
<1>7. ASSUME NEW o \in Obj, vt' = set_console(vt, o), UNCHANGED <<bl, ignore_poke>>
      PROVE  Inv'
  <2>1. vt' \in [VT -> VtStruct]
    BY <1>7, SetConsoleType DEF Inv, TypeOK
  <2>2. Kept
    BY <1>1, UnchangedKept DEF Inv
  <2>3. PcType' /\ IoctlHoldsTty' /\ MutualExclusion'
    BY <1>1, AgentsStill
  <2> QED  BY <1>1, <1>7, <2>1, <2>2, <2>3, StepInv DEF Inv, TypeOK, BlankStateSound
<1>8. /\ \A d \in Slot : find_vc(d) # NULL => find_vc(d) \in Obj
      /\ vt[t].last_console \in Obj
  BY <1>2, DispFg DEF Inv, TypeOK, find_vc
<1> QED  BY <1>4, <1>5, <1>6, <1>7, <1>8 DEF vte_setterm

(* Kernel messages.                                                         *)
LEMMA PrintkInv ==
  ASSUME Inv, vt_console_print
  PROVE  Inv'
<1>1. 0 \in VT
  BY DEF VT
<1>2. bl[0] \in BlankState /\ (bl[0].state = "normal_wait" => ~bl[0].blanked)
  BY <1>1 DEF Inv, TypeOK, BlankStateSound
<1> QED  BY <1>1, <1>2, PokeInv DEF vt_console_print

(* A process exits.                                                         *)
LEMMA ExitInv ==
  ASSUME Inv, NEW p \in Proc, Exit(p)
  PROVE  Inv'
<1>1. /\ Return(p) /\ pc[p] # "stuck" /\ alive' = [alive EXCEPT ![p] = FALSE]
      /\ UNCHANGED <<vc, vc_cons, driver_data, vt, bl, poke, ignore_poke, sem>>
  BY DEF Exit
<1>2. /\ PcType' /\ IoctlHoldsTty' /\ MutualExclusion'
      /\ arg' \in [Proc -> Locals \cup {NULL}]
  BY <1>1, ReturnHolds
<1>3. Kept
  BY <1>1, UnchangedKept DEF Inv
<1> QED  BY <1>1, <1>2, <1>3, StepInv DEF Inv, TypeOK, BlankStateSound

-----------------------------------------------------------------------------
(* The whole specification.                                                 *)

(* The initial states satisfy the invariant.                                *)
LEMMA InitInv == Init => Inv
<1> SUFFICES ASSUME Init PROVE Inv
  OBVIOUS
<1> DEFINE S == Opened \cup {First(t) : t \in VT}
<1>1. PICK at \in [S -> Obj] :
        /\ IsInjective(at)
        /\ vc = [o \in Obj |->
                   IF \E s \in DOMAIN at : at[s] = o
                     THEN LET s == CHOOSE s \in DOMAIN at : at[s] = o
                          IN NewVc(s, s \in Opened)
                   ELSE [NewVc(First(0), FALSE) EXCEPT !.live = FALSE]]
        /\ vc_cons = [s \in Slot |-> IF s \in DOMAIN at THEN at[s] ELSE NULL]
        /\ driver_data = [s \in Slot |-> IF s \in Opened THEN at[s] ELSE NULL]
        /\ vt = [t \in VT |->
                   [fg_console |-> at[First(t)], last_console |-> at[First(t)],
                    want_vc |-> at[First(t)], dont_switch |-> FALSE,
                    scroll |-> FALSE, work |-> FALSE]]
  BY Zenon DEF Init
<1>2. S \subseteq Slot /\ DOMAIN at = S /\ First(0) \in Slot
  BY FirstInSlot, 0 \in VT DEF VT
<1>3. ASSUME NEW o \in Obj
      PROVE  /\ vc[o] \in VcData /\ vc[o].vt_newvt = NULL
             /\ \A s \in S : at[s] = o => vc[o].live /\ vc[o].slot = s
  <2>1. CASE \E s \in S : at[s] = o
    <3> DEFINE q == CHOOSE s \in S : at[s] = o
    <3>1. q \in S /\ at[q] = o
      BY <2>1
    <3>2. vc[o] = NewVc(q, q \in Opened)
      BY <1>1, <1>2, <2>1
    <3>3. \A s \in S : at[s] = o => s = q
      BY <1>1, <1>2, <3>1 DEF IsInjective
    <3> HIDE DEF q
    <3>4. vc[o] \in VcData /\ vc[o].live /\ vc[o].slot = q /\ vc[o].vt_newvt = NULL
      <4>1. q \in Slot
        BY <1>2, <3>1
      <4>2. CASE q \in Opened
        <5>1. vc[o] = NewVc(q, TRUE)
          BY <3>2, <4>2, (q \in Opened) = TRUE DEF NewVc
        <5>2. /\ NewVc(q, TRUE) \in VcData /\ NewVc(q, TRUE).live
              /\ NewVc(q, TRUE).slot = q /\ NewVc(q, TRUE).vt_newvt = NULL
          BY <4>1, NewVcType
        <5> QED  BY <5>1, <5>2
      <4>3. CASE q \notin Opened
        <5>1. vc[o] = NewVc(q, FALSE)
          BY <3>2, <4>3, (q \in Opened) = FALSE DEF NewVc
        <5>2. /\ NewVc(q, FALSE) \in VcData /\ NewVc(q, FALSE).live
              /\ NewVc(q, FALSE).slot = q /\ NewVc(q, FALSE).vt_newvt = NULL
          BY <4>1, NewVcType
        <5> QED  BY <5>1, <5>2
      <4> QED  BY <4>2, <4>3
    <3> QED  BY <3>3, <3>4
  <2>2. CASE ~\E s \in S : at[s] = o
    <3>1. vc[o] = [NewVc(First(0), FALSE) EXCEPT !.live = FALSE]
      BY <1>1, <1>2, <2>2
    <3>2. NewVc(First(0), FALSE) \in VcData /\ NewVc(First(0), FALSE).vt_newvt = NULL
      BY <1>2, NewVcType
    <3>3. Alike(NewVc(First(0), FALSE), vc[o])
      BY <3>1, <3>2, FieldUpdates
    <3> QED  BY <2>2, <3>2, <3>3 DEF Alike
  <2> QED  BY <2>1, <2>2
<1>4. vc \in [Obj -> VcData]
  BY <1>1, <1>3
<1>5. /\ vc_cons \in [Slot -> Obj \cup {NULL}]
      /\ driver_data \in [Slot -> Obj \cup {NULL}]
  BY <1>1, <1>2
<1>6. vt \in [VT -> VtStruct]
  BY <1>1, <1>2 DEF VtStruct
<1>7. bl \in [VT -> BlankState] /\ BlankStateSound
  BY DEF Init, BlankState, BlankStateSound
<1>8. /\ poke = FALSE /\ ignore_poke = FALSE /\ sem = NULL /\ pc = [a \in Agent |-> "idle"]
      /\ arg = [p \in Proc |-> NULL] /\ alive = [p \in Proc |-> TRUE]
  BY DEF Init
<1>9. TypeOK
  BY <1>4, <1>5, <1>6, <1>7, <1>8 DEF TypeOK, Agent, CallbackPc, IoctlPc
<1>10. IoctlHoldsTty /\ MutualExclusion
  BY <1>8 DEF IoctlHoldsTty, MutualExclusion, Agent
<1>11. PoolSound
  <2> SUFFICES ASSUME NEW s \in Slot, vc_cons[s] # NULL
               PROVE  vc[vc_cons[s]].live /\ vc[vc_cons[s]].slot = s
    BY DEF PoolSound
  <2>1. s \in S /\ vc_cons[s] = at[s] /\ at[s] \in Obj
    BY <1>1, <1>2
  <2> QED  BY <1>3, <2>1
<1>12. PendingSwitch
  BY <1>3 DEF PendingSwitch
<1> QED  BY <1>7, <1>9, <1>10, <1>11, <1>12 DEF Inv

(* Every step preserves the invariant, one case per action.                 *)
LEMMA NextInv == Inv /\ [Next]_vars => Inv'
<1> SUFFICES ASSUME Inv, [Next]_vars PROVE Inv'
  OBVIOUS
<1>1. ASSUME NEW t \in VT, vt_callback(t) PROVE Inv'
  BY <1>1, CallbackStartInv, CallbackSwitchInv, CallbackFinishInv DEF vt_callback
<1>2. ASSUME NEW t \in VT, blank_screen_t(t) PROVE Inv'
  BY <1>2, TimerInv
<1>3. ASSUME NEW t \in VT, Keyboard(t) PROVE Inv'
  BY <1>3, KeyboardInv
<1>4. ASSUME NEW p \in Proc, NEW s \in Slot, Call(p, s) PROVE Inv'
  BY <1>4, KdSetModeInv, VtSetModeInv, ActivateInv, WaitInv, DisallocateInv, FreeInv,
     RelDispInv, LockSwitchInv, TioclInv, SettermInv DEF Call
<1>5. ASSUME NEW p \in Proc, Continue(p) PROVE Inv'
  <2>1. PICK s \in Slot : TRUE
    BY FirstInSlot, 0 \in VT DEF VT
  <2> QED  BY <1>5, <2>1, KdSetModeLockedInv, ActivateLockedInv, RelDispLockedInv, FreeInv,
             WaitInv DEF Continue
<1>6. ASSUME NEW p \in Proc, WaitInterrupted(p) \/ Exit(p) PROVE Inv'
  <2>1. PICK s \in Slot : TRUE
    BY FirstInSlot, 0 \in VT DEF VT
  <2> QED  BY <1>6, <2>1, WaitInv, ExitInv
<1>7. ASSUME NEW s \in Slot, vt_open(s) \/ vt_close(s) PROVE Inv'
  BY <1>7, OpenInv, CloseInv
<1>8. CASE vt_console_print
  BY <1>8, PrintkInv
<1>9. CASE UNCHANGED vars
  BY <1>9 DEF vars, Inv, TypeOK, IoctlHoldsTty, PoolSound, PendingSwitch, BlankStateSound,
     MutualExclusion
<1> QED  BY <1>1, <1>2, <1>3, <1>4, <1>5, <1>6, <1>7, <1>8, <1>9 DEF Next

(* The inductive invariant holds in every reachable state.                  *)
THEOREM Invariance == Spec => []Inv
<1>1. Init => Inv
  BY InitInv
<1>2. Inv /\ [Next]_vars => Inv'
  BY NextInv
<1> QED  BY <1>1, <1>2, PTL DEF Spec

(* Every variable keeps its type.                                           *)
THEOREM TypeCorrect == Spec => []TypeOK
<1>1. Inv => TypeOK
  BY DEF Inv
<1> QED  BY <1>1, Invariance, PTL

(* No close takes the vc_data away under an ioctl that waits.               *)
THEOREM IoctlsHoldTheirTty == Spec => []IoctlHoldsTty
<1>1. Inv => IoctlHoldsTty
  BY DEF Inv
<1> QED  BY <1>1, Invariance, PTL

(* find_vc never returns a freed console, whatever allocations and frees    *)
(* race with each other.                                                    *)
THEOREM PoolIsSound == Spec => []PoolSound
<1>1. Inv => PoolSound
  BY DEF Inv
<1> QED  BY <1>1, Invariance, PTL

(* A pending switch can always be answered by VT_RELDISP.                   *)
THEOREM PendingSwitchAnswerable == Spec => []PendingSwitch
<1>1. Inv => PendingSwitch
  BY DEF Inv
<1> QED  BY <1>1, Invariance, PTL

(* A screen that waits for its blanking timer is lit.                       *)
THEOREM BlankStateIsSound == Spec => []BlankStateSound
<1>1. Inv => BlankStateSound
  BY DEF Inv
<1> QED  BY <1>1, Invariance, PTL

(* Whoever works under console_sem holds it.                                *)
THEOREM SemaphoreExcludes == Spec => []MutualExclusion
<1>1. Inv => MutualExclusion
  BY DEF Inv
<1> QED  BY <1>1, Invariance, PTL

=============================================================================
