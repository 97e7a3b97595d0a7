----------------------------- MODULE SwitchProofs -----------------------------
(***************************************************************************)
(* Theorems about the switch between consoles: a seat's consoles stay its  *)
(* own, no wake-up is lost, a pending switch belongs to the console on the *)
(* screen, and a console with a living controlling process leaves the      *)
(* screen by VT_RELDISP only.  At the end: screen blanking.                *)
(*                                                                         *)
(* Every pointer in the code may outlive a console that is freed, and a    *)
(* kfree'd object comes back as another console, on another display: all   *)
(* of this is about a system that does not issue VT_DISALLOCATE.  Without  *)
(* it the pool only grows, and what a pointer names stays what it was.     *)
(***************************************************************************)
EXTENDS VtConsoleProofs

USE SizeAssumption, AgentAssumption, NullAssumption

NoFreeing == "VT_DISALLOCATE" \notin Ops

(* Every console a display points to is allocated, and its own.             *)
Home(table, heap) ==
  \A t \in VT : /\ heap[table[t].fg_console].live /\ heap[table[t].fg_console].slot[1] = t
                /\ heap[table[t].want_vc].live /\ heap[table[t].want_vc].slot[1] = t
                /\ heap[table[t].last_console].live /\ heap[table[t].last_console].slot[1] = t

(* What an ioctl looked up is on the display of its tty, and allocated.     *)
ArgHome(a, heap) ==
  a # NULL /\ a.obj # NULL => heap[a.obj].live /\ heap[a.obj].slot[1] = a.tty[1]

SeatInv ==
  /\ Home(vt, vc)
  /\ \A s \in Slot : driver_data[s] # NULL =>
        vc[driver_data[s]].live /\ vc[driver_data[s]].slot = s
  /\ \A o \in Obj : vc[o].live => vc_cons[vc[o].slot] # NULL
  /\ \A o \in Obj : vc[o].vt_newvt # NULL =>
        vc[o].vt_newvt[1] = vc[o].slot[1] /\ vc_cons[vc[o].vt_newvt] # NULL
  /\ \A p \in Proc : /\ ArgHome(arg[p], vc)
                     /\ pc[p] # "disallocate"
                     /\ pc[p] = "reldisp" => arg[p].obj # NULL

-----------------------------------------------------------------------------
(* The pointers of a display.                                               *)

LEMMA HomeSame ==
  ASSUME NEW d \in [VT -> VtStruct], NEW e \in [VT -> VtStruct], NEW heap, Home(d, heap),
         \A t \in VT : /\ e[t].fg_console = d[t].fg_console /\ e[t].want_vc = d[t].want_vc
                       /\ e[t].last_console = d[t].last_console
  PROVE  Home(e, heap)
BY DEF Home

(* Requests of a display (work, scroll, dont_switch) move none of its       *)
(* pointers.                                                                *)
LEMMA FlagsSame ==
  ASSUME NEW d \in [VT -> VtStruct], NEW t \in VT, NEW x \in BOOLEAN, NEW heap, Home(d, heap)
  PROVE  /\ Home([d EXCEPT ![t].work = x], heap)
         /\ Home([d EXCEPT ![t].scroll = x], heap)
         /\ Home([d EXCEPT ![t].dont_switch = x], heap)
<1>1. \A v \in VtStruct : \A e \in {[v EXCEPT !.work = x], [v EXCEPT !.scroll = x],
                                    [v EXCEPT !.dont_switch = x]} :
        e \in VtStruct /\ e.fg_console = v.fg_console /\ e.want_vc = v.want_vc
        /\ e.last_console = v.last_console
  BY DEF VtStruct
<1> QED  BY <1>1 DEF Home

(* set_console asks for a console of the display it asks.                   *)
LEMMA SetConsoleHome ==
  ASSUME TypeOK, NEW d \in [VT -> VtStruct], NEW o \in Obj, vc[o].live, Home(d, vc)
  PROVE  Home(set_console(d, o), vc)
<1> DEFINE t == Disp(o)
           e == [d[t] EXCEPT !.want_vc = o, !.work = TRUE]
<1>1. t \in VT /\ vc[o].slot[1] = t
  BY DispFg DEF Disp
<1>2. e.want_vc = o /\ e.fg_console = d[t].fg_console /\ e.last_console = d[t].last_console
  BY <1>1 DEF VtStruct
<1>3. set_console(d, o) = [d EXCEPT ![t] = e]
  BY DEF set_console
<1> HIDE DEF e, t
<1> QED  BY <1>1, <1>2, <1>3 DEF Home

(* The first console of a display becomes its foreground, wanted and last   *)
(* one.                                                                     *)
LEMMA ClaimedHome ==
  ASSUME NEW d \in [VT -> VtStruct], NEW s \in Slot, NEW o \in Obj, NEW heap,
         Home(d, heap), heap[o].live, heap[o].slot = s
  PROVE  Home(Claimed(d, s, o), heap)
<1> DEFINE e == [d[s[1]] EXCEPT !.want_vc = o, !.fg_console = o, !.last_console = o]
<1>1. s[1] \in VT
  BY SlotParts
<1>2. e.want_vc = o /\ e.fg_console = o /\ e.last_console = o
  BY <1>1 DEF VtStruct
<1>3. Claimed(d, s, o) \in {d, [d EXCEPT ![s[1]] = e]}
  BY DEF Claimed
<1> HIDE DEF e
<1> QED  BY <1>1, <1>2, <1>3 DEF Home

(* A switch between two consoles of one display.                            *)
LEMMA SwitchHome ==
  ASSUME NEW d \in [VT -> VtStruct], NEW heap, Home(d, heap),
         NEW new \in Obj, NEW old \in Obj, NEW t \in VT,
         heap[new].live, heap[old].live, heap[new].slot[1] = t, heap[old].slot[1] = t
  PROVE  Home([d EXCEPT ![t] = [@ EXCEPT !.last_console = old, !.fg_console = new]], heap)
<1> DEFINE e == [d[t] EXCEPT !.last_console = old, !.fg_console = new]
<1>1. e.fg_console = new /\ e.last_console = old /\ e.want_vc = d[t].want_vc
  BY DEF VtStruct
<1> HIDE DEF e
<1>2. Home([d EXCEPT ![t] = e], heap)
  BY <1>1 DEF Home
<1> QED  BY <1>2 DEF e

(* Pointers stay at home while their consoles live on in their slots.       *)
LEMMA HomeHeap ==
  ASSUME NEW d \in [VT -> VtStruct], NEW old, NEW new, Home(d, old),
         \A o \in Obj : old[o].live => new[o].live /\ new[o].slot = old[o].slot
  PROVE  Home(d, new)
<1>1. \A t \in VT : d[t].fg_console \in Obj /\ d[t].want_vc \in Obj /\ d[t].last_console \in Obj
  BY DEF VtStruct
<1> QED  BY <1>1 DEF Home

-----------------------------------------------------------------------------
(* What a step does to the consoles, when it allocates none: a pending      *)
(* switch stays, is forgotten, or is to a console of the same display.      *)
Steady(old, new) ==
  /\ SameHeap(old, new)
  /\ \A o \in Obj : \/ new[o].vt_newvt \in {old[o].vt_newvt, NULL}
                    \/ \E n \in Obj : /\ old[n].live /\ old[n].slot[1] = old[o].slot[1]
                                      /\ new[o].vt_newvt = old[n].slot

(* No console moves or goes, and every pointer stays on its display.        *)
Stays ==
  /\ SeatInv'
  /\ \A o \in Obj : vc[o].live => vc'[o].live /\ vc'[o].slot = vc[o].slot
  /\ \A s \in Slot : vc_cons[s] # NULL => vc_cons'[s] # NULL

(* What it does to a process.                                               *)
Moved(p) ==
  \/ arg'[p] = arg[p] /\ pc'[p] = pc[p]
  \/ arg'[p] \in {arg[p], NULL} /\ pc'[p] \notin {"disallocate", "reldisp"}
  \/ ArgHome(arg'[p], vc) /\ pc'[p] # "disallocate" /\ (pc'[p] = "reldisp" => arg'[p].obj # NULL)

(* A step that frees, moves and hands over no console keeps the pointers at *)
(* home.                                                                    *)
LEMMA SteadySeat ==
  ASSUME Inv, Inv', SeatInv, Steady(vc, vc'), vc_cons' = vc_cons, Home(vt', vc),
         \A s \in Slot : driver_data'[s] \in {driver_data[s], NULL},
         \A p \in Proc : Moved(p)
  PROVE  Stays
<1>1. /\ vc \in [Obj -> VcData] /\ vc' \in [Obj -> VcData]
      /\ vt' \in [VT -> VtStruct]
      /\ driver_data \in [Slot -> Obj \cup {NULL}]
      /\ arg' \in [Proc -> Locals \cup {NULL}]
  BY DEF Inv, TypeOK
<1>2. \A o \in Obj : vc'[o].live = vc[o].live /\ vc'[o].slot = vc[o].slot
  BY DEF Steady, SameHeap
<1>3. Home(vt', vc')
  <2>1. \A o \in Obj : vc[o].live => vc'[o].live /\ vc'[o].slot = vc[o].slot
    BY <1>2
  <2>2. ASSUME NEW d \in [VT -> VtStruct], Home(d, vc) PROVE Home(d, vc')
    BY <2>1, <2>2, HomeHeap
  <2> QED  BY <1>1, <2>2
<1>4. \A s \in Slot : driver_data'[s] # NULL =>
        vc'[driver_data'[s]].live /\ vc'[driver_data'[s]].slot = s
  BY <1>1, <1>2 DEF SeatInv
<1>5. \A o \in Obj : vc'[o].live => vc_cons'[vc'[o].slot] # NULL
  BY <1>2 DEF SeatInv
<1>6. ASSUME NEW o \in Obj, vc'[o].vt_newvt # NULL
      PROVE  vc'[o].vt_newvt[1] = vc'[o].slot[1] /\ vc_cons'[vc'[o].vt_newvt] # NULL
  <2>1. CASE vc'[o].vt_newvt = vc[o].vt_newvt
    BY <1>2, <1>6, <2>1 DEF SeatInv
  <2>2. CASE \E n \in Obj : /\ vc[n].live /\ vc[n].slot[1] = vc[o].slot[1]
                            /\ vc'[o].vt_newvt = vc[n].slot
    BY <1>2, <2>2 DEF SeatInv
  <2> QED  BY <1>6, <2>1, <2>2 DEF Steady
<1>7. ASSUME NEW p \in Proc
      PROVE  /\ ArgHome(arg'[p], vc') /\ pc'[p] # "disallocate"
             /\ pc'[p] = "reldisp" => arg'[p].obj # NULL
  <2>1. ArgHome(arg'[p], vc)
    BY DEF Moved, SeatInv, ArgHome
  <2>2. ArgHome(arg'[p], vc')
    BY <1>1, <1>2, <2>1 DEF ArgHome, Locals
  <2>3. pc'[p] # "disallocate" /\ (pc'[p] = "reldisp" => arg'[p].obj # NULL)
    BY DEF Moved, SeatInv
  <2> QED  BY <2>2, <2>3
<1>8. SeatInv'
  BY <1>3, <1>4, <1>5, <1>6, <1>7 DEF SeatInv
<1> QED  BY <1>2, <1>8 DEF Stays

(* A step that allocates a console at s.                                    *)
LEMMA AllocateSeat ==
  ASSUME Inv, Inv', SeatInv, NEW s \in Slot, NEW o \in FreeObj, NEW open \in BOOLEAN,
         vc' = [vc EXCEPT ![o] = NewVc(s, open)], vc_cons' = [vc_cons EXCEPT ![s] = o],
         Home(vt', vc'), driver_data' \in {driver_data, [driver_data EXCEPT ![s] = o]},
         \A p \in Proc : Moved(p)
  PROVE  Stays
<1>1. /\ vc \in [Obj -> VcData] /\ o \in Obj /\ ~vc[o].live /\ o # NULL
      /\ driver_data \in [Slot -> Obj \cup {NULL}]
      /\ vc_cons \in [Slot -> Obj \cup {NULL}]
      /\ arg' \in [Proc -> Locals \cup {NULL}]
  BY DEF Inv, TypeOK, FreeObj
<1>2. vc'[o].live /\ vc'[o].slot = s /\ vc'[o].vt_newvt = NULL
  BY <1>1, NewVcType
<1>3. \A q \in Obj \ {o} : vc'[q] = vc[q]
  BY <1>1
<1>4. \A q \in Slot : vc_cons[q] # NULL => vc_cons'[q] # NULL
  BY <1>1
<1>5. \A q \in Slot : driver_data'[q] # NULL =>
        vc'[driver_data'[q]].live /\ vc'[driver_data'[q]].slot = q
  <2> SUFFICES ASSUME NEW q \in Slot, driver_data'[q] # NULL
               PROVE  vc'[driver_data'[q]].live /\ vc'[driver_data'[q]].slot = q
    OBVIOUS
  <2>1. CASE driver_data'[q] = driver_data[q]
    BY <1>1, <1>3, <2>1 DEF SeatInv
  <2>2. CASE q = s /\ driver_data'[q] = o
    BY <1>2, <2>2
  <2> QED  BY <1>1, <2>1, <2>2
<1>6. \A q \in Obj : vc'[q].live => vc_cons'[vc'[q].slot] # NULL
  <2> SUFFICES ASSUME NEW q \in Obj, vc'[q].live PROVE vc_cons'[vc'[q].slot] # NULL
    OBVIOUS
  <2>1. CASE q = o
    BY <1>1, <1>2, <2>1
  <2>2. CASE q # o
    BY <1>1, <1>3, <1>4, <2>2 DEF SeatInv, VcData
  <2> QED  BY <2>1, <2>2
<1>7. \A q \in Obj : vc'[q].vt_newvt # NULL =>
        vc'[q].vt_newvt[1] = vc'[q].slot[1] /\ vc_cons'[vc'[q].vt_newvt] # NULL
  BY <1>1, <1>2, <1>3, <1>4 DEF SeatInv, VcData
<1>8. ASSUME NEW p \in Proc
      PROVE  /\ ArgHome(arg'[p], vc') /\ pc'[p] # "disallocate"
             /\ pc'[p] = "reldisp" => arg'[p].obj # NULL
  <2>1. ArgHome(arg'[p], vc)
    BY DEF Moved, SeatInv, ArgHome
  <2>2. ArgHome(arg'[p], vc')
    BY <1>1, <1>3, <2>1 DEF ArgHome, Locals
  <2>3. pc'[p] # "disallocate" /\ (pc'[p] = "reldisp" => arg'[p].obj # NULL)
    BY DEF Moved, SeatInv
  <2> QED  BY <2>2, <2>3
<1>9. SeatInv'
  <2>1. Home(vt', vc')
    OBVIOUS
  <2> QED  BY <1>5, <1>6, <1>7, <1>8, <2>1 DEF SeatInv
<1>10. \A q \in Obj : vc[q].live => vc'[q].live /\ vc'[q].slot = vc[q].slot
  BY <1>1, <1>3
<1> QED  BY <1>4, <1>9, <1>10 DEF Stays

-----------------------------------------------------------------------------
(* What is known of the pointers.                                           *)
LEMMA SeatFacts ==
  ASSUME Inv, SeatInv
  PROVE  /\ \A s \in Slot : find_vc(s) # NULL =>
               find_vc(s) \in Obj /\ vc[find_vc(s)].live /\ vc[find_vc(s)].slot = s
         /\ \A s \in Slot : driver_data[s] # NULL =>
               driver_data[s] \in Obj /\ vc[driver_data[s]].live /\ Disp(driver_data[s]) = s[1]
         /\ \A t \in VT : /\ Fg(t) \in Obj /\ vc[Fg(t)].live /\ Disp(Fg(t)) = t
                          /\ vt[t].want_vc \in Obj /\ vc[vt[t].want_vc].live
                          /\ Disp(vt[t].want_vc) = t
                          /\ vt[t].last_console \in Obj /\ vc[vt[t].last_console].live
<1>1. \A s \in Slot : find_vc(s) # NULL =>
        find_vc(s) \in Obj /\ vc[find_vc(s)].live /\ vc[find_vc(s)].slot = s
  BY DEF Inv, TypeOK, PoolSound, find_vc
<1>2. \A s \in Slot : driver_data[s] # NULL =>
        driver_data[s] \in Obj /\ vc[driver_data[s]].live /\ Disp(driver_data[s]) = s[1]
  BY DEF Inv, TypeOK, SeatInv, Disp
<1>3. \A t \in VT : Fg(t) \in Obj /\ vt[t].want_vc \in Obj /\ vt[t].last_console \in Obj
  BY DEF Inv, TypeOK, VtStruct, Fg
<1>4. Home(vt, vc)
  BY DEF SeatInv
<1> QED  BY <1>1, <1>2, <1>3, <1>4 DEF Home, Fg, Disp

(* Nothing changes in a console table that stays.                           *)
LEMMA SteadySame == Steady(vc, vc)
BY DEF Steady, SameHeap

(* A console may change whatever does not concern its place or the console  *)
(* it waits for.                                                            *)
LEMMA SteadyUpdate ==
  ASSUME NEW table \in [Obj -> VcData], Steady(vc, table), NEW o \in Obj, NEW d,
         d.live = table[o].live, d.slot = table[o].slot, d.vt_newvt \in {table[o].vt_newvt, NULL}
  PROVE  Steady(vc, [table EXCEPT ![o] = d])
BY DEF Steady, SameHeap

(* reset_vc leaves a console in its place.                                  *)
LEMMA SteadyReset ==
  ASSUME NEW table \in [Obj -> VcData], Steady(vc, table), NEW o \in Obj
  PROVE  /\ Steady(vc, [table EXCEPT ![o] = reset_vc(table[o])])
         /\ [table EXCEPT ![o] = reset_vc(table[o])] \in [Obj -> VcData]
<1>1. table[o] \in VcData
  OBVIOUS
<1>2. /\ reset_vc(table[o]) \in VcData
      /\ reset_vc(table[o]).live = table[o].live
      /\ reset_vc(table[o]).slot = table[o].slot
      /\ reset_vc(table[o]).vt_newvt = NULL
  BY <1>1, ResetType
<1> QED  BY <1>2, SteadyUpdate

(* A console that stops waiting for a release stays in its place.           *)
LEMMA SteadyForget ==
  ASSUME NEW table \in [Obj -> VcData], Steady(vc, table), NEW o \in Obj
  PROVE  /\ Steady(vc, [table EXCEPT ![o].vt_newvt = NULL])
         /\ [table EXCEPT ![o].vt_newvt = NULL] \in [Obj -> VcData]
<1> DEFINE d == [table[o] EXCEPT !.vt_newvt = NULL]
<1>1. Cleared(table[o], d)
  BY ForgetType
<1> HIDE DEF d
<1>2. Steady(vc, [table EXCEPT ![o] = d]) /\ [table EXCEPT ![o] = d] \in [Obj -> VcData]
  BY <1>1, SteadyUpdate DEF Cleared
<1> QED  BY <1>2 DEF d

(* A switch keeps the pointers at home, and moves its agent only.           *)
LEMMA CompleteSeat ==
  ASSUME Inv, NEW self \in Agent, NEW new \in Obj, NEW old \in Obj, NEW t \in VT,
         NEW consoles \in [Obj -> VcData], Steady(vc, consoles), Home(vt, vc),
         vc[new].live, vc[new].slot[1] = t, vc[old].live, vc[old].slot[1] = t,
         NEW after \in {"locked", "idle"},
         complete_change_console(self, new, old, consoles, vt, after)
  PROVE  /\ Steady(vc, vc') /\ Home(vt', vc)
         /\ pc'[self] \in {"stuck", after}
         /\ \A a \in Agent \ {self} : pc'[a] = pc[a] \/ pc'[a] = "waitactive"
<1>1. vc' = consoles \/ vc' = [consoles EXCEPT ![new] = reset_vc(consoles[new])]
  BY DEF complete_change_console
<1>2. Steady(vc, vc')
  BY <1>1, SteadyReset
<1>3. consoles[new].slot[1] = t
  BY DEF Steady, SameHeap
<1>4. vt' = [vt EXCEPT ![t] = [@ EXCEPT !.last_console = old, !.fg_console = new]]
  BY <1>3 DEF complete_change_console
<1>5. Home(vt', vc)
  BY <1>4, SwitchHome DEF Inv, TypeOK
<1>6. pc' = [pc EXCEPT ![self] = "stuck"] \/ pc' = wake_up([pc EXCEPT ![self] = after])
  BY DEF complete_change_console
<1>7. /\ pc'[self] \in {"stuck", after}
      /\ \A a \in Agent \ {self} : pc'[a] = pc[a] \/ pc'[a] = "waitactive"
  BY <1>6 DEF wake_up, Inv, TypeOK
<1> QED  BY <1>2, <1>5, <1>7

-----------------------------------------------------------------------------
(* The steps, one lemma per kind of agent.                                  *)

(* Agents that keep their locals and do not begin a release.                *)
LEMMA StillMoved ==
  ASSUME UNCHANGED <<pc, arg>>
  PROVE  \A p \in Proc : Moved(p)
BY DEF Moved

(* The keyboard tasklet's work (vt_callback) stays on its display.          *)
LEMMA CallbackSeat ==
  ASSUME Inv, Inv', SeatInv, NEW t \in VT, vt_callback(t)
  PROVE  Stays
<1>1. Home(vt, vc) /\ vt \in [VT -> VtStruct] /\ vt' \in [VT -> VtStruct]
  BY DEF SeatInv, Inv, TypeOK
<1>2. UNCHANGED <<vc_cons, driver_data, arg>>
  BY DEF vt_callback, CallbackStart, CallbackSwitch, SwitchHoldingSem, CallbackFinish
<1>3. pc \in [Agent -> CallbackPc \cup IoctlPc] /\ \A p \in Proc : p \in Agent \ {t}
  BY DEF Inv, TypeOK, Agent
<1>4. CASE CallbackStart(t) \/ CallbackFinish(t)
  <2>1. vt' = [vt EXCEPT ![t].work = FALSE] \/ vt' = [vt EXCEPT ![t].scroll = FALSE]
    BY <1>4 DEF CallbackStart, CallbackFinish
  <2>2. Home(vt', vc)
    <3> DEFINE worked(x)   == [vt EXCEPT ![t].work = x]
               scrolled(x) == [vt EXCEPT ![t].scroll = x]
    <3>1. \A x \in BOOLEAN : Home(worked(x), vc) /\ Home(scrolled(x), vc)
      BY <1>1, FlagsSame
    <3>2. vt' \in {worked(FALSE), scrolled(FALSE)}
      BY <2>1
    <3> HIDE DEF worked, scrolled
    <3> QED  BY <3>1, <3>2
  <2>3. vc' = vc /\ \A p \in Proc : pc'[p] = pc[p]
    BY <1>3, <1>4 DEF CallbackStart, CallbackFinish
  <2> QED  BY <1>2, <2>2, <2>3, SteadySame, SteadySeat DEF Moved
<1>5. CASE CallbackSwitch(t)
  <2> DEFINE old == Fg(t)
             new == vt[t].want_vc
  <2>1. /\ old \in Obj /\ vc[old].live /\ vc[old].slot[1] = t
        /\ new \in Obj /\ vc[new].live /\ vc[new].slot[1] = t
    BY SeatFacts DEF Disp
  <2> HIDE DEF old, new
  <2>2. vc \in [Obj -> VcData]
    BY DEF Inv, TypeOK
  <2>3. CASE pc' = [pc EXCEPT ![t] = "locked"] /\ UNCHANGED <<vc, vt>>
    <3>1. \A p \in Proc : Moved(p)
      BY <1>2, <1>3, <2>3 DEF Moved
    <3> QED  BY <1>1, <1>2, <2>3, <3>1, SteadySame, SteadySeat
  <2>4. CASE change_console(t, new, old)
    <3> DEFINE cons == IF vc[old].vt_mode = "VT_PROCESS"
                         THEN [vc EXCEPT ![old] = reset_vc(vc[old])] ELSE vc
    <3>1. Steady(vc, cons) /\ cons \in [Obj -> VcData]
      BY <2>1, <2>2, SteadySame, SteadyReset
    <3>2. CASE vc' = [vc EXCEPT ![old].vt_newvt = vc[new].slot]
               /\ pc' = [pc EXCEPT ![t] = "locked"] /\ UNCHANGED vt
      <4>1. Steady(vc, vc')
        BY <2>1, <2>2, <3>2 DEF Steady, SameHeap, VcData
      <4>2. \A p \in Proc : Moved(p)
        BY <1>2, <1>3, <3>2 DEF Moved
      <4> QED  BY <1>1, <1>2, <3>2, <4>1, <4>2, SteadySeat
    <3>3. CASE vc' = cons /\ pc' = [pc EXCEPT ![t] = "locked"] /\ UNCHANGED vt
      <4>1. \A p \in Proc : Moved(p)
        BY <1>2, <1>3, <3>3 DEF Moved
      <4> HIDE DEF cons
      <4> QED  BY <1>1, <1>2, <3>1, <3>3, <4>1, SteadySeat
    <3>4. CASE complete_change_console(t, new, old, cons, vt, "locked")
      <4> HIDE DEF cons
      <4>1. t \in Agent
        BY DEF Agent
      <4>2. /\ Steady(vc, vc') /\ Home(vt', vc)
            /\ \A a \in Agent \ {t} : pc'[a] = pc[a] \/ pc'[a] = "waitactive"
        BY <1>1, <2>1, <3>1, <3>4, <4>1, CompleteSeat
      <4>3. \A p \in Proc : Moved(p)
        BY <1>2, <1>3, <4>2 DEF Moved
      <4> QED  BY <1>2, <4>2, <4>3, SteadySeat
    <3> QED  BY <2>4, <3>2, <3>3, <3>4 DEF change_console
  <2> QED  BY <1>5, <2>3, <2>4 DEF CallbackSwitch, SwitchHoldingSem, old, new
<1> QED  BY <1>4, <1>5 DEF vt_callback

(* The timer and the keyboard.                                              *)
LEMMA KbdEventSeat ==
  ASSUME Inv, Inv', SeatInv, NEW t \in VT, NEW consoles, Steady(vc, consoles),
         NEW displays \in [VT -> VtStruct], Home(displays, vc), kbd_event(t, consoles, displays)
  PROVE  Stays
<1>1. Home(vt', vc)
  <2> DEFINE flagged(x) == [displays EXCEPT ![t].work = x]
  <2>1. vt' = flagged(TRUE)
    BY DEF kbd_event, schedule_work
  <2>2. \A x \in BOOLEAN : Home(flagged(x), vc)
    BY FlagsSame
  <2> HIDE DEF flagged
  <2> QED  BY <2>1, <2>2
<1>2. /\ vc' = consoles
      /\ UNCHANGED <<vc_cons, driver_data, pc, arg>>
  BY DEF kbd_event
<1> QED  BY <1>1, <1>2, StillMoved, SteadySeat

(* The blank timer and the keyboard stay on their display.                  *)
LEMMA InterruptSeat ==
  ASSUME Inv, Inv', SeatInv, NEW t \in VT, blank_screen_t(t) \/ Keyboard(t)
  PROVE  Stays
<1>1. Home(vt, vc) /\ vt \in [VT -> VtStruct] /\ vc \in [Obj -> VcData] /\ TypeOK
  BY DEF SeatInv, Inv, TypeOK
<1>2. \A o \in Obj : vc[o].live => Home(set_console(vt, o), vc)
                                  /\ set_console(vt, o) \in [VT -> VtStruct]
  BY <1>1, SetConsoleHome, SetConsoleType
<1>3. CASE blank_screen_t(t)
  <2>1. Home(vt', vc) /\ UNCHANGED <<vc, vc_cons, driver_data, pc, arg>>
    BY <1>1, <1>3, FlagsSame DEF blank_screen_t, schedule_work
  <2> QED  BY <2>1, StillMoved, SteadySame, SteadySeat
<1>4. CASE KeyPlain(t)
  BY <1>1, <1>4, SteadySame, KbdEventSeat DEF KeyPlain
<1>5. ASSUME NEW o \in Obj, vc[o].live, kbd_event(t, vc, set_console(vt, o))
      PROVE  Stays
  BY <1>2, <1>5, SteadySame, KbdEventSeat
<1>6. CASE k_cons(t)
  <2>1. PICK d \in Slot : find_vc(d) # NULL /\ kbd_event(t, vc, set_console(vt, find_vc(d)))
    BY <1>6 DEF k_cons
  <2> QED  BY <1>5, <2>1, SeatFacts
<1>7. CASE fn_lastcons(t)
  BY <1>5, <1>7, SeatFacts DEF fn_lastcons
<1>8. ASSUME NEW op, NEW up \in BOOLEAN, fn_inc_console(t, op, up)
      PROVE  Stays
  <2>1. CASE kbd_event(t, vc, vt)
    BY <1>1, <2>1, SteadySame, KbdEventSeat
  <2>2. CASE \E o \in NextConsole(t, up) : kbd_event(t, vc, set_console(vt, o))
    <3>1. PICK o \in NextConsole(t, up) : kbd_event(t, vc, set_console(vt, o))
      BY <2>2
    <3>2. PICK i \in Index : find_vc(<<t, i>>) # NULL /\ o = find_vc(<<t, i>>)
      BY Zenon DEF NextConsole
    <3>3. <<t, i>> \in Slot
      BY DEF Slot
    <3> QED  BY <1>5, <3>1, <3>2, <3>3, SeatFacts
  <2> QED  BY <1>8, <2>1, <2>2 DEF fn_inc_console
<1>9. CASE fn_scroll(t)
  <2>1. PICK nonzero \in BOOLEAN : kbd_event(t, vc, [vt EXCEPT ![t].scroll = nonzero])
    BY <1>9 DEF fn_scroll
  <2>2. /\ [vt EXCEPT ![t].scroll = nonzero] \in [VT -> VtStruct]
        /\ Home([vt EXCEPT ![t].scroll = nonzero], vc)
    BY <1>1, DisplayFlagType, FlagsSame
  <2> QED  BY <2>1, <2>2, SteadySame, KbdEventSeat
<1>10. CASE fn_SAK(t)
  <2>1. Steady(vc, [vc EXCEPT ![Fg(t)] = reset_vc(vc[Fg(t)])])
    BY <1>1, SteadySame, SteadyReset, SeatFacts
  <2> QED  BY <1>1, <1>10, <2>1, KbdEventSeat DEF fn_SAK
<1> QED  BY <1>3, <1>4, <1>6, <1>7, <1>8, <1>9, <1>10 DEF Keyboard

(* The tty of a console is opened or closed.                                *)
LEMMA OpenSeat ==
  ASSUME Inv, Inv', SeatInv, NEW s \in Slot, vt_open(s) \/ vt_close(s)
  PROVE  Stays
<1>1. UNCHANGED <<pc, arg>> /\ vt \in [VT -> VtStruct] /\ Home(vt, vc)
  BY DEF vt_open, vt_close, SeatInv, Inv, TypeOK
<1>2. CASE vt_open(s)
  <2>1. PICK o \in FreeObj : /\ vc_allocate(s, o, TRUE) /\ vt' = Claimed(vt, s, o)
                             /\ driver_data' = [driver_data EXCEPT ![s] = o]
    BY <1>2 DEF vt_open
  <2>2. vc' = [vc EXCEPT ![o] = NewVc(s, TRUE)] /\ vc_cons' = [vc_cons EXCEPT ![s] = o]
    BY <2>1 DEF vc_allocate
  <2>3. Home(vt', vc')
    <3>1. o \in Obj /\ ~vc[o].live /\ vc \in [Obj -> VcData]
      BY DEF FreeObj, Inv, TypeOK
    <3>2. vc'[o].live /\ vc'[o].slot = s /\ \A q \in Obj \ {o} : vc'[q] = vc[q]
      BY <2>2, <3>1, NewVcType
    <3>3. Home(vt, vc')
      <4>1. \A q \in Obj : vc[q].live => vc'[q].live /\ vc'[q].slot = vc[q].slot
        BY <3>1, <3>2
      <4> QED  BY <1>1, <4>1, HomeHeap
    <3> QED  BY <1>1, <2>1, <3>1, <3>2, <3>3, ClaimedHome
  <2> QED  BY <1>1, <2>1, <2>2, <2>3, StillMoved, AllocateSeat
<1>3. CASE vt_close(s)
  <2> DEFINE o == driver_data[s]
             d == [vc[o] EXCEPT !.vc_tty = FALSE]
  <2>1. o \in Obj /\ vc \in [Obj -> VcData]
    BY <1>3, SeatFacts DEF vt_close, Inv, TypeOK
  <2>2. d.live = vc[o].live /\ d.slot = vc[o].slot /\ d.vt_newvt = vc[o].vt_newvt
    BY <2>1 DEF VcData
  <2>3. vc' = [vc EXCEPT ![o] = d] /\ UNCHANGED <<vt, vc_cons>>
        /\ driver_data' = [driver_data EXCEPT ![s] = NULL]
    BY <1>3 DEF vt_close
  <2> HIDE DEF d
  <2>4. Steady(vc, vc')
    BY <2>1, <2>2, <2>3, SteadySame, SteadyUpdate
  <2>5. \A q \in Slot : driver_data'[q] \in {driver_data[q], NULL}
    BY <2>3 DEF Inv, TypeOK
  <2> QED  BY <1>1, <2>3, <2>4, <2>5, StillMoved, SteadySeat
<1> QED  BY <1>2, <1>3

-----------------------------------------------------------------------------
(* The ioctls.                                                              *)

(* A process enters an ioctl with a console of its own display, if any.     *)
LEMMA EnterMoved ==
  ASSUME Inv, SeatInv, NEW p \in Proc, NEW s \in Slot, NEW l, NEW obj, NEW d,
         Enter(p, l, s, obj, d), l # "disallocate", l = "reldisp" => obj # NULL,
         obj # NULL => vc[obj].live /\ vc[obj].slot[1] = s[1]
  PROVE  \A q \in Proc : Moved(q)
<1>1. /\ pc' = [pc EXCEPT ![p] = l]
      /\ arg' = [arg EXCEPT ![p] = [tty |-> s, obj |-> obj, slot |-> d]]
  BY DEF Enter
<1>2. \A q \in Proc \ {p} : arg'[q] = arg[q] /\ pc'[q] = pc[q]
  BY <1>1 DEF Inv, TypeOK, Agent
<1>3. arg'[p] = [tty |-> s, obj |-> obj, slot |-> d] /\ pc'[p] = l
  BY <1>1 DEF Inv, TypeOK, Agent
<1>4. ArgHome(arg'[p], vc)
  BY <1>3 DEF ArgHome
<1>5. Moved(p)
  BY <1>3, <1>4 DEF Moved
<1> QED  BY <1>2, <1>5 DEF Moved

(* A process returns from one.                                              *)
LEMMA ReturnMoved ==
  ASSUME Inv, NEW p \in Proc, Return(p)
  PROVE  \A q \in Proc : Moved(q)
<1>1. \A q \in Proc \ {p} : arg'[q] = arg[q] /\ pc'[q] = pc[q]
  BY DEF Inv, TypeOK, Agent, Return
<1>2. arg'[p] = NULL /\ pc'[p] = "idle"
  BY DEF Inv, TypeOK, Agent, Return
<1> QED  BY <1>1, <1>2 DEF Moved

(* A step of processes that leaves consoles and displays alone.             *)
LEMMA MovedSeat ==
  ASSUME Inv, Inv', SeatInv, UNCHANGED <<vc, vc_cons, driver_data, vt>>,
         \A q \in Proc : Moved(q)
  PROVE  Stays
<1>1. Home(vt', vc) /\ Steady(vc, vc')
  BY SteadySame DEF SeatInv
<1> QED  BY <1>1, SteadySeat

(* A console changes in place.                                              *)
LEMMA UpdatedSeat ==
  ASSUME Inv, Inv', SeatInv, NEW o \in Obj, NEW d, vc' = [vc EXCEPT ![o] = d],
         d.live = vc[o].live, d.slot = vc[o].slot, d.vt_newvt \in {vc[o].vt_newvt, NULL},
         UNCHANGED <<vc_cons, driver_data, vt>>, \A q \in Proc : Moved(q)
  PROVE  Stays
<1>1. Steady(vc, vc')
  BY SteadySame, SteadyUpdate DEF Inv, TypeOK
<1>2. Home(vt', vc)
  BY DEF SeatInv
<1> QED  BY <1>1, <1>2, SteadySeat

(* The displays change, and stay at home.                                   *)
LEMMA DisplaysSeat ==
  ASSUME Inv, Inv', SeatInv, Home(vt', vc), UNCHANGED <<vc, vc_cons, driver_data>>,
         \A q \in Proc : Moved(q)
  PROVE  Stays
BY SteadySame, SteadySeat

(* KDSETMODE and VT_SETMODE.                                                *)
LEMMA ModeSeat ==
  ASSUME Inv, Inv', SeatInv, NEW p \in Proc, NEW s \in Slot,
         \/ \E m, op, place : place \in {"blank_gfx", "unblank"} /\ KDSETMODE(p, s, m, op, place)
         \/ \E m : VT_SETMODE(p, s, m)
  PROVE  Stays
<1> DEFINE o == driver_data[s]
<1>1. CASE \E m, op, place : place \in {"blank_gfx", "unblank"} /\ KDSETMODE(p, s, m, op, place)
  <2>1. PICK m, op, place : place \in {"blank_gfx", "unblank"} /\ KDSETMODE(p, s, m, op, place)
    BY <1>1
  <2> DEFINE d == [vc[o] EXCEPT !.mode = m]
  <2>2. o \in Obj
    BY <2>1, CallFacts DEF KDSETMODE
  <2>3. d.live = vc[o].live /\ d.slot = vc[o].slot /\ d.vt_newvt = vc[o].vt_newvt
    BY <2>2 DEF Inv, TypeOK, VcData
  <2>4. vc' = [vc EXCEPT ![o] = d] /\ UNCHANGED <<vc_cons, driver_data, vt>>
    BY <2>1 DEF KDSETMODE
  <2>5. \A q \in Proc : Moved(q)
    <3>1. Enter(p, place, s, NULL, s) \/ UNCHANGED <<pc, arg>>
      BY <2>1 DEF KDSETMODE
    <3> QED  BY <2>1, <3>1, EnterMoved, StillMoved
  <2> HIDE DEF d
  <2> QED  BY <2>2, <2>3, <2>4, <2>5, UpdatedSeat
<1>2. CASE \E m : VT_SETMODE(p, s, m)
  <2>1. PICK m : VT_SETMODE(p, s, m)
    BY <1>2
  <2> DEFINE d == [vc[o] EXCEPT !.vt_mode = m, !.vt_pid = p, !.vt_newvt = NULL]
  <2>2. o \in Obj
    BY <2>1, CallFacts DEF VT_SETMODE
  <2>3. d.live = vc[o].live /\ d.slot = vc[o].slot /\ d.vt_newvt = NULL
    BY <2>2 DEF Inv, TypeOK, VcData
  <2>4. vc' = [vc EXCEPT ![o] = d] /\ UNCHANGED <<vc_cons, driver_data, vt, pc, arg>>
    BY <2>1 DEF VT_SETMODE
  <2> HIDE DEF d
  <2> QED  BY <2>2, <2>3, <2>4, StillMoved, UpdatedSeat
<1> QED  BY <1>1, <1>2

(* VT_ACTIVATE and VT_WAITACTIVE of a console d.                            *)
LEMMA ActivateSeat ==
  ASSUME Inv, Inv', SeatInv, NEW p \in Proc, NEW s \in Slot, NEW d \in Slot,
         VT_ACTIVATE(p, s, d) \/ VT_WAITACTIVE(p, s, d)
  PROVE  Stays
<1>1. driver_data[s] # NULL /\ UNCHANGED <<vc, vc_cons, driver_data>>
  BY DEF VT_ACTIVATE, VT_WAITACTIVE, CanCall
<1>2. Home(vt, vc) /\ vt \in [VT -> VtStruct] /\ TypeOK
  BY DEF SeatInv, Inv, TypeOK
<1>3. CASE Enter(p, "activate", s, NULL, d) /\ UNCHANGED vt
  BY <1>1, <1>3, EnterMoved, MovedSeat
<1>4. CASE find_vc(d) # NULL /\ vt' = set_console(vt, find_vc(d)) /\ UNCHANGED <<pc, arg>>
  BY <1>1, <1>2, <1>4, SeatFacts, SetConsoleHome, StillMoved, DisplaysSeat
<1>5. CASE VT_WAITACTIVE(p, s, d)
  <2>1. /\ find_vc(d) # NULL /\ Disp(find_vc(d)) = Disp(driver_data[s])
        /\ Enter(p, "waitactive", s, find_vc(d), d) /\ UNCHANGED vt
    BY <1>5 DEF VT_WAITACTIVE
  <2>2. vc[find_vc(d)].live /\ vc[find_vc(d)].slot[1] = s[1]
    BY <1>1, <2>1, SeatFacts DEF Disp
  <2> QED  BY <1>1, <2>1, <2>2, EnterMoved, MovedSeat
<1> QED  BY <1>3, <1>4, <1>5 DEF VT_ACTIVATE

(* VT_RELDISP, up to the semaphore.                                         *)
LEMMA RelDispSeat ==
  ASSUME Inv, Inv', SeatInv, NEW p \in Proc, NEW s \in Slot, NEW ok, VT_RELDISP(p, s, ok)
  PROVE  Stays
<1> DEFINE o == driver_data[s]
           d == [vc[o] EXCEPT !.vt_newvt = NULL]
<1>1. /\ o # NULL /\ vc[o].vt_newvt # NULL /\ UNCHANGED <<vc_cons, driver_data, vt>>
      /\ \/ Enter(p, "reldisp", s, find_vc(vc[o].vt_newvt), s) /\ UNCHANGED vc
         \/ vc' = [vc EXCEPT ![o] = d] /\ UNCHANGED <<pc, arg>>
  BY DEF VT_RELDISP, CanCall
<1>2. o \in Obj /\ vc[o].live /\ vc[o].slot[1] = s[1]
  BY <1>1, SeatFacts DEF Disp
<1>3. CASE Enter(p, "reldisp", s, find_vc(vc[o].vt_newvt), s) /\ UNCHANGED vc
  <2> DEFINE n == vc[o].vt_newvt
  <2>1. n \in Slot /\ n[1] = s[1] /\ find_vc(n) # NULL
    BY <1>1, <1>2 DEF Inv, TypeOK, VcData, SeatInv, find_vc
  <2>2. vc[find_vc(n)].live /\ vc[find_vc(n)].slot[1] = s[1]
    BY <2>1, SeatFacts
  <2> QED  BY <1>1, <1>3, <2>1, <2>2, EnterMoved, MovedSeat
<1>4. CASE vc' = [vc EXCEPT ![o] = d] /\ UNCHANGED <<pc, arg>>
  <2>1. vc[o] \in VcData
    BY <1>2 DEF Inv, TypeOK
  <2>2. d.live = vc[o].live /\ d.slot = vc[o].slot /\ d.vt_newvt = NULL
    BY <2>1 DEF VcData
  <2> HIDE DEF d
  <2> QED  BY <1>1, <1>2, <1>4, <2>2, StillMoved, UpdatedSeat
<1> QED  BY <1>1, <1>3, <1>4

(* The ioctls and the escape sequences that change a display only.          *)
LEMMA DisplayCallSeat ==
  ASSUME Inv, Inv', SeatInv, NEW p \in Proc, NEW s \in Slot,
         \/ \E on \in BOOLEAN : VT_LOCKSWITCH(p, s, on)
         \/ TIOCL_BLANKSCREEN(p, s) \/ TIOCL_UNBLANKSCREEN(p, s) \/ vte_setterm(p, s)
  PROVE  Stays
<1> DEFINE t == Disp(driver_data[s])
<1>1. driver_data[s] # NULL /\ UNCHANGED <<vc, vc_cons, driver_data, pc, arg>>
  BY DEF VT_LOCKSWITCH, TIOCL_BLANKSCREEN, TIOCL_UNBLANKSCREEN, vte_setterm, CanCall
<1>2. Home(vt, vc) /\ vt \in [VT -> VtStruct] /\ TypeOK /\ t \in VT
  BY <1>1, DispFg DEF SeatInv, Inv, TypeOK
<1>3. CASE \E on \in BOOLEAN : vt' = [vt EXCEPT ![t].dont_switch = on]
  <2>1. PICK on \in BOOLEAN : vt' = [vt EXCEPT ![t].dont_switch = on]
    BY <1>3
  <2>2. Home(vt', vc)
    BY <1>2, <2>1, FlagsSame
  <2> QED  BY <1>1, <2>2, StillMoved, DisplaysSeat
<1>4. CASE UNCHANGED vt
  BY <1>1, <1>4, StillMoved, MovedSeat
<1>5. ASSUME NEW o \in Obj, vc[o].live, vt' = set_console(vt, o)
      PROVE  Stays
  <2>1. Home(vt', vc)
    BY <1>2, <1>5, SetConsoleHome
  <2> QED  BY <1>1, <2>1, StillMoved, DisplaysSeat
<1>6. /\ \A d \in Slot : find_vc(d) # NULL => find_vc(d) \in Obj /\ vc[find_vc(d)].live
      /\ vt[t].last_console \in Obj /\ vc[vt[t].last_console].live
  BY <1>2, SeatFacts
<1>7. CASE vte_setterm(p, s)
  BY <1>4, <1>5, <1>6, <1>7 DEF vte_setterm
<1> QED  BY <1>3, <1>4, <1>7 DEF VT_LOCKSWITCH, TIOCL_BLANKSCREEN, TIOCL_UNBLANKSCREEN

(* Any ioctl, up to the place where it sleeps.                              *)
LEMMA CallSeat ==
  ASSUME Inv, Inv', SeatInv, NoFreeing, NEW p \in Proc, NEW s \in Slot, Call(p, s)
  PROVE  Stays
<1>1. ~(\E d \in Slot : VT_DISALLOCATE(p, s, d)) /\ ~VT_DISALLOCATE_ALL(p, s)
  BY DEF NoFreeing, VT_DISALLOCATE, VT_DISALLOCATE_ALL, CanCall
<1> QED  BY <1>1, ModeSeat, ActivateSeat, RelDispSeat, DisplayCallSeat DEF Call

(* VT_ACTIVATE allocates the console, on whatever display it is, and asks   *)
(* for it on its own display only.                                          *)
LEMMA ActivateLockedSeat ==
  ASSUME Inv, Inv', SeatInv, NEW p \in Proc, VT_ACTIVATE_LOCKED(p)
  PROVE  Stays
<1>1. Return(p) /\ UNCHANGED driver_data /\ pc[p] = "activate"
  BY DEF VT_ACTIVATE_LOCKED
<1>2. CASE UNCHANGED <<vc, vc_cons, vt>>
  BY <1>1, <1>2, ReturnMoved, MovedSeat
<1>3. CASE ~UNCHANGED <<vc, vc_cons, vt>>
  <2> DEFINE d == arg[p].slot
             e(o) == [Claimed(vt, d, o)[d[1]] EXCEPT !.want_vc = o, !.work = TRUE]
  <2>1. PICK o \in FreeObj :
          /\ vc_allocate(d, o, FALSE)
          /\ vt' \in {Claimed(vt, d, o), [Claimed(vt, d, o) EXCEPT ![d[1]] = e(o)]}
    BY <1>3 DEF VT_ACTIVATE_LOCKED
  <2>2. d \in Slot /\ d[1] \in VT
    <3>1. d \in Slot
      BY <1>1 DEF Inv, TypeOK, IoctlHoldsTty, Locals
    <3> QED  BY <3>1, SlotParts
  <2>3. o \in Obj /\ ~vc[o].live /\ vc \in [Obj -> VcData]
    BY DEF FreeObj, Inv, TypeOK
  <2>4. vc' = [vc EXCEPT ![o] = NewVc(d, FALSE)] /\ vc_cons' = [vc_cons EXCEPT ![d] = o]
    BY <2>1 DEF vc_allocate
  <2>5. vc'[o].live /\ vc'[o].slot = d /\ \A q \in Obj \ {o} : vc'[q] = vc[q]
    BY <2>2, <2>3, <2>4, NewVcType
  <2> HIDE DEF d
  <2>6. vt \in [VT -> VtStruct] /\ Home(vt, vc')
    <3>1. Home(vt, vc) /\ vt \in [VT -> VtStruct]
      BY DEF SeatInv, Inv, TypeOK
    <3>2. \A q \in Obj : vc[q].live => vc'[q].live /\ vc'[q].slot = vc[q].slot
      BY <2>3, <2>5
    <3> QED  BY <3>1, <3>2, HomeHeap
  <2>7. Claimed(vt, d, o) \in [VT -> VtStruct] /\ Home(Claimed(vt, d, o), vc')
    BY <2>2, <2>3, <2>5, <2>6, ClaimedType, ClaimedHome
  <2>8. Home([Claimed(vt, d, o) EXCEPT ![d[1]] = e(o)], vc')
    <3> DEFINE made == Claimed(vt, d, o)
    <3> HIDE DEF made
    <3>1. /\ e(o).want_vc = o /\ e(o).fg_console = made[d[1]].fg_console
          /\ e(o).last_console = made[d[1]].last_console
      BY <2>2, <2>7 DEF VtStruct, made
    <3> HIDE DEF e
    <3>2. Home([made EXCEPT ![d[1]] = e(o)], vc')
      BY <2>2, <2>5, <2>7, <3>1 DEF Home, made
    <3> QED  BY <3>2 DEF made
  <2>9. Home(vt', vc')
    BY <2>1, <2>7, <2>8
  <2> QED  BY <1>1, <2>2, <2>4, <2>9, ReturnMoved, AllocateSeat
<1> QED  BY <1>2, <1>3

(* VT_RELDISP completes the switch to the console it found.                 *)
LEMMA RelDispLockedSeat ==
  ASSUME Inv, Inv', SeatInv, NEW p \in Proc, VT_RELDISP_LOCKED(p)
  PROVE  Stays
<1> DEFINE o    == driver_data[arg[p].tty]
           t    == Disp(o)
           quit == [vc EXCEPT ![o].vt_newvt = NULL]
<1>1. pc[p] = "reldisp" /\ arg[p].obj # NULL /\ arg[p] \in Locals /\ o # NULL
  <2>1. pc[p] = "reldisp"
    BY DEF VT_RELDISP_LOCKED
  <2>2. arg[p].obj # NULL
    BY <2>1 DEF SeatInv
  <2> QED  BY <2>1, <2>2 DEF Inv, TypeOK, IoctlHoldsTty
<1>2. /\ complete_change_console(p, arg[p].obj, Fg(t), quit, vt, "idle")
      /\ arg' = [arg EXCEPT ![p] = NULL] /\ UNCHANGED <<vc_cons, driver_data>>
  BY <1>1 DEF VT_RELDISP_LOCKED
<1>3. o \in Obj /\ t \in VT /\ t = arg[p].tty[1]
  <2>1. arg[p].tty \in Slot
    BY <1>1 DEF Locals
  <2> QED  BY <1>1, <2>1, SeatFacts, SlotParts
<1>4. /\ arg[p].obj \in Obj /\ vc[arg[p].obj].live /\ vc[arg[p].obj].slot[1] = t
      /\ Fg(t) \in Obj /\ vc[Fg(t)].live /\ vc[Fg(t)].slot[1] = t
  BY <1>1, <1>3, SeatFacts DEF SeatInv, ArgHome, Locals, Disp
<1>5. Steady(vc, quit) /\ quit \in [Obj -> VcData]
  BY <1>3, SteadySame, SteadyForget DEF Inv, TypeOK
<1> HIDE DEF quit, t
<1>6. p \in Agent /\ Home(vt, vc)
  BY DEF Agent, SeatInv
<1>7. /\ Steady(vc, vc') /\ Home(vt', vc) /\ pc'[p] \in {"stuck", "idle"}
      /\ \A a \in Agent \ {p} : pc'[a] = pc[a] \/ pc'[a] = "waitactive"
  BY <1>2, <1>3, <1>4, <1>5, <1>6, CompleteSeat
<1>8. \A q \in Proc : Moved(q)
  BY <1>2, <1>7 DEF Moved, Agent, Inv, TypeOK
<1> QED  BY <1>2, <1>7, <1>8, SteadySeat

(* The part of an ioctl that sleeps, and the ends of a sleep.               *)
LEMMA ContinueSeat ==
  ASSUME Inv, Inv', SeatInv, NEW p \in Proc, Continue(p) \/ WaitInterrupted(p) \/ Exit(p)
  PROVE  Stays
<1>1. CASE KDSETMODE_LOCKED(p) \/ WaitInterrupted(p) \/ Exit(p)
  BY <1>1, ReturnMoved, MovedSeat DEF KDSETMODE_LOCKED, WaitInterrupted, Exit
<1>2. CASE WaitTest(p)
  <2>1. UNCHANGED <<vc, vc_cons, driver_data, vt>>
    BY <1>2 DEF WaitTest
  <2>2. CASE Return(p)
    BY <2>1, <2>2, ReturnMoved, MovedSeat
  <2>3. CASE pc' = [pc EXCEPT ![p] = "asleep"] /\ UNCHANGED arg
    <3>1. \A q \in Proc : Moved(q)
      BY <2>3 DEF Moved, Inv, TypeOK, Agent
    <3> QED  BY <2>1, <3>1, MovedSeat
  <2> QED  BY <1>2, <2>2, <2>3 DEF WaitTest
<1>3. ~VT_DISALLOCATE_LOCKED(p)
  BY DEF VT_DISALLOCATE_LOCKED, SeatInv
<1> QED  BY <1>1, <1>2, <1>3, ActivateLockedSeat, RelDispLockedSeat DEF Continue

-----------------------------------------------------------------------------
(* The whole specification.                                                 *)

(* Initially every display shows its first console.                         *)
LEMMA InitSeat == Init => SeatInv
<1> SUFFICES ASSUME Init PROVE SeatInv
  OBVIOUS
<1> DEFINE S == Opened \cup {First(t) : t \in VT}
<1>1. PICK at \in [S -> Obj] :
        /\ IsInjective(at)
        /\ vc = [o \in Obj |->
                   IF \E s \in DOMAIN at : at[s] = o
                     THEN LET s == CHOOSE s \in DOMAIN at : at[s] = o
                          IN NewVc(s, s \in Opened)
                   ELSE [NewVc(First(0), FALSE) EXCEPT !.live = FALSE]]
        /\ vc_cons = [s \in Slot |-> IF s \in DOMAIN at THEN at[s] ELSE NULL]
        /\ driver_data = [s \in Slot |-> IF s \in Opened THEN at[s] ELSE NULL]
        /\ vt = [t \in VT |->
                   [fg_console |-> at[First(t)], last_console |-> at[First(t)],
                    want_vc |-> at[First(t)], dont_switch |-> FALSE,
                    scroll |-> FALSE, work |-> FALSE]]
  BY Zenon DEF Init
<1>2. S \subseteq Slot /\ DOMAIN at = S /\ \A t \in VT : First(t) \in S /\ First(t)[1] = t
  BY FirstInSlot, InitAssumption DEF First
<1>3. \A s \in S : vc[at[s]].live /\ vc[at[s]].slot = s
  <2> SUFFICES ASSUME NEW s \in S PROVE vc[at[s]].live /\ vc[at[s]].slot = s
    OBVIOUS
  <2> DEFINE q == CHOOSE r \in S : at[r] = at[s]
  <2>1. q \in S /\ at[q] = at[s]
    OBVIOUS
  <2>2. q = s
    BY <1>1, <1>2, <2>1 DEF IsInjective
  <2>3. vc[at[s]] = NewVc(q, q \in Opened)
    BY <1>1, <1>2
  <2> QED  BY <2>2, <2>3 DEF NewVc
<1>4. \A o \in Obj : vc[o].live => \E s \in S : at[s] = o
  <2> SUFFICES ASSUME NEW o \in Obj, ~\E s \in S : at[s] = o PROVE ~vc[o].live
    OBVIOUS
  <2>1. vc[o] = [NewVc(First(0), FALSE) EXCEPT !.live = FALSE]
    BY <1>1, <1>2
  <2> QED  BY <2>1 DEF NewVc
<1>5. Home(vt, vc)
  <2>1. \A t \in VT : vc[at[First(t)]].live /\ vc[at[First(t)]].slot[1] = t
    BY <1>2, <1>3
  <2>2. \A t \in VT : /\ vt[t].fg_console = at[First(t)] /\ vt[t].want_vc = at[First(t)]
                       /\ vt[t].last_console = at[First(t)]
    BY <1>1
  <2> QED  BY <2>1, <2>2 DEF Home
<1>6. \A s \in Slot : driver_data[s] # NULL => s \in S /\ driver_data[s] = at[s]
  BY <1>1
<1>7. \A o \in Obj : vc[o].live => vc_cons[vc[o].slot] # NULL
  <2>1. \A s \in S : vc_cons[s] = at[s] /\ at[s] \in Obj /\ at[s] # NULL
    BY <1>1, <1>2
  <2> QED  BY <1>3, <1>4, <2>1
<1>8. \A o \in Obj : vc[o].vt_newvt = NULL
  <2>1. \A s, open : NewVc(s, open).vt_newvt = NULL
    BY DEF NewVc
  <2>2. [NewVc(First(0), FALSE) EXCEPT !.live = FALSE].vt_newvt = NULL
    BY DEF NewVc
  <2> SUFFICES ASSUME NEW o \in Obj PROVE vc[o].vt_newvt = NULL
    OBVIOUS
  <2> DEFINE q == CHOOSE s \in DOMAIN at : at[s] = o
  <2>3. \/ vc[o] = [NewVc(First(0), FALSE) EXCEPT !.live = FALSE]
        \/ vc[o] = NewVc(q, q \in Opened)
    BY <1>1
  <2> HIDE DEF q
  <2> QED  BY <2>1, <2>2, <2>3
<1>9. \A p \in Proc : arg[p] = NULL /\ pc[p] = "idle"
  BY DEF Init, Agent
<1> QED  BY <1>3, <1>5, <1>6, <1>7, <1>8, <1>9 DEF SeatInv, ArgHome

(* Every step keeps every pointer on its display, as long as none frees.    *)
LEMMA NextSeat == NoFreeing /\ Inv /\ Inv' /\ SeatInv /\ [Next]_vars => Stays
<1> SUFFICES ASSUME NoFreeing, Inv, Inv', SeatInv, [Next]_vars PROVE Stays
  OBVIOUS
<1>1. CASE vt_console_print
  BY <1>1, StillMoved, MovedSeat DEF vt_console_print
<1>2. CASE UNCHANGED vars
  BY <1>2, StillMoved, MovedSeat DEF vars
<1> QED  BY <1>1, <1>2, CallbackSeat, InterruptSeat, CallSeat, ContinueSeat, OpenSeat DEF Next

(* Every pointer stays on its display.                                      *)
LEMMA SeatInvariance == NoFreeing => (Spec => [](Inv /\ SeatInv))
<1> SUFFICES ASSUME NoFreeing PROVE Spec => [](Inv /\ SeatInv)
  OBVIOUS
<1>1. Inv /\ SeatInv /\ [Next]_vars => (Inv /\ SeatInv)'
  BY NextInv, NextSeat DEF Stays
<1>2. Init => Inv /\ SeatInv
  BY InitInv, InitSeat
<1> QED  BY <1>1, <1>2, PTL DEF Spec

(***************************************************************************)
(* On a machine that frees no console, no console of one seat ever comes   *)
(* up on the screen of another: fg_console, want_vc and last_console of a  *)
(* display are consoles of that display, whichever keyboard, ioctl or      *)
(* escape sequence asked for the switch and wherever its console was       *)
(* allocated.                                                              *)
(***************************************************************************)
THEOREM SeatsStayApart == NoFreeing => (Spec => []DisplayIsolation)
<1>1. Inv /\ SeatInv => DisplayIsolation
  BY DEF SeatInv, Home, DisplayIsolation, Disp, Fg
<1> QED  BY <1>1, SeatInvariance, PTL

-----------------------------------------------------------------------------
(* No wake-up is lost.  A step either brings no console to the screen but a *)
(* fresh one, or wakes every sleeper, or ends with its agent stuck.         *)
SleepersStay ==
  \A p \in Proc : pc'[p] = "asleep" => pc[p] = "asleep" /\ arg'[p] = arg[p]

StuckStays == sem # NULL /\ pc[sem] = "stuck" => sem' # NULL /\ pc'[sem'] = "stuck"

NoneComesUp ==
  \A t \in VT : vt'[t].fg_console = vt[t].fg_console \/ ~vc[vt'[t].fg_console].live

(* A sleeper's console is allocated, so no fresh console is it.             *)
LEMMA QuietWake ==
  ASSUME Inv, SeatInv, Stays, NoLostWakeup, SleepersStay, StuckStays, NoneComesUp
  PROVE  NoLostWakeup'
<1> SUFFICES ASSUME NEW p \in Proc, pc'[p] = "asleep",
                    ~(sem' # NULL /\ pc'[sem'] = "stuck")
             PROVE  ~Visible(arg[p].obj)'
  BY DEF NoLostWakeup, SleepersStay
<1>1. pc[p] = "asleep" /\ arg'[p] = arg[p] /\ ~(sem # NULL /\ pc[sem] = "stuck")
  BY DEF SleepersStay, StuckStays
<1> DEFINE o == arg[p].obj
<1>2. arg[p] # NULL /\ o # NULL /\ o \in Obj
  <2>1. pc[p] \notin {"idle", "stuck"} /\ pc[p] \in {"waitactive", "asleep", "disallocate"}
    BY <1>1
  <2>2. arg[p] # NULL /\ o # NULL
    BY <2>1 DEF Inv, IoctlHoldsTty
  <2> QED  BY <2>2 DEF Inv, TypeOK, Locals
<1>3. vc[o].live
  BY <1>2 DEF SeatInv, ArgHome
<1>4. vc'[o].slot = vc[o].slot /\ Disp(o) \in VT
  BY <1>2, <1>3, DispFg DEF Stays, Inv
<1>5. vt[Disp(o)].fg_console # o
  BY <1>1 DEF NoLostWakeup, Visible, Fg
<1>6. vt'[Disp(o)].fg_console # o
  BY <1>3, <1>4, <1>5 DEF NoneComesUp
<1>7. ~Visible(o)' <=> vt'[vc'[o].slot[1]].fg_console # arg'[p].obj
  BY <1>1 DEF Visible, Fg, Disp
<1> QED  BY <1>1, <1>4, <1>6, <1>7 DEF Disp

(* A switch wakes the sleepers, or its agent sleeps on its own semaphore.   *)
LEMMA CompleteWake ==
  ASSUME TypeOK, NEW self \in Agent, NEW new, NEW old, NEW consoles,
         NEW after \in {"locked", "idle"},
         complete_change_console(self, new, old, consoles, vt, after),
         NestedAcquire(new, old, consoles) => sem' = self
  PROVE  NoLostWakeup'
<1>1. CASE NestedAcquire(new, old, consoles)
  <2>1. pc' = [pc EXCEPT ![self] = "stuck"] /\ sem' = self
    BY <1>1 DEF complete_change_console
  <2>2. sem' # NULL /\ pc'[sem'] = "stuck"
    BY <2>1 DEF TypeOK, Agent
  <2> QED  BY <2>2 DEF NoLostWakeup
<1>2. CASE ~NestedAcquire(new, old, consoles)
  <2>1. pc' = wake_up([pc EXCEPT ![self] = after])
    BY <1>2 DEF complete_change_console
  <2>2. \A p \in Proc : pc'[p] # "asleep"
    BY <2>1 DEF wake_up, TypeOK, Agent
  <2> QED  BY <2>2 DEF NoLostWakeup
<1> QED  BY <1>1, <1>2

(* Agents that do not move.                                                 *)
LEMMA StillQuiet ==
  ASSUME UNCHANGED <<pc, arg, sem>>
  PROVE  SleepersStay /\ StuckStays
BY DEF SleepersStay, StuckStays

(* A process that enters an ioctl, or returns.                              *)
LEMMA MovesQuiet ==
  ASSUME TypeOK, NEW p \in Proc, pc[p] # "stuck", UNCHANGED sem, Return(p) \/
         \E l, s, obj, d : l # "asleep" /\ Enter(p, l, s, obj, d)
  PROVE  SleepersStay /\ StuckStays
<1>1. PICK l, a : l # "asleep" /\ pc' = [pc EXCEPT ![p] = l] /\ arg' = [arg EXCEPT ![p] = a]
  BY DEF Return, Enter
<1> QED  BY <1>1 DEF SleepersStay, StuckStays, TypeOK, Agent

(* Displays whose screens stay.                                             *)
Showing(d, e) == e \in [VT -> VtStruct] /\ \A q \in VT : e[q].fg_console = d[q].fg_console

(* Requests that are only noted change no screen.                           *)
LEMMA ScreensStay ==
  ASSUME TypeOK, NEW d \in [VT -> VtStruct], NEW t \in VT, NEW x \in BOOLEAN, NEW o \in Obj
  PROVE  /\ Showing(d, d)
         /\ Showing(d, [d EXCEPT ![t].work = x])
         /\ Showing(d, [d EXCEPT ![t].scroll = x])
         /\ Showing(d, [d EXCEPT ![t].dont_switch = x])
         /\ Showing(d, set_console(d, o))
<1>1. \A v \in VtStruct : /\ [v EXCEPT !.work = x].fg_console = v.fg_console
                           /\ [v EXCEPT !.scroll = x].fg_console = v.fg_console
                           /\ [v EXCEPT !.dont_switch = x].fg_console = v.fg_console
                           /\ [v EXCEPT !.want_vc = o, !.work = TRUE].fg_console = v.fg_console
  BY DEF VtStruct
<1>2. \A q \in VT : d[q] \in VtStruct
  OBVIOUS
<1>3. /\ [d EXCEPT ![t].work = x] \in [VT -> VtStruct]
      /\ [d EXCEPT ![t].scroll = x] \in [VT -> VtStruct]
      /\ [d EXCEPT ![t].dont_switch = x] \in [VT -> VtStruct]
      /\ set_console(d, o) \in [VT -> VtStruct]
  BY DisplayFlagType, SetConsoleType
<1> QED  BY <1>1, <1>2, <1>3 DEF set_console, Showing

(* The same with the variable named.                                        *)
LEMMA ShowingQuiet ==
  ASSUME Showing(vt, vt')
  PROVE  NoneComesUp
BY DEF Showing, NoneComesUp

(* vt_work.                                                                 *)
LEMMA CallbackWake ==
  ASSUME Inv, SeatInv, Stays, NoLostWakeup, NEW t \in VT, vt_callback(t)
  PROVE  NoLostWakeup'
<1>1. vt \in [VT -> VtStruct] /\ TypeOK /\ t \in Agent /\ t \notin Proc
  BY DEF Inv, TypeOK, Agent
<1>2. CASE CallbackStart(t) \/ CallbackFinish(t)
  <2>1. vt' = [vt EXCEPT ![t].work = FALSE] \/ vt' = [vt EXCEPT ![t].scroll = FALSE]
    BY <1>2 DEF CallbackStart, CallbackFinish
  <2>2. NoneComesUp
    <3> DEFINE worked(x)   == [vt EXCEPT ![t].work = x]
               scrolled(x) == [vt EXCEPT ![t].scroll = x]
    <3>1. \A x \in BOOLEAN : Showing(vt, worked(x)) /\ Showing(vt, scrolled(x))
      BY <1>1, ScreensStay, DispFg
    <3>2. vt' \in {worked(FALSE), scrolled(FALSE)}
      BY <2>1
    <3> HIDE DEF worked, scrolled
    <3> QED  BY <3>1, <3>2, ShowingQuiet
  <2>3. UNCHANGED arg /\ \A a \in Agent \ {t} : pc'[a] = pc[a]
    BY <1>1, <1>2 DEF TypeOK, CallbackStart, CallbackFinish
  <2>4. SleepersStay
    BY <1>1, <2>3 DEF SleepersStay, Agent
  <2>5. StuckStays
    <3>1. CASE CallbackStart(t)
      <4>1. pc[t] # "stuck" /\ sem' = sem
        BY <3>1 DEF CallbackStart
      <4> QED  BY <1>1, <2>3, <4>1 DEF StuckStays, TypeOK
    <3>2. CASE CallbackFinish(t)
      <4>1. pc[t] = "locked"
        BY <3>2 DEF CallbackFinish
      <4>2. sem = t
        BY <1>1, <4>1 DEF Inv, MutualExclusion
      <4> QED  BY <4>1, <4>2 DEF StuckStays
    <3> QED  BY <1>2, <3>1, <3>2
  <2> QED  BY <2>2, <2>4, <2>5, QuietWake
<1>3. CASE CallbackSwitch(t)
  <2>1. sem = NULL /\ sem' = t /\ UNCHANGED arg
    BY <1>3 DEF CallbackSwitch, SwitchHoldingSem
  <2>2. CASE pc' = [pc EXCEPT ![t] = "locked"] /\ UNCHANGED vt
    <3>1. NoneComesUp /\ SleepersStay /\ StuckStays
      BY <1>1, <2>1, <2>2 DEF TypeOK, NoneComesUp, SleepersStay, StuckStays
    <3> QED  BY <3>1, QuietWake
  <2>3. CASE \E new, old, consoles : complete_change_console(t, new, old, consoles, vt, "locked")
    BY <1>1, <2>1, <2>3, CompleteWake
  <2> QED  BY <1>3, <2>2, <2>3 DEF CallbackSwitch, SwitchHoldingSem, change_console
<1> QED  BY <1>2, <1>3 DEF vt_callback

(* The timer and the keyboard change no screen by themselves.               *)
LEMMA InterruptShows ==
  ASSUME Inv, NEW t \in VT, blank_screen_t(t) \/ Keyboard(t)
  PROVE  Showing(vt, vt') /\ UNCHANGED <<vc_cons, driver_data, pc, arg, sem, alive>>
<1>1. vt \in [VT -> VtStruct] /\ TypeOK
  BY DEF Inv, TypeOK
<1>2. ASSUME NEW d, Showing(vt, d)
      PROVE  Showing(vt, schedule_work(d, t))
  <2>1. d \in [VT -> VtStruct] /\ Fg(t) \in Obj
    BY <1>1, <1>2, DispFg DEF Showing
  <2>2. Showing(d, [d EXCEPT ![t].work = TRUE])
    <3> DEFINE worked(x) == [d EXCEPT ![t].work = x]
    <3>1. \A x \in BOOLEAN : Showing(d, worked(x))
      BY <1>1, <2>1, ScreensStay
    <3> HIDE DEF worked
    <3>2. Showing(d, worked(TRUE))
      BY <3>1
    <3> QED  BY <3>2 DEF worked
  <2> QED  BY <1>2, <2>2 DEF schedule_work, Showing
<1>3. ASSUME NEW c, NEW d, Showing(vt, d), kbd_event(t, c, d)
      PROVE  Showing(vt, vt')
  BY <1>2, <1>3 DEF kbd_event
<1>4. \A o \in Obj : Showing(vt, set_console(vt, o))
  BY <1>1, ScreensStay
<1>5. Showing(vt, vt)
  BY <1>1 DEF Showing
<1>6. \A x \in BOOLEAN : Showing(vt, [vt EXCEPT ![t].scroll = x])
  BY <1>1, ScreensStay, DispFg
<1>7. \A s \in Slot : find_vc(s) # NULL => find_vc(s) \in Obj
  BY <1>1 DEF TypeOK, find_vc
<1>8. ASSUME blank_screen_t(t) PROVE Showing(vt, vt')
  BY <1>2, <1>5, <1>8 DEF blank_screen_t
<1>9. ASSUME Keyboard(t) PROVE Showing(vt, vt')
  <2>1. CASE KeyPlain(t) \/ fn_SAK(t)
    BY <1>3, <1>5, <2>1 DEF KeyPlain, fn_SAK
  <2>2. CASE k_cons(t) \/ fn_lastcons(t)
    BY <1>1, <1>3, <1>4, <1>7, <2>2, DispFg DEF k_cons, fn_lastcons
  <2>3. CASE fn_scroll(t)
    BY <1>3, <1>6, <2>3 DEF fn_scroll
  <2>4. ASSUME NEW op, NEW up \in BOOLEAN, fn_inc_console(t, op, up)
        PROVE  Showing(vt, vt')
    BY <1>1, <1>3, <1>4, <1>5, <2>4, NextConsoleType DEF fn_inc_console
  <2> QED  BY <1>9, <2>1, <2>2, <2>3, <2>4 DEF Keyboard
<1>10. Showing(vt, vt')
  BY <1>8, <1>9
<1>11. UNCHANGED <<vc_cons, driver_data, pc, arg, sem, alive>>
  BY DEF blank_screen_t, Keyboard, KeyPlain, k_cons, fn_lastcons, fn_inc_console, fn_scroll,
     fn_SAK, kbd_event
<1> QED  BY <1>10, <1>11

(* Nor does an ioctl, up to the place where it sleeps.                      *)
LEMMA CallShows ==
  ASSUME Inv, NEW p \in Proc, NEW s \in Slot, Call(p, s)
  PROVE  Showing(vt, vt') /\ pc[p] = "idle" /\ TypeOK
<1>1. vt \in [VT -> VtStruct] /\ TypeOK /\ driver_data[s] # NULL
  BY DEF Inv, TypeOK, Call, KDSETMODE, VT_SETMODE, VT_ACTIVATE, VT_WAITACTIVE, VT_DISALLOCATE,
     VT_DISALLOCATE_ALL, VT_RELDISP, VT_LOCKSWITCH, TIOCL_BLANKSCREEN, TIOCL_UNBLANKSCREEN,
     vte_setterm, CanCall
<1> DEFINE t == Disp(driver_data[s])
<1>2. t \in VT /\ vt[t].last_console \in Obj
  BY <1>1, DispFg DEF TypeOK
<1>3. \A d \in Slot : find_vc(d) # NULL => find_vc(d) \in Obj
  BY <1>1 DEF TypeOK, find_vc
<1>4. /\ \A o \in Obj : Showing(vt, set_console(vt, o))
      /\ \A x \in BOOLEAN : Showing(vt, [vt EXCEPT ![t].dont_switch = x])
      /\ Showing(vt, vt)
  BY <1>1, <1>2, ScreensStay
<1>5. pc[p] = "idle"
  BY DEF Call, KDSETMODE, VT_SETMODE, VT_ACTIVATE, VT_WAITACTIVE, VT_DISALLOCATE,
     VT_DISALLOCATE_ALL, VT_RELDISP, VT_LOCKSWITCH, TIOCL_BLANKSCREEN, TIOCL_UNBLANKSCREEN,
     vte_setterm, CanCall
<1>6. Showing(vt, vt')
  BY <1>2, <1>3, <1>4 DEF Call, KDSETMODE, VT_SETMODE, VT_ACTIVATE, VT_WAITACTIVE, VT_DISALLOCATE,
     VT_DISALLOCATE_ALL, VT_RELDISP, VT_LOCKSWITCH, TIOCL_BLANKSCREEN, TIOCL_UNBLANKSCREEN,
     vte_setterm
<1> QED  BY <1>1, <1>5, <1>6

(* No ioctl sends a process to sleep before its test.                       *)
LEMMA CallWake ==
  ASSUME Inv, SeatInv, Stays, NoLostWakeup, NoFreeing, NEW p \in Proc, NEW s \in Slot, Call(p, s)
  PROVE  NoLostWakeup'
<1>1. Showing(vt, vt') /\ pc[p] # "stuck" /\ TypeOK
  BY CallShows
<1>2. SleepersStay /\ StuckStays
  <2>1. CASE UNCHANGED <<pc, arg, sem>>
    BY <2>1, StillQuiet
  <2>2. ASSUME NEW l, NEW obj, NEW d, l # "asleep", Enter(p, l, s, obj, d), UNCHANGED sem
        PROVE  SleepersStay /\ StuckStays
    BY <1>1, <2>2, MovesQuiet
  <2>3. ASSUME NEW m, NEW op, NEW place, KDSETMODE(p, s, m, op, place), place # "asleep"
        PROVE  SleepersStay /\ StuckStays
    BY <2>1, <2>2, <2>3 DEF KDSETMODE
  <2>4. ASSUME NEW d \in Slot, VT_ACTIVATE(p, s, d) \/ VT_WAITACTIVE(p, s, d)
        PROVE  SleepersStay /\ StuckStays
    BY <2>1, <2>2, <2>4 DEF VT_ACTIVATE, VT_WAITACTIVE
  <2>5. ASSUME NEW ok, VT_RELDISP(p, s, ok)
        PROVE  SleepersStay /\ StuckStays
    BY <2>1, <2>2, <2>5 DEF VT_RELDISP
  <2>6. ~(\E d \in Slot : VT_DISALLOCATE(p, s, d)) /\ ~VT_DISALLOCATE_ALL(p, s)
    BY DEF NoFreeing, VT_DISALLOCATE, VT_DISALLOCATE_ALL, CanCall
  <2>7. CASE \/ \E m : VT_SETMODE(p, s, m)
             \/ \E ok : VT_LOCKSWITCH(p, s, ok)
             \/ TIOCL_BLANKSCREEN(p, s) \/ TIOCL_UNBLANKSCREEN(p, s) \/ vte_setterm(p, s)
    BY <2>1, <2>7 DEF VT_SETMODE, VT_LOCKSWITCH, TIOCL_BLANKSCREEN, TIOCL_UNBLANKSCREEN, vte_setterm
  <2> QED  BY <2>3, <2>4, <2>5, <2>6, <2>7 DEF Call
<1> QED  BY <1>1, <1>2, ShowingQuiet, QuietWake

(* A console is allocated: the only console that can come up is the new one.*)
LEMMA ClaimedQuiet ==
  ASSUME TypeOK, NEW s \in Slot, NEW o \in FreeObj
  PROVE  \A t \in VT : Claimed(vt, s, o)[t].fg_console \in {vt[t].fg_console, o}
<1> DEFINE e == [vt[s[1]] EXCEPT !.want_vc = o, !.fg_console = o, !.last_console = o]
<1>1. vt \in [VT -> VtStruct] /\ s[1] \in VT
  BY SlotParts DEF TypeOK
<1>2. e.fg_console = o
  BY <1>1 DEF VtStruct
<1>3. Claimed(vt, s, o) \in {vt, [vt EXCEPT ![s[1]] = e]}
  BY DEF Claimed
<1> HIDE DEF e
<1> QED  BY <1>1, <1>2, <1>3

(* The part of an ioctl that sleeps, and the ends of a sleep.               *)
LEMMA ContinueWake ==
  ASSUME Inv, SeatInv, Stays, NoLostWakeup, NEW p \in Proc,
         Continue(p) \/ WaitInterrupted(p) \/ Exit(p)
  PROVE  NoLostWakeup'
<1>1. vt \in [VT -> VtStruct] /\ TypeOK /\ p \in Agent
  BY DEF Inv, TypeOK, Agent
<1>2. CASE KDSETMODE_LOCKED(p) \/ WaitInterrupted(p) \/ Exit(p)
  <2>1. Return(p) /\ pc[p] # "stuck" /\ UNCHANGED <<vt, sem>>
    BY <1>2 DEF KDSETMODE_LOCKED, WaitInterrupted, Exit
  <2>2. NoneComesUp
    BY <2>1 DEF NoneComesUp
  <2> QED  BY <1>1, <2>1, <2>2, MovesQuiet, QuietWake
<1>3. CASE WaitTest(p)
  <2>1. pc[p] = "waitactive" /\ UNCHANGED <<vc, vt, sem>> /\ NoneComesUp
    BY <1>3 DEF WaitTest, NoneComesUp
  <2>2. CASE Return(p)
    BY <1>1, <2>1, <2>2, MovesQuiet, QuietWake
  <2>3. CASE ~Visible(arg[p].obj) /\ pc' = [pc EXCEPT ![p] = "asleep"] /\ UNCHANGED arg
    <3>1. ASSUME NEW q \in Proc, pc'[q] = "asleep"
          PROVE  ~Visible(arg[q].obj) \/ (sem # NULL /\ pc[sem] = "stuck")
      BY <1>1, <2>3, <3>1 DEF NoLostWakeup, TypeOK, Agent
    <3>2. sem # NULL /\ pc[sem] = "stuck" => pc'[sem] = "stuck"
      BY <1>1, <2>1, <2>3 DEF TypeOK
    <3>3. \A q \in Proc : Visible(arg[q].obj)' = Visible(arg[q].obj)
      BY <2>1, <2>3 DEF Visible, Fg, Disp
    <3> QED  BY <2>1, <3>1, <3>2, <3>3 DEF NoLostWakeup
  <2> QED  BY <1>3, <2>2, <2>3 DEF WaitTest
<1>4. CASE VT_ACTIVATE_LOCKED(p)
  <2>1. Return(p) /\ pc[p] = "activate" /\ UNCHANGED sem
    BY <1>4 DEF VT_ACTIVATE_LOCKED
  <2>2. NoneComesUp
    <3>1. CASE UNCHANGED vt
      BY <3>1 DEF NoneComesUp
    <3>2. CASE ~UNCHANGED vt
      <4> DEFINE d == arg[p].slot
                 made(o) == Claimed(vt, d, o)
                 e(o) == [made(o)[d[1]] EXCEPT !.want_vc = o, !.work = TRUE]
      <4>1. PICK o \in FreeObj : vt' \in {made(o), [made(o) EXCEPT ![d[1]] = e(o)]}
        BY <1>4, <3>2 DEF VT_ACTIVATE_LOCKED
      <4>2. d \in Slot
        BY <2>1 DEF Inv, TypeOK, IoctlHoldsTty, Locals
      <4>3. o \in Obj /\ ~vc[o].live
        BY DEF FreeObj
      <4>4. made(o) \in [VT -> VtStruct]
        BY <1>1, <4>2, <4>3, ClaimedType
      <4>5. \A t \in VT : made(o)[t].fg_console \in {vt[t].fg_console, o}
        BY <1>1, <4>2, ClaimedQuiet
      <4> HIDE DEF made, d
      <4>6. e(o).fg_console = made(o)[d[1]].fg_console /\ d[1] \in VT
        BY <4>2, <4>4, SlotParts DEF VtStruct
      <4> HIDE DEF e
      <4>7. \A t \in VT : vt'[t].fg_console \in {vt[t].fg_console, o}
        BY <4>1, <4>4, <4>5, <4>6
      <4> QED  BY <4>3, <4>7 DEF NoneComesUp
    <3> QED  BY <3>1, <3>2
  <2> QED  BY <1>1, <2>1, <2>2, MovesQuiet, QuietWake
<1>5. CASE VT_RELDISP_LOCKED(p)
  <2> DEFINE o    == driver_data[arg[p].tty]
             t    == Disp(o)
             quit == [vc EXCEPT ![o].vt_newvt = NULL]
  <2>1. arg[p].obj # NULL
    BY <1>5 DEF VT_RELDISP_LOCKED, SeatInv
  <2>2. /\ complete_change_console(p, arg[p].obj, Fg(t), quit, vt, "idle")
        /\ sem' = IF NestedAcquire(arg[p].obj, Fg(t), quit) THEN p ELSE NULL
    BY <1>5, <2>1 DEF VT_RELDISP_LOCKED
  <2> HIDE DEF quit, t
  <2> QED  BY <1>1, <2>2, CompleteWake
<1>6. ~VT_DISALLOCATE_LOCKED(p)
  BY DEF VT_DISALLOCATE_LOCKED, SeatInv
<1> QED  BY <1>2, <1>3, <1>4, <1>5, <1>6 DEF Continue

(* No step loses a wake-up.                                                 *)
LEMMA NextWake ==
  NoFreeing /\ Inv /\ SeatInv /\ Stays /\ NoLostWakeup /\ [Next]_vars => NoLostWakeup'
<1> SUFFICES ASSUME NoFreeing, Inv, SeatInv, Stays, NoLostWakeup, [Next]_vars
             PROVE  NoLostWakeup'
  OBVIOUS
<1>1. ASSUME NEW s \in Slot, vt_open(s) \/ vt_close(s) PROVE NoLostWakeup'
  <2>1. UNCHANGED <<pc, arg, sem>>
    BY <1>1 DEF vt_open, vt_close
  <2>2. NoneComesUp
    <3>1. CASE vt_open(s)
      <4>1. PICK o \in FreeObj : vt' = Claimed(vt, s, o)
        BY <3>1 DEF vt_open
      <4>2. \A t \in VT : vt'[t].fg_console \in {vt[t].fg_console, o}
        BY <4>1, ClaimedQuiet DEF Inv
      <4> QED  BY <4>2 DEF FreeObj, NoneComesUp
    <3>2. CASE vt_close(s)
      BY <3>2 DEF vt_close, NoneComesUp
    <3> QED  BY <1>1, <3>1, <3>2
  <2> QED  BY <2>1, <2>2, StillQuiet, QuietWake
<1>3. ASSUME NEW t \in VT, blank_screen_t(t) \/ Keyboard(t) PROVE NoLostWakeup'
  BY <1>3, InterruptShows, ShowingQuiet, StillQuiet, QuietWake
<1>2. ASSUME UNCHANGED <<vt, pc, arg, sem>> PROVE NoLostWakeup'
  BY <1>2, StillQuiet, QuietWake DEF NoneComesUp
<1> QED  BY <1>1, <1>2, <1>3, CallbackWake, CallWake, ContinueWake
         DEF Next, vars, vt_console_print

(***************************************************************************)
(* On a machine that frees no console, vt_waitactive loses no wake-up: a   *)
(* process sleeps for a console that is not on the screen, or some agent   *)
(* has locked itself out in complete_change_console, between the switch    *)
(* and the wake-up.  A console comes up by a switch, which wakes everyone, *)
(* or by being allocated, and nobody sleeps for a console not yet there.   *)
(***************************************************************************)
THEOREM WakeupsReachSleepers == NoFreeing => (Spec => []NoLostWakeup)
<1> SUFFICES ASSUME NoFreeing PROVE Spec => []NoLostWakeup
  OBVIOUS
<1>1. Inv /\ SeatInv /\ NoLostWakeup /\ [Next]_vars => (Inv /\ SeatInv /\ NoLostWakeup)'
  BY NextInv, NextSeat, NextWake DEF Stays
<1>2. Init => Inv /\ SeatInv /\ NoLostWakeup
  BY InitInv, InitSeat DEF Init, NoLostWakeup, Agent
<1> QED  BY <1>1, <1>2, PTL DEF Spec

-----------------------------------------------------------------------------
(***************************************************************************)
(* The handshake.  vc_allocate puts a first console on the screen by       *)
(* itself, so this is about a system whose first consoles stay open.  What *)
(* a step may do is split in three: to the switching state of a console,   *)
(* to a screen, and to a process inside VT_RELDISP or VT_ACTIVATE.         *)
(***************************************************************************)
FirstKept == \A t \in VT : First(t) \notin Closable

(* The same mode of switching, under the same process.                      *)
SameOwner(c, d) == d.vt_mode = c.vt_mode /\ d.vt_pid = c.vt_pid

(* It is as it was, or it is reset, which a reachable process only suffers  *)
(* from SAK; or its process was asked to release the screen, or a process   *)
(* that has it open changed its mode or refused; or the switch was made.    *)
ConsoleStep(o) ==
  \/ SameOwner(vc[o], vc'[o]) /\ vc'[o].vt_newvt = vc[o].vt_newvt
  \/ /\ ~Reachable(vc[o]) \/ "K_SAK" \in Ops \/ ~vc[o].live
     /\ vc'[o].vt_mode = "VT_AUTO" /\ vc'[o].vt_newvt = NULL
  \/ SameOwner(vc[o], vc'[o]) /\ vt[Disp(o)].fg_console = o /\ vc'[o].vt_newvt # NULL
  \/ \E p \in Proc : /\ pc[p] = "idle" /\ \E s \in Fds[p] : driver_data[s] = o
                     /\ vc'[o].vt_newvt = NULL
                     /\ SameOwner(vc[o], vc'[o]) \/ vc'[o].vt_pid = p
  \/ \E p \in Proc : /\ pc[p] = "reldisp" /\ pc'[p] # "reldisp"
                     /\ driver_data[arg[p].tty] = o
                     /\ vc'[o].vt_newvt = NULL /\ SameOwner(vc[o], vc'[o])

(* A screen changes when nobody could be asked, or by VT_RELDISP.           *)
ScreenStep(t) ==
  \/ vt'[t].fg_console = vt[t].fg_console
  \/ /\ ~(vc[Fg(t)].vt_mode = "VT_PROCESS" /\ Reachable(vc[Fg(t)]))
     /\ vc'[Fg(t)].vt_newvt = NULL
  \/ \E p \in Proc : /\ pc[p] = "reldisp" /\ pc'[p] # "reldisp"
                     /\ Disp(driver_data[arg[p].tty]) = t
                     /\ vc'[driver_data[arg[p].tty]].vt_newvt = NULL

Releasing(p) ==
  \/ /\ pc[p] = "reldisp" /\ arg'[p] = arg[p] /\ alive'[p] = alive[p]
     /\ driver_data'[arg[p].tty] = driver_data[arg[p].tty]
  \/ /\ UNCHANGED <<vc, driver_data, alive>> /\ alive[p] /\ arg'[p].tty \in Fds[p]
     /\ driver_data[arg'[p].tty] # NULL
     /\ vc[driver_data[arg'[p].tty]].vt_mode = "VT_PROCESS"
     /\ vc[driver_data[arg'[p].tty]].vt_newvt # NULL

ProcStep(p) ==
  /\ pc'[p] = "reldisp" => Releasing(p)
  /\ pc'[p] = "activate" => \/ pc[p] = "activate" /\ arg'[p] = arg[p]
                            \/ vc_cons[arg'[p].slot] = NULL

OwnStep == /\ \A o \in Obj : ConsoleStep(o)
           /\ \A t \in VT : ScreenStep(t)
           /\ \A p \in Proc : ProcStep(p)

(* First consoles are there, and nobody is about to allocate one; a console *)
(* in VT_PROCESS mode has a process.                                        *)
HandInv ==
  /\ \A t \in VT : vc_cons[First(t)] # NULL
  /\ \A p \in Proc : pc[p] = "activate" => \A t \in VT : arg[p].slot # First(t)
  /\ \A o \in Obj : vc[o].vt_mode = "VT_PROCESS" => vc[o].vt_pid \in Proc

(* A step of that kind keeps them.                                          *)
LEMMA OwnHand ==
  ASSUME Inv, HandInv, Stays, OwnStep
  PROVE  HandInv'
<1>1. \A t \in VT : vc_cons'[First(t)] # NULL
  BY FirstInSlot DEF HandInv, Stays
<1>2. ASSUME NEW p \in Proc, pc'[p] = "activate", NEW t \in VT
      PROVE  arg'[p].slot # First(t)
  BY <1>2 DEF OwnStep, ProcStep, HandInv
<1>3. ASSUME NEW o \in Obj, vc'[o].vt_mode = "VT_PROCESS"
      PROVE  vc'[o].vt_pid \in Proc
  <2>1. ConsoleStep(o)
    BY DEF OwnStep
  <2> QED  BY <1>3, <2>1 DEF ConsoleStep, SameOwner, HandInv
<1> QED  BY <1>1, <1>2, <1>3 DEF HandInv

-----------------------------------------------------------------------------
(* Every action is such a step.                                             *)

(* A console that is reset is in VT_AUTO mode; the flags of a console do    *)
(* not matter.                                                              *)
LEMMA ResetAuto ==
  ASSUME NEW c \in VcData, NEW m
  PROVE  /\ reset_vc(c).vt_mode = "VT_AUTO" /\ reset_vc(c).vt_newvt = NULL
         /\ SameOwner(c, [c EXCEPT !.mode = m]) /\ [c EXCEPT !.mode = m].vt_newvt = c.vt_newvt
         /\ SameOwner(c, [c EXCEPT !.vc_tty = m]) /\ [c EXCEPT !.vc_tty = m].vt_newvt = c.vt_newvt
         /\ SameOwner(c, [c EXCEPT !.vt_newvt = m]) /\ [c EXCEPT !.vt_newvt = m].vt_newvt = m
BY DEF VcData, reset_vc, SameOwner

(* Consoles that stay as they are, and one that is new.                     *)
LEMMA SameConsoles ==
  ASSUME UNCHANGED vc
  PROVE  \A o \in Obj : ConsoleStep(o)
BY DEF ConsoleStep, SameOwner

(* A step that changes one console changes the owner of no other.           *)
LEMMA OneConsole ==
  ASSUME Inv, NEW o \in Obj, NEW d, vc' = [vc EXCEPT ![o] = d], vc'[o] = d => ConsoleStep(o)
  PROVE  \A q \in Obj : ConsoleStep(q)
<1>1. vc'[o] = d /\ \A q \in Obj \ {o} : vc'[q] = vc[q]
  BY DEF Inv, TypeOK
<1>2. \A q \in Obj \ {o} : ConsoleStep(q)
  BY <1>1 DEF ConsoleStep, SameOwner
<1> QED  BY <1>1, <1>2

(* Screens that stay.                                                       *)
LEMMA ShowingScreens ==
  ASSUME Showing(vt, vt')
  PROVE  \A t \in VT : ScreenStep(t)
BY DEF Showing, ScreenStep

(* Processes that stay.                                                     *)
LEMMA StillProcs ==
  ASSUME UNCHANGED <<pc, arg, alive, driver_data>>
  PROVE  \A p \in Proc : ProcStep(p)
BY DEF ProcStep, Releasing

(* A process that moves, the others staying.                                *)
LEMMA OneProc ==
  ASSUME Inv, NEW p \in Proc, NEW l, NEW a, UNCHANGED driver_data,
         pc' = [pc EXCEPT ![p] = l], arg' = [arg EXCEPT ![p] = a],
         \A q \in Proc \ {p} : alive'[q] = alive[q],
         pc'[p] = l /\ arg'[p] = a => ProcStep(p)
  PROVE  \A q \in Proc : ProcStep(q)
<1>1. pc'[p] = l /\ arg'[p] = a
  BY DEF Inv, TypeOK, Agent
<1>2. \A q \in Proc \ {p} : pc'[q] = pc[q] /\ arg'[q] = arg[q]
  BY DEF Inv, TypeOK, Agent
<1>3. \A q \in Proc \ {p} : ProcStep(q)
  BY <1>2 DEF ProcStep, Releasing
<1> QED  BY <1>1, <1>3

(* One that returns.                                                        *)
LEMMA ReturnProc ==
  ASSUME Inv, NEW p \in Proc, Return(p), UNCHANGED driver_data,
         \A q \in Proc \ {p} : alive'[q] = alive[q]
  PROVE  \A q \in Proc : ProcStep(q)
<1>1. pc'[p] = "idle" => ProcStep(p)
  BY DEF ProcStep
<1> QED  BY <1>1, OneProc DEF Return

(* A switch: what becomes of a console the switch does not find abandoned.  *)
LEMMA CompleteOwn ==
  ASSUME Inv, NEW self \in Agent, NEW new \in Obj, NEW old, NEW consoles \in [Obj -> VcData],
         NEW t \in VT, consoles[new].slot[1] = t, NEW after \in {"idle", "locked"},
         complete_change_console(self, new, old, consoles, vt, after)
  PROVE  /\ \A o \in Obj : \/ vc'[o] = consoles[o]
                           \/ /\ ~Reachable(consoles[o])
                              /\ vc'[o].vt_mode = "VT_AUTO" /\ vc'[o].vt_newvt = NULL
         /\ \A u \in VT \ {t} : vt'[u] = vt[u]
         /\ pc'[self] \in {"stuck", after}
         /\ \A a \in Agent \ {self} : pc'[a] = pc[a] \/ pc'[a] = "waitactive"
<1>1. \/ vc' = consoles
      \/ ~Reachable(consoles[new]) /\ vc' = [consoles EXCEPT ![new] = reset_vc(consoles[new])]
  BY DEF complete_change_console
<1>2. reset_vc(consoles[new]).vt_mode = "VT_AUTO" /\ reset_vc(consoles[new]).vt_newvt = NULL
  <2>1. consoles[new] \in VcData
    OBVIOUS
  <2> QED  BY <2>1, ResetAuto
<1>3. \A o \in Obj : \/ vc'[o] = consoles[o]
                     \/ /\ ~Reachable(consoles[o])
                        /\ vc'[o].vt_mode = "VT_AUTO" /\ vc'[o].vt_newvt = NULL
  BY <1>1, <1>2
<1>4. vt' = [vt EXCEPT ![t] = [@ EXCEPT !.last_console = old, !.fg_console = new]]
  BY DEF complete_change_console
<1>5. \A u \in VT \ {t} : vt'[u] = vt[u]
  BY <1>4 DEF Inv, TypeOK
<1>6. pc' = [pc EXCEPT ![self] = "stuck"] \/ pc' = wake_up([pc EXCEPT ![self] = after])
  BY DEF complete_change_console
<1>7. /\ pc'[self] \in {"stuck", after}
      /\ \A a \in Agent \ {self} : pc'[a] = pc[a] \/ pc'[a] = "waitactive"
  BY <1>6 DEF wake_up, Inv, TypeOK
<1> QED  BY <1>3, <1>5, <1>7

(* The processes, while an agent switches.                                  *)
LEMMA SwitchProcs ==
  ASSUME UNCHANGED <<alive, driver_data>>,
         \A p \in Proc : \/ pc'[p] \notin {"reldisp", "activate"}
                         \/ pc'[p] = pc[p] /\ arg'[p] = arg[p]
  PROVE  \A p \in Proc : ProcStep(p)
BY DEF ProcStep, Releasing

(* vt_work.                                                                 *)
LEMMA CallbackOwn ==
  ASSUME Inv, SeatInv, HandInv, NEW t \in VT, vt_callback(t)
  PROVE  OwnStep
<1>1. vt \in [VT -> VtStruct] /\ TypeOK /\ t \in Agent /\ \A p \in Proc : p \in Agent \ {t}
  BY DEF Inv, TypeOK, Agent
<1>2. UNCHANGED <<alive, driver_data, arg>>
  BY DEF vt_callback, CallbackStart, CallbackSwitch, SwitchHoldingSem, CallbackFinish
<1>3. ASSUME NEW l, pc' = [pc EXCEPT ![t] = l] PROVE \A p \in Proc : ProcStep(p)
  <2>1. \A p \in Proc : pc'[p] = pc[p]
    BY <1>1, <1>3 DEF TypeOK
  <2> QED  BY <1>2, <2>1, SwitchProcs
<1>4. CASE CallbackStart(t) \/ CallbackFinish(t)
  <2>1. UNCHANGED vc /\ \E l : pc' = [pc EXCEPT ![t] = l]
    BY <1>4 DEF CallbackStart, CallbackFinish
  <2>2. Showing(vt, vt')
    <3> DEFINE worked(x)   == [vt EXCEPT ![t].work = x]
               scrolled(x) == [vt EXCEPT ![t].scroll = x]
    <3>1. \A x \in BOOLEAN : Showing(vt, worked(x)) /\ Showing(vt, scrolled(x))
      BY <1>1, ScreensStay, DispFg
    <3>2. vt' \in {worked(FALSE), scrolled(FALSE)}
      BY <1>4 DEF CallbackStart, CallbackFinish
    <3> HIDE DEF worked, scrolled
    <3> QED  BY <3>1, <3>2
  <2> QED  BY <1>3, <2>1, <2>2, SameConsoles, ShowingScreens DEF OwnStep
<1>5. CASE CallbackSwitch(t)
  <2> DEFINE old == Fg(t)
             new == vt[t].want_vc
             cons == IF vc[old].vt_mode = "VT_PROCESS"
                       THEN [vc EXCEPT ![old] = reset_vc(vc[old])] ELSE vc
  <2>1. old \in Obj /\ new \in Obj /\ vc[new].slot[1] = t /\ vc[old].slot[1] = t
    BY SeatFacts DEF Disp
  <2>2. vc \in [Obj -> VcData] /\ vc[old] \in VcData /\ old = vt[t].fg_console
    BY <2>1 DEF Inv, TypeOK, Fg
  <2> DEFINE r == reset_vc(vc[old])
  <2>9. r.vt_mode = "VT_AUTO" /\ r.vt_newvt = NULL /\ r \in VcData /\ r.slot = vc[old].slot
    BY <2>2, ResetAuto, ResetType
  <2> HIDE DEF r
  <2>10. cons = IF vc[old].vt_mode = "VT_PROCESS" THEN [vc EXCEPT ![old] = r] ELSE vc
    BY DEF r
  <2> HIDE DEF cons
  <2>3. \/ vc[old].vt_mode = "VT_PROCESS" /\ Reachable(vc[old])
        \/ \A o \in Obj : \/ cons[o] = vc[o]
                          \/ /\ ~Reachable(vc[o]) /\ o = old
                             /\ cons[o].vt_mode = "VT_AUTO" /\ cons[o].vt_newvt = NULL
    BY <2>1, <2>2, <2>9, <2>10
  <2>4. cons \in [Obj -> VcData] /\ cons[new].slot[1] = t /\ cons[old].vt_newvt = NULL
    <3>1. cons \in [Obj -> VcData] /\ cons[new].slot = vc[new].slot
      BY <2>1, <2>2, <2>9, <2>10
    <3>2. cons[old].vt_newvt = NULL
      BY <2>1, <2>2, <2>9, <2>10 DEF Inv, PendingSwitch
    <3> QED  BY <2>1, <3>1, <3>2
  <2> HIDE DEF old, new, cons
  <2>5. CASE pc' = [pc EXCEPT ![t] = "locked"] /\ UNCHANGED <<vc, vt>>
    <3>1. Showing(vt, vt')
      BY <1>1, <2>5 DEF Showing
    <3> QED  BY <1>3, <2>5, <3>1, SameConsoles, ShowingScreens DEF OwnStep
  <2>6. CASE /\ vc' = [vc EXCEPT ![old].vt_newvt = vc[new].slot]
             /\ pc' = [pc EXCEPT ![t] = "locked"] /\ UNCHANGED vt
    <3> DEFINE d == [vc[old] EXCEPT !.vt_newvt = vc[new].slot]
    <3>1. SameOwner(vc[old], d) /\ d.vt_newvt # NULL
      <4>1. vc[new].slot # NULL
        BY <2>1, <2>2 DEF VcData
      <4>2. SameOwner(vc[old], d) /\ d.vt_newvt = vc[new].slot
        BY <2>2 DEF VcData, SameOwner
      <4> QED  BY <4>1, <4>2
    <3>2. vc' = [vc EXCEPT ![old] = d]
      BY <2>6
    <3> HIDE DEF d
    <3>3. vt[Disp(old)].fg_console = old
      BY <2>1, <2>2 DEF Disp
    <3>4. vc'[old] = d => ConsoleStep(old)
      BY <3>1, <3>3 DEF ConsoleStep
    <3>5. Showing(vt, vt')
      BY <1>1, <2>6 DEF Showing
    <3> QED  BY <1>3, <2>1, <2>6, <3>2, <3>4, <3>5, OneConsole, ShowingScreens DEF OwnStep
  <2>7. CASE /\ ~(vc[old].vt_mode = "VT_PROCESS" /\ Reachable(vc[old]))
             /\ vc' = cons /\ pc' = [pc EXCEPT ![t] = "locked"] /\ UNCHANGED vt
    <3>1. \A o \in Obj : ConsoleStep(o)
      BY <2>3, <2>7 DEF ConsoleStep, SameOwner
    <3>2. Showing(vt, vt')
      BY <1>1, <2>7 DEF Showing
    <3> QED  BY <1>3, <2>7, <3>1, <3>2, ShowingScreens DEF OwnStep
  <2>8. CASE /\ ~(vc[old].vt_mode = "VT_PROCESS" /\ Reachable(vc[old]))
             /\ complete_change_console(t, new, old, cons, vt, "locked")
    <3>1. /\ \A o \in Obj : \/ vc'[o] = cons[o]
                             \/ /\ ~Reachable(cons[o])
                                /\ vc'[o].vt_mode = "VT_AUTO" /\ vc'[o].vt_newvt = NULL
          /\ \A u \in VT \ {t} : vt'[u] = vt[u]
          /\ \A a \in Agent \ {t} : pc'[a] = pc[a] \/ pc'[a] = "waitactive"
      BY <1>1, <2>1, <2>4, <2>8, CompleteOwn
    <3>2. ASSUME NEW o \in Obj PROVE ConsoleStep(o)
      BY <2>3, <2>8, <3>1 DEF ConsoleStep, SameOwner
    <3>3. ASSUME NEW u \in VT PROVE ScreenStep(u)
      <4>1. CASE u = t
        BY <2>1, <2>4, <2>8, <3>1, <4>1 DEF ScreenStep, old
      <4>2. CASE u # t
        BY <3>1, <4>2 DEF ScreenStep
      <4> QED  BY <4>1, <4>2
    <3>4. \A p \in Proc : ProcStep(p)
      BY <1>1, <1>2, <3>1, SwitchProcs
    <3> QED  BY <3>2, <3>3, <3>4 DEF OwnStep
  <2> QED  BY <1>5, <2>5, <2>6, <2>7, <2>8
           DEF CallbackSwitch, SwitchHoldingSem, change_console, old, new, cons
<1> QED  BY <1>4, <1>5 DEF vt_callback

(* VT_RELDISP under the semaphore.                                          *)
LEMMA RelDispOwn ==
  ASSUME Inv, SeatInv, NEW p \in Proc, VT_RELDISP_LOCKED(p)
  PROVE  OwnStep
<1> DEFINE o    == driver_data[arg[p].tty]
           t    == Disp(o)
           quit == [vc EXCEPT ![o].vt_newvt = NULL]
           d    == [vc[o] EXCEPT !.vt_newvt = NULL]
<1>1. pc[p] = "reldisp" /\ arg[p].obj # NULL /\ arg[p] \in Locals /\ o # NULL
  <2>1. pc[p] = "reldisp"
    BY DEF VT_RELDISP_LOCKED
  <2>2. arg[p].obj # NULL
    BY <2>1 DEF SeatInv
  <2> QED  BY <2>1, <2>2 DEF Inv, TypeOK, IoctlHoldsTty
<1>2. /\ complete_change_console(p, arg[p].obj, Fg(t), quit, vt, "idle")
      /\ arg' = [arg EXCEPT ![p] = NULL] /\ UNCHANGED <<driver_data, alive>>
  BY <1>1 DEF VT_RELDISP_LOCKED
<1>3. o \in Obj /\ t \in VT /\ t = arg[p].tty[1] /\ vc[o] \in VcData
  <2>1. arg[p].tty \in Slot
    BY <1>1 DEF Locals
  <2> QED  BY <1>1, <2>1, SeatFacts, SlotParts DEF Inv, TypeOK
<1>4. arg[p].obj \in Obj /\ vc[arg[p].obj].slot[1] = t
  BY <1>1, <1>3 DEF SeatInv, ArgHome, Locals
<1>5. /\ d \in VcData /\ SameOwner(vc[o], d) /\ d.vt_newvt = NULL /\ d.slot = vc[o].slot
  BY <1>3, ResetAuto, ForgetType DEF Cleared
<1>6. quit = [vc EXCEPT ![o] = d]
  OBVIOUS
<1> HIDE DEF d
<1>7. /\ quit \in [Obj -> VcData] /\ quit[o] = d /\ quit[arg[p].obj].slot[1] = t
      /\ \A q \in Obj \ {o} : quit[q] = vc[q]
  BY <1>3, <1>4, <1>5, <1>6 DEF Inv, TypeOK
<1> HIDE DEF quit, t
<1>8. /\ \A q \in Obj : \/ vc'[q] = quit[q]
                         \/ /\ ~Reachable(quit[q])
                            /\ vc'[q].vt_mode = "VT_AUTO" /\ vc'[q].vt_newvt = NULL
      /\ \A u \in VT \ {t} : vt'[u] = vt[u]
      /\ pc'[p] \in {"stuck", "idle"}
      /\ \A a \in Agent \ {p} : pc'[a] = pc[a] \/ pc'[a] = "waitactive"
  BY <1>2, <1>3, <1>4, <1>7, CompleteOwn DEF Agent
<1>9. ASSUME NEW q \in Obj PROVE ConsoleStep(q)
  <2>1. CASE q # o
    BY <1>7, <1>8, <2>1 DEF ConsoleStep, SameOwner
  <2>2. CASE q = o
    <3>1. Reachable(d) = Reachable(vc[o])
      BY <1>5 DEF Reachable, SameOwner
    <3>2. CASE vc'[o] = d
      BY <1>1, <1>5, <1>8, <2>2, <3>2 DEF ConsoleStep
    <3>3. CASE ~Reachable(d) /\ vc'[o].vt_mode = "VT_AUTO" /\ vc'[o].vt_newvt = NULL
      BY <2>2, <3>1, <3>3 DEF ConsoleStep
    <3> QED  BY <1>3, <1>7, <1>8, <3>2, <3>3
  <2> QED  BY <2>1, <2>2
<1>10. ASSUME NEW u \in VT PROVE ScreenStep(u)
  <2>1. vc'[o].vt_newvt = NULL
    BY <1>3, <1>5, <1>7, <1>8
  <2>2. CASE u = t
    BY <1>1, <1>8, <2>1, <2>2 DEF ScreenStep, t
  <2>3. CASE u # t
    BY <1>8, <2>3 DEF ScreenStep
  <2> QED  BY <2>2, <2>3
<1>11. \A q \in Proc : \/ pc'[q] \notin {"reldisp", "activate"}
                       \/ pc'[q] = pc[q] /\ arg'[q] = arg[q]
  BY <1>2, <1>8 DEF Agent, Inv, TypeOK
<1> QED  BY <1>2, <1>9, <1>10, <1>11, SwitchProcs DEF OwnStep

(* The timer and the keyboard: SAK resets the console on the screen.        *)
LEMMA InterruptOwn ==
  ASSUME Inv, NEW t \in VT, blank_screen_t(t) \/ Keyboard(t)
  PROVE  OwnStep
<1>1. Showing(vt, vt') /\ UNCHANGED <<vc_cons, driver_data, pc, arg, sem, alive>>
  BY InterruptShows
<1>2. \/ UNCHANGED vc
      \/ "K_SAK" \in Ops /\ vc' = [vc EXCEPT ![Fg(t)] = reset_vc(vc[Fg(t)])]
  BY DEF blank_screen_t, Keyboard, KeyPlain, k_cons, fn_lastcons, fn_inc_console, fn_scroll,
     fn_SAK, kbd_event
<1>3. CASE "K_SAK" \in Ops /\ vc' = [vc EXCEPT ![Fg(t)] = reset_vc(vc[Fg(t)])]
  <2> DEFINE d == reset_vc(vc[Fg(t)])
  <2>1. Fg(t) \in Obj /\ vc[Fg(t)] \in VcData
    BY DispFg DEF Inv, TypeOK
  <2>2. d.vt_mode = "VT_AUTO" /\ d.vt_newvt = NULL
    BY <2>1, ResetAuto
  <2> HIDE DEF d
  <2>3. vc'[Fg(t)] = d => ConsoleStep(Fg(t))
    BY <1>3, <2>2 DEF ConsoleStep
  <2>4. vc' = [vc EXCEPT ![Fg(t)] = d]
    BY <1>3 DEF d
  <2>5. \A o \in Obj : ConsoleStep(o)
    BY <2>1, <2>3, <2>4, OneConsole
  <2> QED  BY <1>1, <2>5, ShowingScreens, StillProcs DEF OwnStep
<1>4. CASE UNCHANGED vc
  BY <1>1, <1>4, SameConsoles, ShowingScreens, StillProcs DEF OwnStep
<1> QED  BY <1>2, <1>3, <1>4

(* What a process that enters an ioctl must show.                           *)
LEMMA EnterProc ==
  ASSUME Inv, NEW p \in Proc, NEW l, NEW s, NEW obj, NEW d, Enter(p, l, s, obj, d),
         UNCHANGED <<driver_data, alive>>,
         l = "activate" => vc_cons[d] = NULL,
         l = "reldisp" => /\ UNCHANGED vc /\ alive[p] /\ s \in Fds[p] /\ driver_data[s] # NULL
                          /\ vc[driver_data[s]].vt_mode = "VT_PROCESS"
                          /\ vc[driver_data[s]].vt_newvt # NULL
  PROVE  \A q \in Proc : ProcStep(q)
<1> DEFINE a == [tty |-> s, obj |-> obj, slot |-> d]
<1>1. pc' = [pc EXCEPT ![p] = l] /\ arg' = [arg EXCEPT ![p] = a] /\ a.tty = s /\ a.slot = d
  BY DEF Enter
<1> HIDE DEF a
<1>2. pc'[p] = l /\ arg'[p] = a => ProcStep(p)
  BY <1>1 DEF ProcStep, Releasing
<1> QED  BY <1>1, <1>2, OneProc

(* Any ioctl, up to the place where it sleeps.                              *)
LEMMA CallOwn ==
  ASSUME Inv, SeatInv, NoFreeing, NEW p \in Proc, NEW s \in Slot, Call(p, s)
  PROVE  OwnStep
<1> DEFINE o == driver_data[s]
<1>1. Showing(vt, vt') /\ pc[p] = "idle"
  BY CallShows
<1>2. UNCHANGED <<driver_data, alive>> /\ s \in Fds[p] /\ driver_data[s] # NULL /\ alive[p]
  BY DEF NoFreeing, Call, KDSETMODE, VT_SETMODE, VT_ACTIVATE, VT_WAITACTIVE, VT_DISALLOCATE,
     VT_DISALLOCATE_ALL, VT_RELDISP, VT_LOCKSWITCH, TIOCL_BLANKSCREEN, TIOCL_UNBLANKSCREEN,
     vte_setterm, CanCall
<1>3. o \in Obj /\ vc[o] \in VcData
  BY <1>2 DEF Inv, TypeOK
<1>4. ASSUME NEW m, NEW op, NEW place, KDSETMODE(p, s, m, op, place),
             place \notin {"activate", "reldisp"}
      PROVE  OwnStep
  <2> DEFINE d == [vc[o] EXCEPT !.mode = m]
  <2>1. SameOwner(vc[o], d) /\ d.vt_newvt = vc[o].vt_newvt
    BY <1>3, ResetAuto
  <2>2. vc' = [vc EXCEPT ![o] = d]
    BY <1>4 DEF KDSETMODE
  <2> HIDE DEF d
  <2>3. vc'[o] = d => ConsoleStep(o)
    BY <2>1 DEF ConsoleStep
  <2>4. Enter(p, place, s, NULL, s) \/ UNCHANGED <<pc, arg>>
    BY <1>4 DEF KDSETMODE
  <2>5. \A q \in Proc : ProcStep(q)
    BY <1>2, <1>4, <2>4, EnterProc, StillProcs
  <2> QED  BY <1>1, <1>3, <2>2, <2>3, <2>5, OneConsole, ShowingScreens DEF OwnStep
<1>5. ASSUME NEW m, VT_SETMODE(p, s, m) PROVE OwnStep
  <2> DEFINE d == [vc[o] EXCEPT !.vt_mode = m, !.vt_pid = p, !.vt_newvt = NULL]
  <2>1. d.vt_pid = p /\ d.vt_newvt = NULL
    BY <1>3 DEF VcData
  <2>2. vc' = [vc EXCEPT ![o] = d] /\ UNCHANGED <<pc, arg>>
    BY <1>5 DEF VT_SETMODE
  <2> HIDE DEF d
  <2>3. vc'[o] = d => ConsoleStep(o)
    BY <1>1, <1>2, <2>1 DEF ConsoleStep
  <2> QED  BY <1>1, <1>2, <1>3, <2>2, <2>3, OneConsole, ShowingScreens, StillProcs DEF OwnStep
<1>6. ASSUME NEW ok, VT_RELDISP(p, s, ok) PROVE OwnStep
  <2>1. CASE Enter(p, "reldisp", s, find_vc(vc[o].vt_newvt), s) /\ UNCHANGED vc
    <3>1. vc[o].vt_mode = "VT_PROCESS" /\ vc[o].vt_newvt # NULL
      BY <1>6 DEF VT_RELDISP
    <3>2. \A q \in Proc : ProcStep(q)
      BY <1>2, <2>1, <3>1, EnterProc
    <3> QED  BY <1>1, <2>1, <3>2, SameConsoles, ShowingScreens DEF OwnStep
  <2>2. CASE vc' = [vc EXCEPT ![o].vt_newvt = NULL] /\ UNCHANGED <<pc, arg>>
    <3> DEFINE d == [vc[o] EXCEPT !.vt_newvt = NULL]
    <3>1. SameOwner(vc[o], d) /\ d.vt_newvt = NULL
      BY <1>3, ResetAuto
    <3>2. vc' = [vc EXCEPT ![o] = d]
      BY <2>2
    <3> HIDE DEF d
    <3>3. vc'[o] = d => ConsoleStep(o)
      BY <1>1, <1>2, <3>1 DEF ConsoleStep
    <3> QED  BY <1>1, <1>2, <1>3, <2>2, <3>2, <3>3, OneConsole, ShowingScreens, StillProcs
             DEF OwnStep
  <2> QED  BY <1>6, <2>1, <2>2 DEF VT_RELDISP
<1>7. ASSUME NEW d \in Slot, VT_ACTIVATE(p, s, d) \/ VT_WAITACTIVE(p, s, d) PROVE OwnStep
  <2>1. UNCHANGED vc
    BY <1>7 DEF VT_ACTIVATE, VT_WAITACTIVE
  <2>2. \/ Enter(p, "activate", s, NULL, d) /\ vc_cons[d] = NULL
        \/ UNCHANGED <<pc, arg>>
        \/ Enter(p, "waitactive", s, find_vc(d), d)
    BY <1>7 DEF VT_ACTIVATE, VT_WAITACTIVE, find_vc
  <2>3. \A q \in Proc : ProcStep(q)
    BY <1>2, <2>2, EnterProc, StillProcs
  <2> QED  BY <1>1, <2>1, <2>3, SameConsoles, ShowingScreens DEF OwnStep
<1>8. ~(\E d \in Slot : VT_DISALLOCATE(p, s, d)) /\ ~VT_DISALLOCATE_ALL(p, s)
  BY DEF NoFreeing, VT_DISALLOCATE, VT_DISALLOCATE_ALL, CanCall
<1>9. CASE \/ \E ok \in BOOLEAN : VT_LOCKSWITCH(p, s, ok)
           \/ TIOCL_BLANKSCREEN(p, s) \/ TIOCL_UNBLANKSCREEN(p, s) \/ vte_setterm(p, s)
  <2>1. UNCHANGED <<vc, pc, arg>>
    BY <1>9 DEF VT_LOCKSWITCH, TIOCL_BLANKSCREEN, TIOCL_UNBLANKSCREEN, vte_setterm
  <2> QED  BY <1>1, <1>2, <2>1, SameConsoles, ShowingScreens, StillProcs DEF OwnStep
<1> QED  BY <1>4, <1>5, <1>6, <1>7, <1>8, <1>9 DEF Call

(* A fresh console.                                                         *)
LEMMA NewConsole ==
  ASSUME Inv, NEW s, NEW o \in FreeObj, NEW open, vc' = [vc EXCEPT ![o] = NewVc(s, open)]
  PROVE  \A q \in Obj : ConsoleStep(q)
<1> DEFINE d == NewVc(s, open)
<1>1. d.vt_mode = "VT_AUTO" /\ d.vt_newvt = NULL
  BY DEF NewVc
<1> HIDE DEF d
<1>2. o \in Obj /\ (vc'[o] = d => ConsoleStep(o))
  BY <1>1 DEF ConsoleStep, FreeObj
<1>3. vc' = [vc EXCEPT ![o] = d]
  BY DEF d
<1> QED  BY <1>2, <1>3, OneConsole

(* Only a first console comes up by being allocated.                        *)
LEMMA ClaimedShows ==
  ASSUME NEW s \in Slot, NEW o, \A t \in VT : s # First(t)
  PROVE  Claimed(vt, s, o) = vt
<1>1. s[1] \in VT
  BY SlotParts
<1> QED  BY <1>1 DEF Claimed

(* The part of an ioctl that sleeps, and the ends of a sleep.               *)
LEMMA ContinueOwn ==
  ASSUME Inv, SeatInv, HandInv, NEW p \in Proc, Continue(p) \/ WaitInterrupted(p) \/ Exit(p)
  PROVE  OwnStep
<1>1. vt \in [VT -> VtStruct] /\ TypeOK
  BY DEF Inv, TypeOK
<1>2. CASE KDSETMODE_LOCKED(p) \/ WaitInterrupted(p) \/ Exit(p)
  <2>1. /\ Return(p) /\ UNCHANGED <<vc, vt, driver_data>>
        /\ \A q \in Proc \ {p} : alive'[q] = alive[q]
    BY <1>1, <1>2 DEF KDSETMODE_LOCKED, WaitInterrupted, Exit, TypeOK
  <2>2. Showing(vt, vt')
    BY <1>1, <2>1 DEF Showing
  <2> QED  BY <2>1, <2>2, SameConsoles, ShowingScreens, ReturnProc DEF OwnStep
<1>3. CASE WaitTest(p)
  <2>1. UNCHANGED <<vc, vt, driver_data, alive>>
    BY <1>3 DEF WaitTest
  <2>2. \A q \in Proc : \/ pc'[q] \notin {"reldisp", "activate"}
                        \/ pc'[q] = pc[q] /\ arg'[q] = arg[q]
    BY <1>1, <1>3 DEF WaitTest, Return, TypeOK, Agent
  <2>3. Showing(vt, vt')
    BY <1>1, <2>1 DEF Showing
  <2> QED  BY <2>1, <2>2, <2>3, SameConsoles, ShowingScreens, SwitchProcs DEF OwnStep
<1>4. CASE VT_ACTIVATE_LOCKED(p)
  <2>1. pc[p] = "activate" /\ Return(p) /\ UNCHANGED <<driver_data, alive>>
    BY <1>4 DEF VT_ACTIVATE_LOCKED
  <2>2. \A q \in Proc : ProcStep(q)
    BY <2>1, ReturnProc
  <2>3. CASE UNCHANGED <<vc, vt>>
    <3>1. Showing(vt, vt')
      BY <1>1, <2>3 DEF Showing
    <3> QED  BY <2>2, <2>3, <3>1, SameConsoles, ShowingScreens DEF OwnStep
  <2>4. CASE ~UNCHANGED <<vc, vt>>
    <3> DEFINE d == arg[p].slot
               e(o) == [vt[d[1]] EXCEPT !.want_vc = o, !.work = TRUE]
    <3>1. d \in Slot /\ \A t \in VT : d # First(t)
      BY <2>1 DEF Inv, TypeOK, IoctlHoldsTty, Locals, HandInv
    <3>2. \A o : Claimed(vt, d, o) = vt
      BY <3>1, ClaimedShows
    <3>3. PICK o \in FreeObj : /\ vc' = [vc EXCEPT ![o] = NewVc(d, FALSE)]
                               /\ vt' \in {vt, [vt EXCEPT ![d[1]] = e(o)]}
      BY <1>4, <2>4, <3>2 DEF VT_ACTIVATE_LOCKED, vc_allocate
    <3> HIDE DEF d
    <3>4. e(o).fg_console = vt[d[1]].fg_console
      BY <1>1, <3>1, SlotParts DEF VtStruct
    <3> HIDE DEF e
    <3>5. \A t \in VT : ScreenStep(t)
      BY <1>1, <3>1, <3>3, <3>4 DEF ScreenStep
    <3> QED  BY <2>2, <3>3, <3>5, NewConsole DEF OwnStep
  <2> QED  BY <2>3, <2>4
<1>5. ~VT_DISALLOCATE_LOCKED(p)
  BY DEF VT_DISALLOCATE_LOCKED, SeatInv
<1> QED  BY <1>2, <1>3, <1>4, <1>5, RelDispOwn DEF Continue

(* The tty of a console that is not a first one is opened or closed.        *)
LEMMA OpenOwn ==
  ASSUME Inv, SeatInv, FirstKept, NEW s \in Slot, vt_open(s) \/ vt_close(s)
  PROVE  OwnStep
<1>1. UNCHANGED <<pc, arg, alive>> /\ vt \in [VT -> VtStruct] /\ \A t \in VT : s # First(t)
  <2>1. s \in Closable /\ UNCHANGED <<pc, arg, alive>>
    BY DEF vt_open, vt_close
  <2> QED  BY <2>1 DEF FirstKept, Inv, TypeOK
<1>2. UNCHANGED vt /\ \A o \in Obj : ConsoleStep(o)
  <2>1. CASE vt_open(s)
    <3>1. PICK o \in FreeObj : vc' = [vc EXCEPT ![o] = NewVc(s, TRUE)] /\ vt' = Claimed(vt, s, o)
      BY <2>1 DEF vt_open, vc_allocate
    <3> QED  BY <1>1, <3>1, NewConsole, ClaimedShows
  <2>2. CASE vt_close(s)
    <3> DEFINE o == driver_data[s]
               d == [vc[o] EXCEPT !.vc_tty = FALSE]
    <3>1. o \in Obj /\ vc[o] \in VcData
      BY <2>2 DEF vt_close, Inv, TypeOK
    <3>2. SameOwner(vc[o], d) /\ d.vt_newvt = vc[o].vt_newvt
      BY <3>1, ResetAuto
    <3>3. vc' = [vc EXCEPT ![o] = d] /\ UNCHANGED vt
      BY <2>2 DEF vt_close
    <3> HIDE DEF d
    <3>4. vc'[o] = d => ConsoleStep(o)
      BY <3>2 DEF ConsoleStep
    <3> QED  BY <3>1, <3>3, <3>4, OneConsole
  <2> QED  BY <2>1, <2>2
<1>3. ASSUME NEW p \in Proc, pc[p] = "reldisp"
      PROVE  driver_data'[arg[p].tty] = driver_data[arg[p].tty]
  <2>1. arg[p] # NULL /\ arg[p] \in Locals /\ driver_data[arg[p].tty] # NULL
    BY <1>3 DEF Inv, TypeOK, IoctlHoldsTty
  <2>2. arg[p].tty # s
    BY <2>1 DEF vt_open, vt_close, InIoctl
  <2>3. driver_data' = [driver_data EXCEPT ![s] = driver_data'[s]]
    BY DEF vt_open, vt_close, Inv, TypeOK
  <2> QED  BY <2>1, <2>2, <2>3 DEF Inv, TypeOK, Locals
<1>4. \A p \in Proc : ProcStep(p)
  BY <1>1, <1>3 DEF ProcStep, Releasing
<1>5. Showing(vt, vt')
  BY <1>1, <1>2 DEF Showing
<1> QED  BY <1>2, <1>4, <1>5, ShowingScreens DEF OwnStep

(* Every step.                                                              *)
LEMMA NextOwn ==
  ASSUME NoFreeing, FirstKept, Inv, SeatInv, HandInv, [Next]_vars
  PROVE  OwnStep
<1>1. ASSUME UNCHANGED <<vc, vc_cons, driver_data, vt, pc, arg, alive>> PROVE OwnStep
  <2>1. Showing(vt, vt')
    BY <1>1 DEF Showing, Inv, TypeOK
  <2> QED  BY <1>1, <2>1, SameConsoles, ShowingScreens, StillProcs DEF OwnStep
<1> QED  BY <1>1, CallbackOwn, InterruptOwn, CallOwn, ContinueOwn, OpenOwn
         DEF Next, vars, vt_console_print

(* Initially no process controls a console.                                 *)
LEMMA InitAuto == Init => \A o \in Obj : vc[o].vt_mode = "VT_AUTO" /\ vc[o].vt_newvt = NULL
<1> SUFFICES ASSUME Init, NEW o \in Obj PROVE vc[o].vt_mode = "VT_AUTO" /\ vc[o].vt_newvt = NULL
  OBVIOUS
<1> DEFINE S == Opened \cup {First(t) : t \in VT}
<1>1. PICK at \in [S -> Obj] :
        vc = [q \in Obj |->
                IF \E s \in DOMAIN at : at[s] = q
                  THEN LET s == CHOOSE s \in DOMAIN at : at[s] = q
                       IN NewVc(s, s \in Opened)
                ELSE [NewVc(First(0), FALSE) EXCEPT !.live = FALSE]]
  BY Zenon DEF Init
<1> DEFINE q == CHOOSE s \in DOMAIN at : at[s] = o
<1>2. \/ vc[o] = [NewVc(First(0), FALSE) EXCEPT !.live = FALSE]
      \/ vc[o] = NewVc(q, q \in Opened)
  BY <1>1
<1> HIDE DEF q
<1>3. \A s, open : NewVc(s, open).vt_mode = "VT_AUTO" /\ NewVc(s, open).vt_newvt = NULL
  BY DEF NewVc
<1>4. /\ [NewVc(First(0), FALSE) EXCEPT !.live = FALSE].vt_mode = "VT_AUTO"
      /\ [NewVc(First(0), FALSE) EXCEPT !.live = FALSE].vt_newvt = NULL
  BY DEF NewVc
<1> QED  BY <1>2, <1>3, <1>4

(* And every display has its first console.                                 *)
LEMMA InitHand == Init => HandInv
<1> SUFFICES ASSUME Init PROVE HandInv
  OBVIOUS
<1>1. Inv /\ SeatInv
  BY InitInv, InitSeat
<1>2. \A t \in VT : vc_cons[First(t)] # NULL
  <2> DEFINE S == Opened \cup {First(t) : t \in VT}
  <2>1. PICK at \in [S -> Obj] : vc_cons = [s \in Slot |-> IF s \in DOMAIN at THEN at[s] ELSE NULL]
    BY Zenon DEF Init
  <2>2. \A t \in VT : First(t) \in S /\ First(t) \in Slot
    BY FirstInSlot
  <2>3. \A t \in VT : vc_cons[First(t)] = at[First(t)] /\ at[First(t)] \in Obj
    BY <2>1, <2>2
  <2> QED  BY <2>3
<1>3. \A p \in Proc : pc[p] = "idle"
  BY DEF Init, Agent
<1>4. \A o \in Obj : vc[o].vt_mode = "VT_AUTO"
  BY InitAuto
<1> QED  BY <1>2, <1>3, <1>4 DEF HandInv

(***************************************************************************)
(* A console whose controlling process is alive leaves the screen by that  *)
(* process's VT_RELDISP and not otherwise, on a machine that frees no      *)
(* console and keeps its first consoles open: neither a key, nor another   *)
(* process's VT_ACTIVATE, nor an allocation takes the screen from it.      *)
(***************************************************************************)
THEOREM ScreenLeftByRelease == NoFreeing /\ FirstKept => (Spec => HandshakeRespected)
<1> SUFFICES ASSUME NoFreeing, FirstKept PROVE Spec => HandshakeRespected
  OBVIOUS
<1> DEFINE Step == \A t \in VT :
       (/\ vc'[vt'[t].fg_console].slot # vc[Fg(t)].slot
        /\ vc[Fg(t)].vt_mode = "VT_PROCESS"
        /\ alive[vc[Fg(t)].vt_pid])
       => \E p \in Proc : pc[p] = "reldisp" /\ pc'[p] # "reldisp"
<1>1. Init => Inv /\ SeatInv /\ HandInv
  BY InitInv, InitSeat, InitHand
<1>2. Inv /\ SeatInv /\ HandInv /\ [Next]_vars => (Inv /\ SeatInv /\ HandInv)'
  BY NextInv, NextSeat, NextOwn, OwnHand DEF Stays
<1>3. Inv /\ SeatInv /\ HandInv /\ [Next]_vars => [Step]_vars
  <2> SUFFICES ASSUME Inv, SeatInv, HandInv, [Next]_vars, NEW t \in VT,
                      vc'[vt'[t].fg_console].slot # vc[Fg(t)].slot,
                      vc[Fg(t)].vt_mode = "VT_PROCESS", alive[vc[Fg(t)].vt_pid]
               PROVE  \E p \in Proc : pc[p] = "reldisp" /\ pc'[p] # "reldisp"
    OBVIOUS
  <2>1. ScreenStep(t) /\ Stays
    BY NextOwn, NextInv, NextSeat DEF OwnStep
  <2>2. Fg(t) \in Obj /\ vc[Fg(t)].live
    BY SeatFacts
  <2>3. vt'[t].fg_console # vt[t].fg_console
    BY <2>1, <2>2 DEF Stays, Fg
  <2>4. Reachable(vc[Fg(t)])
    BY <2>2 DEF HandInv, Reachable
  <2> QED  BY <2>1, <2>3, <2>4 DEF ScreenStep
<1> QED  BY <1>1, <1>2, <1>3, PTL DEF Spec, HandshakeRespected

-----------------------------------------------------------------------------
(***************************************************************************)
(* Whose switch is pending.  VT_SETMODE and VT_RELDISP ask for no          *)
(* permission but an open tty, and SAK resets a console that its process   *)
(* is about to release: this is about a system where every console is open *)
(* in one process, and without SAK.                                        *)
(***************************************************************************)
OneOwner == \A p, q \in Proc : p # q => Fds[p] \cap Fds[q] = {}

NoSak == "K_SAK" \notin Ops

(* A console is controlled by a process that has it open; a process inside  *)
(* VT_RELDISP controls its console, and the switch is pending still.        *)
OwnInv ==
  /\ PendingIsForeground
  /\ \A o \in Obj : vc[o].vt_mode = "VT_PROCESS" =>
       vc[o].live /\ vc[o].slot \in Fds[vc[o].vt_pid]
  /\ \A p \in Proc : pc[p] = "reldisp" =>
       /\ alive[p] /\ arg[p].tty \in Fds[p]
       /\ vc[driver_data[arg[p].tty]].vt_mode = "VT_PROCESS"
       /\ vc[driver_data[arg[p].tty]].vt_pid = p
       /\ vc[driver_data[arg[p].tty]].vt_newvt # NULL

(* What is known of the console of a process inside VT_RELDISP.             *)
LEMMA ReleasingFacts ==
  ASSUME Inv, SeatInv, OwnInv, NEW p \in Proc, pc[p] = "reldisp"
  PROVE  LET o == driver_data[arg[p].tty]
         IN /\ arg[p].tty \in Slot /\ o \in Obj /\ vc[o].live /\ vc[o].slot = arg[p].tty
            /\ vc[o].slot \in Fds[p] /\ Reachable(vc[o]) /\ vc[o].vt_mode = "VT_PROCESS"
            /\ vc[o].vt_pid = p /\ vc[o].vt_newvt # NULL
            /\ vt[Disp(o)].fg_console = o
<1> DEFINE o == driver_data[arg[p].tty]
<1>1. arg[p] \in Locals /\ o # NULL
  BY DEF Inv, TypeOK, IoctlHoldsTty
<1>2. arg[p].tty \in Slot
  BY <1>1 DEF Locals
<1>3. o \in Obj /\ vc[o].live /\ vc[o].slot = arg[p].tty
  BY <1>1, <1>2 DEF SeatInv, Inv, TypeOK
<1>4. /\ alive[p] /\ arg[p].tty \in Fds[p] /\ vc[o].vt_mode = "VT_PROCESS" /\ vc[o].vt_pid = p
      /\ vc[o].vt_newvt # NULL
  BY DEF OwnInv
<1>5. vt[Disp(o)].fg_console = o
  BY <1>3, <1>4 DEF OwnInv, PendingIsForeground, Visible, Fg
<1> QED  BY <1>2, <1>3, <1>4, <1>5 DEF Reachable

(* A step keeps them.                                                       *)
LEMMA OwnInvStep ==
  ASSUME OneOwner, NoSak, Inv, SeatInv, HandInv, OwnInv, Stays, OwnStep
  PROVE  OwnInv'
<1>1. ASSUME NEW o \in Obj, vc'[o].vt_newvt # NULL
      PROVE  vt'[vc'[o].slot[1]].fg_console = o
  <2>1. vt[Disp(o)].fg_console = o
    <3>1. vc[o].vt_newvt # NULL => vt[Disp(o)].fg_console = o
      BY DEF OwnInv, PendingIsForeground, Visible, Fg
    <3>2. ConsoleStep(o)
      BY DEF OwnStep
    <3> QED  BY <1>1, <3>1, <3>2 DEF ConsoleStep
  <2>2. Disp(o) \in VT
    BY DispFg DEF Inv
  <2>3. vc[o].live
    BY <2>1, <2>2, SeatFacts DEF Fg
  <2>4. vc'[o].slot[1] = Disp(o)
    BY <2>3 DEF Stays, Disp
  <2>5. ~(\E p \in Proc : /\ pc[p] = "reldisp" /\ pc'[p] # "reldisp"
                          /\ Disp(driver_data[arg[p].tty]) = Disp(o)
                          /\ vc'[driver_data[arg[p].tty]].vt_newvt = NULL)
    BY <1>1, <2>1, ReleasingFacts
  <2>6. ScreenStep(Disp(o))
    BY <2>2 DEF OwnStep
  <2> QED  BY <1>1, <2>1, <2>4, <2>5, <2>6 DEF ScreenStep, Fg
<1>2. ASSUME NEW o \in Obj, vc'[o].vt_mode = "VT_PROCESS"
      PROVE  vc'[o].live /\ vc'[o].slot \in Fds[vc'[o].vt_pid]
  <2>1. CASE SameOwner(vc[o], vc'[o])
    <3>1. vc[o].vt_mode = "VT_PROCESS" /\ vc'[o].vt_pid = vc[o].vt_pid
      BY <1>2, <2>1 DEF SameOwner
    <3> QED  BY <3>1 DEF OwnInv, Stays
  <2>2. CASE ~SameOwner(vc[o], vc'[o])
    <3>1. PICK p \in Proc : (\E s \in Fds[p] : driver_data[s] = o) /\ vc'[o].vt_pid = p
      BY <1>2, <2>2 DEF OwnStep, ConsoleStep
    <3>2. PICK s \in Fds[p] : driver_data[s] = o
      BY <3>1
    <3>3. s \in Slot
      BY FdsAssumption
    <3>4. vc[o].live /\ vc[o].slot = s
      BY <3>2, <3>3 DEF SeatInv
    <3> QED  BY <3>1, <3>4 DEF Stays
  <2> QED  BY <2>1, <2>2
<1>3. ASSUME NEW p \in Proc, pc'[p] = "reldisp"
      PROVE  /\ alive'[p] /\ arg'[p].tty \in Fds[p]
             /\ vc'[driver_data'[arg'[p].tty]].vt_mode = "VT_PROCESS"
             /\ vc'[driver_data'[arg'[p].tty]].vt_pid = p
             /\ vc'[driver_data'[arg'[p].tty]].vt_newvt # NULL
  <2>1. CASE /\ pc[p] = "reldisp" /\ arg'[p] = arg[p] /\ alive'[p] = alive[p]
             /\ driver_data'[arg[p].tty] = driver_data[arg[p].tty]
    <3> DEFINE o == driver_data[arg[p].tty]
    <3>1. /\ o \in Obj /\ vc[o].live /\ vc[o].slot \in Fds[p] /\ Reachable(vc[o])
          /\ vc[o].vt_mode = "VT_PROCESS" /\ vc[o].vt_pid = p /\ vc[o].vt_newvt # NULL
          /\ alive[p] /\ arg[p].tty \in Fds[p]
      BY <2>1, ReleasingFacts DEF OwnInv
    <3>2. ASSUME NEW q \in Proc, pc[q] = "idle", NEW s \in Fds[q], driver_data[s] = o PROVE FALSE
      <4>1. s \in Slot
        BY FdsAssumption
      <4>2. vc[o].slot = s
        BY <3>1, <3>2, <4>1 DEF SeatInv
      <4> QED  BY <2>1, <3>1, <3>2, <4>2 DEF OneOwner
    <3>3. ASSUME NEW q \in Proc, pc[q] = "reldisp", pc'[q] # "reldisp",
                 driver_data[arg[q].tty] = o
          PROVE  FALSE
      <4>1. vc[o].slot \in Fds[q]
        BY <3>3, ReleasingFacts
      <4> QED  BY <1>3, <3>1, <3>3, <4>1 DEF OneOwner
    <3>4. ConsoleStep(o)
      BY <3>1 DEF OwnStep
    <3> HIDE DEF o
    <3>5. SameOwner(vc[o], vc'[o]) /\ vc'[o].vt_newvt # NULL
      BY <3>1, <3>2, <3>3, <3>4 DEF ConsoleStep, NoSak
    <3> QED  BY <2>1, <3>1, <3>5 DEF SameOwner, o
  <2>2. CASE /\ UNCHANGED <<vc, driver_data, alive>> /\ alive[p] /\ arg'[p].tty \in Fds[p]
             /\ driver_data[arg'[p].tty] # NULL
             /\ vc[driver_data[arg'[p].tty]].vt_mode = "VT_PROCESS"
             /\ vc[driver_data[arg'[p].tty]].vt_newvt # NULL
    <3> DEFINE s == arg'[p].tty
               o == driver_data[s]
    <3>1. s \in Slot /\ s \in Fds[p]
      BY <2>2, FdsAssumption
    <3>2. o \in Obj /\ vc[o].slot = s
      BY <2>2, <3>1 DEF SeatInv, Inv, TypeOK
    <3>3. vc[o].vt_pid \in Proc /\ vc[o].slot \in Fds[vc[o].vt_pid]
      BY <2>2, <3>2 DEF HandInv, OwnInv
    <3>4. vc[o].vt_pid = p
      BY <3>1, <3>2, <3>3 DEF OneOwner
    <3> QED  BY <2>2, <3>4
  <2>3. Releasing(p)
    BY <1>3 DEF OwnStep, ProcStep
  <2> QED  BY <2>1, <2>2, <2>3 DEF Releasing
<1>4. PendingIsForeground'
  BY <1>1 DEF PendingIsForeground, Visible, Fg, Disp
<1> QED  BY <1>2, <1>3, <1>4 DEF OwnInv

(***************************************************************************)
(* Only the console on the screen can have a switch pending, where every   *)
(* console is open in one process, first consoles stay open, and nothing   *)
(* is freed or reset by SAK: so the VT_RELDISP that answers it releases    *)
(* the screen its process was asked for, and no older request is answered  *)
(* when the console comes up again.                                        *)
(***************************************************************************)
THEOREM PendingOnScreen ==
  NoFreeing /\ FirstKept /\ OneOwner /\ NoSak => (Spec => []PendingIsForeground)
<1> SUFFICES ASSUME NoFreeing, FirstKept, OneOwner, NoSak PROVE Spec => []PendingIsForeground
  OBVIOUS
<1> DEFINE All == Inv /\ SeatInv /\ HandInv /\ OwnInv
<1>1. Init => All
  <2> SUFFICES ASSUME Init PROVE All
    OBVIOUS
  <2>1. Inv /\ SeatInv /\ HandInv
    BY InitInv, InitSeat, InitHand
  <2>2. \A o \in Obj : vc[o].vt_mode = "VT_AUTO" /\ vc[o].vt_newvt = NULL
    BY InitAuto
  <2>3. \A p \in Proc : pc[p] = "idle"
    BY DEF Init, Agent
  <2> QED  BY <2>1, <2>2, <2>3 DEF OwnInv, PendingIsForeground
<1>2. All /\ [Next]_vars => All'
  <2> SUFFICES ASSUME All, [Next]_vars PROVE All'
    OBVIOUS
  <2>1. Inv' /\ Stays /\ OwnStep
    BY NextInv, NextSeat, NextOwn
  <2> QED  BY <2>1, OwnHand, OwnInvStep DEF Stays
<1>3. All => PendingIsForeground
  BY DEF OwnInv
<1> QED  BY <1>1, <1>2, <1>3, PTL DEF Spec

-----------------------------------------------------------------------------
(* Screen blanking, on a machine with one display.                          *)

OneDisplay == NVT = 1

(* KDSETMODE has put the screen into graphics mode and not yet blanked it;  *)
(* an agent sleeps on its own semaphore, and nobody gets it any more.       *)
PendingBlank == \E p \in Proc : pc[p] = "blank_gfx"
Stuck == sem # NULL /\ pc[sem] = "stuck"
FgMode == vc[Fg(0)].mode

(* What keeps a screen b in a mode from waiting for a timer in vain: in     *)
(* graphics mode it does not wait, without a timer and an expiry it does    *)
(* not wait, and while pokes are ignored it does not wait.                  *)
Watched(b, mode, ignore, pending, stuck) ==
  /\ b.state = "normal_wait" /\ mode = "KD_GRAPHICS" => pending \/ stuck
  /\ b.state = "normal_wait" /\ b.interval => b.timer \/ b.expired \/ pending
  /\ b.state = "normal_wait" => ~ignore

ArmedInv == Watched(bl[0], FgMode, ignore_poke, PendingBlank, Stuck)

-----------------------------------------------------------------------------
(* The functions on the blanking state of one display.                      *)

(* A poke arms the timer of a lit text screen, or lights the screen.        *)
LEMMA PokeWatched ==
  ASSUME NEW b \in BlankState, NEW mode \in {"KD_TEXT", "KD_GRAPHICS"}, NEW ignore \in BOOLEAN,
         NEW pending \in BOOLEAN, b.state = "normal_wait" => ~b.blanked,
         b.state = "normal_wait" /\ mode = "KD_GRAPHICS" => pending,
         b.state = "normal_wait" => ~ignore
  PROVE  Watched(poke_blanked_console(b, mode, ignore), mode,
                 ignore /\ ~PokeClears(b, mode, ignore), pending, FALSE)
BY DEF Watched, BlankState, poke_blanked_console, unblank_vt, PokeClears

(* do_blank_screen leaves no screen that waits for its timer.               *)
LEMMA BlankWatched ==
  ASSUME NEW b \in BlankState, NEW m, NEW g, b.state = "normal_wait" => ~b.blanked
  PROVE  do_blank_screen(b, m, g).state # "normal_wait"
BY DEF BlankState, do_blank_screen

(* unblank_vt arms the timer of the screen it lights.                       *)
LEMMA UnblankWatched ==
  ASSUME NEW b \in BlankState, NEW mode \in {"KD_TEXT", "KD_GRAPHICS"},
         NEW pending \in BOOLEAN, NEW stuck \in BOOLEAN,
         b.state = "normal_wait" => ~b.blanked,
         b.state = "normal_wait" /\ mode = "KD_GRAPHICS" => pending \/ stuck,
         b.state = "normal_wait" /\ b.interval => b.timer \/ b.expired \/ pending
  PROVE  Watched(unblank_vt(b, mode), mode, FALSE, pending, stuck)
BY DEF Watched, BlankState, unblank_vt

-----------------------------------------------------------------------------
(* A step that changes no screen keeps the timer where it is.               *)
LEMMA QuietArmed ==
  ASSUME ArmedInv, UNCHANGED <<bl, ignore_poke>>, FgMode' \in {FgMode, "KD_TEXT"},
         PendingBlank => PendingBlank', Stuck => Stuck'
  PROVE  ArmedInv'
BY DEF ArmedInv, Watched

(* Types of what the invariant is about.                                    *)
LEMMA ScreenTypes ==
  ASSUME Inv, OneDisplay
  PROVE  /\ 0 \in VT /\ \A t \in VT : t = 0
         /\ bl[0] \in BlankState /\ (bl[0].state = "normal_wait" => ~bl[0].blanked)
         /\ Fg(0) \in Obj /\ FgMode \in {"KD_TEXT", "KD_GRAPHICS"}
         /\ ignore_poke \in BOOLEAN /\ PendingBlank \in BOOLEAN /\ Stuck \in BOOLEAN
<1>1. 0 \in VT /\ \A t \in VT : t = 0
  BY DEF OneDisplay, VT
<1>2. bl[0] \in BlankState /\ (bl[0].state = "normal_wait" => ~bl[0].blanked)
  BY <1>1 DEF Inv, TypeOK, BlankStateSound
<1>3. vt[0] \in VtStruct
  BY <1>1 DEF Inv, TypeOK
<1>4. Fg(0) \in Obj
  BY <1>3 DEF Fg, VtStruct
<1>5. vc[Fg(0)] \in VcData
  BY <1>4 DEF Inv, TypeOK
<1>6. FgMode \in {"KD_TEXT", "KD_GRAPHICS"}
  BY <1>5 DEF FgMode, VcData
<1> QED  BY <1>1, <1>2, <1>4, <1>6 DEF Inv, TypeOK, PendingBlank, Stuck

(* Agents that stay, or enter or leave an ioctl other than KDSETMODE.       *)
LEMMA AgentsWait ==
  ASSUME TypeOK, NEW a \in Agent, NEW l, pc' = [pc EXCEPT ![a] = l], UNCHANGED sem,
         pc[a] \notin {"blank_gfx", "stuck"}
  PROVE  (PendingBlank => PendingBlank') /\ (Stuck => Stuck')
<1>1. \A q \in Agent \ {a} : pc'[q] = pc[q]
  BY DEF TypeOK
<1>2. PendingBlank => PendingBlank'
  <2> SUFFICES ASSUME NEW p \in Proc, pc[p] = "blank_gfx" PROVE PendingBlank'
    BY DEF PendingBlank
  <2>1. p \in Agent \ {a}
    BY DEF Agent
  <2> QED  BY <1>1, <2>1 DEF PendingBlank
<1>3. Stuck => Stuck'
  BY <1>1 DEF Stuck, TypeOK
<1> QED  BY <1>2, <1>3

(* A console in the foreground that changes otherwise than by its mode.     *)
LEMMA SameMode ==
  ASSUME Inv, OneDisplay, vt'[0].fg_console = vt[0].fg_console,
         NEW o \in Obj, NEW d, vc' = [vc EXCEPT ![o] = d], d.mode \in {vc[o].mode, "KD_TEXT"}
  PROVE  FgMode' \in {FgMode, "KD_TEXT"}
<1>1. Fg(0) \in Obj /\ Fg(0)' = Fg(0)
  BY ScreenTypes DEF Fg
<1>2. vc'[Fg(0)].mode \in {vc[Fg(0)].mode, "KD_TEXT"}
  BY <1>1 DEF Inv, TypeOK
<1> QED  BY <1>1, <1>2 DEF FgMode

(* A switch shows a console of the same mode, or a reset one, on the same   *)
(* screen; or its agent sleeps on its own semaphore from then on.           *)
LEMMA CompleteArmed ==
  ASSUME Inv, OneDisplay, ArmedInv, sem = NULL,
         NEW self \in Agent, pc[self] # "blank_gfx", NEW new \in Obj, NEW old \in Obj,
         NEW consoles, Sound(consoles), consoles[old].mode \in {FgMode, "KD_TEXT"},
         NEW displays \in [VT -> VtStruct], NEW after \in {"locked", "idle"},
         complete_change_console(self, new, old, consoles, displays, after),
         NestedAcquire(new, old, consoles) => sem' = self
  PROVE  ArmedInv'
<1> DEFINE t    == consoles[new].slot[1]
           gone == consoles[new].vt_mode = "VT_PROCESS" /\ ~Reachable(consoles[new])
           back == gone /\ consoles[old].mode # "KD_TEXT"
<1>0. 0 \in VT /\ (\A q \in VT : q = 0) /\ ~Stuck
  BY ScreenTypes DEF Stuck
<1>1. consoles[new] \in VcData /\ t = 0
  BY <1>0, SlotParts DEF Sound, VcData
<1>2. Fg(0)' = new
  <2>1. vt' = [displays EXCEPT ![0] = [@ EXCEPT !.last_console = old, !.fg_console = new]]
    BY <1>1 DEF complete_change_console
  <2>2. displays[0] \in VtStruct
    BY <1>0
  <2>3. vt'[0].fg_console = new
    BY <1>0, <2>1, <2>2 DEF VtStruct
  <2> QED  BY <2>3 DEF Fg
<1>3. PendingBlank => PendingBlank'
  <2> SUFFICES ASSUME NEW p \in Proc, pc[p] = "blank_gfx" PROVE pc'[p] = "blank_gfx"
    BY DEF PendingBlank
  <2>1. p \in Agent /\ p # self
    BY DEF Agent
  <2> QED  BY <2>1 DEF complete_change_console, wake_up, Inv, TypeOK
<1>4. CASE NestedAcquire(new, old, consoles)
  <2>1. pc' = [pc EXCEPT ![self] = "stuck"] /\ sem' = self /\ UNCHANGED <<bl, ignore_poke>>
    BY <1>4 DEF complete_change_console
  <2>2. Stuck'
    BY <2>1 DEF Stuck, Inv, TypeOK, Agent
  <2> QED  BY <2>1, <2>2, <1>3 DEF ArmedInv, Watched
<1>5. CASE ~NestedAcquire(new, old, consoles)
  <2>1. /\ vc' = IF gone THEN [consoles EXCEPT ![new] = reset_vc(consoles[new])] ELSE consoles
        /\ bl' = IF back THEN [bl EXCEPT ![t] = unblank_vt(bl[t], "KD_TEXT")] ELSE bl
        /\ ignore_poke' = (ignore_poke /\ ~back)
    BY <1>5 DEF complete_change_console
  <2>2. gone => FgMode' = "KD_TEXT"
    BY <1>1, <1>2, <2>1 DEF FgMode, Sound, reset_vc, VcData
  <2>3. ~gone => FgMode' = consoles[old].mode
    BY <1>2, <1>5, <2>1 DEF FgMode, NestedAcquire
  <2>4. CASE back
    <3>1. bl'[0] = unblank_vt(bl[0], "KD_TEXT")
      BY <1>0, <1>1, <2>1, <2>4 DEF Inv, TypeOK
    <3>2. ignore_poke' = FALSE /\ FgMode' = "KD_TEXT"
      BY <2>1, <2>2, <2>4
    <3>3. bl[0].state = "normal_wait" /\ bl[0].interval => bl[0].timer \/ bl[0].expired \/ PendingBlank'
      BY <1>3 DEF ArmedInv, Watched
    <3>4. PendingBlank' \in BOOLEAN /\ Stuck' \in BOOLEAN
      BY DEF PendingBlank, Stuck
    <3>5. Watched(unblank_vt(bl[0], "KD_TEXT"), "KD_TEXT", FALSE, PendingBlank', Stuck')
      <4> HIDE DEF PendingBlank, Stuck
      <4>1. bl[0] \in BlankState /\ (bl[0].state = "normal_wait" => ~bl[0].blanked)
        BY ScreenTypes
      <4> QED  BY <3>3, <3>4, <4>1, UnblankWatched
    <3> QED  BY <3>1, <3>2, <3>5 DEF ArmedInv
  <2>5. CASE ~back
    <3>1. UNCHANGED <<bl, ignore_poke>>
      BY <2>1, <2>5 DEF Inv, TypeOK
    <3>2. FgMode' \in {FgMode, "KD_TEXT"}
      BY <2>2, <2>3
    <3> QED  BY <1>0, <1>3, <3>1, <3>2, QuietArmed
  <2> QED  BY <2>4, <2>5
<1> QED  BY <1>4, <1>5

(* vt_callback.                                                             *)
LEMMA CallbackArmed ==
  ASSUME Inv, OneDisplay, ArmedInv, NEW t \in VT, vt_callback(t)
  PROVE  ArmedInv'
<1>0. t = 0 /\ t \in Agent /\ pc[t] # "blank_gfx" /\ bl[0] \in BlankState /\ Fg(0) \in Obj
  BY ScreenTypes DEF Agent, Inv, TypeOK, CallbackPc
<1>1. CASE CallbackStart(t)
  <2>1. /\ vt' = [vt EXCEPT ![t].work = FALSE] /\ UNCHANGED <<vc, bl, ignore_poke, sem>>
        /\ pc[t] = "idle" /\ \E l : pc' = [pc EXCEPT ![t] = l]
    BY <1>1 DEF CallbackStart
  <2>2. Fg(0)' = Fg(0)
    BY <1>0, <2>1 DEF Fg, Inv, TypeOK, VtStruct
  <2>3. FgMode' = FgMode
    BY <2>1, <2>2 DEF FgMode
  <2> QED  BY <1>0, <2>1, <2>3, AgentsWait, QuietArmed DEF Inv
<1>2. CASE CallbackSwitch(t)
  <2>1. sem = NULL /\ sem' = t /\ pc[t] = "acquire" /\ ~Stuck
    BY <1>2 DEF CallbackSwitch, SwitchHoldingSem, Stuck
  <2>2. ASSUME pc' = [pc EXCEPT ![t] = "locked"], UNCHANGED <<vt, bl, ignore_poke>>,
               FgMode' \in {FgMode, "KD_TEXT"}
        PROVE  ArmedInv'
    <3>1. PendingBlank => PendingBlank'
      <4> SUFFICES ASSUME NEW p \in Proc, pc[p] = "blank_gfx" PROVE pc'[p] = "blank_gfx"
        BY DEF PendingBlank
      <4>1. p \in Agent /\ p # t
        BY <2>1 DEF Agent
      <4> QED  BY <4>1, <2>2 DEF Inv, TypeOK
    <3> QED  BY <2>1, <2>2, <3>1, QuietArmed
  <2> DEFINE new == vt[t].want_vc
             old == Fg(t)
             cons == IF vc[old].vt_mode = "VT_PROCESS"
                       THEN [vc EXCEPT ![old] = reset_vc(vc[old])] ELSE vc
  <2>3. /\ new \in Obj /\ old \in Obj /\ vc[old] \in VcData /\ FgMode = vc[old].mode
        /\ vt \in [VT -> VtStruct] /\ Sound(vc)
    <3>1. vt[t] \in VtStruct
      BY DEF Inv, TypeOK
    <3>2. new \in Obj /\ old \in Obj
      BY <3>1 DEF VtStruct, Fg
    <3> QED  BY <1>0, <3>2 DEF Inv, TypeOK, Sound, PendingSwitch, FgMode
  <2>4. \/ change_console(t, new, old)
        \/ pc' = [pc EXCEPT ![t] = "locked"] /\ UNCHANGED <<vc, vt, bl, ignore_poke>>
    BY <1>2 DEF CallbackSwitch, SwitchHoldingSem
  <2>5. CASE pc' = [pc EXCEPT ![t] = "locked"] /\ UNCHANGED <<vc, vt, bl, ignore_poke>>
    <3>1. FgMode' = FgMode
      BY <2>5 DEF FgMode, Fg
    <3> QED  BY <2>2, <2>5, <3>1
  <2>6. Sound(cons) /\ cons[old].mode \in {FgMode, "KD_TEXT"}
    <3>1. Sound(cons)
      BY <2>3, ResetSound
    <3>2. reset_vc(vc[old]).mode = "KD_TEXT"
      BY <2>3 DEF reset_vc, VcData
    <3> QED  BY <2>3, <3>1, <3>2 DEF Inv, TypeOK
  <2>7. CASE pc' = [pc EXCEPT ![t] = "locked"] /\ UNCHANGED <<vt, bl, ignore_poke>>
             /\ vc' \in {[vc EXCEPT ![old].vt_newvt = vc[new].slot], cons}
    <3>1. Fg(0)' = Fg(0)
      BY <2>7 DEF Fg
    <3>2. vc'[old].mode \in {FgMode, "KD_TEXT"}
      <4>1. [vc[old] EXCEPT !.vt_newvt = vc[new].slot].mode = vc[old].mode
        BY <2>3 DEF VcData
      <4> QED  BY <2>3, <2>6, <2>7, <4>1 DEF Inv, TypeOK
    <3>3. FgMode' \in {FgMode, "KD_TEXT"}
      BY <1>0, <3>1, <3>2 DEF FgMode
    <3> QED  BY <2>2, <2>7, <3>3
  <2>8. CASE complete_change_console(t, new, old, cons, vt, "locked")
    <3> HIDE DEF cons, new, old
    <3> QED  BY <1>0, <2>1, <2>3, <2>6, <2>8, CompleteArmed
  <2> QED  BY <2>4, <2>5, <2>7, <2>8 DEF change_console
<1>3. CASE CallbackFinish(t)
  <2> DEFINE mode == vc[Fg(t)].mode
             poked == IF poke THEN poke_blanked_console(bl[t], mode, ignore_poke) ELSE bl[t]
             ignored == ignore_poke /\ ~(poke /\ PokeClears(bl[t], mode, ignore_poke))
  <2>1. /\ pc[t] = "locked" /\ vt' = [vt EXCEPT ![t].scroll = FALSE] /\ UNCHANGED vc
        /\ ignore_poke' = ignored /\ pc' = [pc EXCEPT ![t] = "idle"]
        /\ bl' = [bl EXCEPT ![t] =
                    IF poked.expired
                      THEN [do_blank_screen(poked, mode, FALSE) EXCEPT !.expired = FALSE]
                      ELSE poked]
    BY <1>3 DEF CallbackFinish
  <2>2. Fg(0)' = Fg(0)
    BY <1>0, <2>1 DEF Fg, Inv, TypeOK, VtStruct
  <2>3. FgMode' = FgMode /\ mode = FgMode
    BY <1>0, <2>1, <2>2 DEF FgMode
  <2>4. PendingBlank' <=> PendingBlank
    <3>1. \A p \in Proc : p \in Agent /\ p # t
      BY DEF Agent
    <3> QED  BY <2>1, <3>1 DEF PendingBlank, Inv, TypeOK
  <2>5. ~Stuck
    <3>1. sem = t
      BY <1>0, <2>1 DEF Inv, MutualExclusion
    <3> QED  BY <2>1, <3>1 DEF Stuck
  <2>6. Watched(poked, mode, ignored, PendingBlank, FALSE)
    <3> HIDE DEF PendingBlank, Stuck, FgMode
    <3>1. CASE poke
      BY <1>0, <2>3, <2>5, <3>1, ScreenTypes, PokeWatched DEF ArmedInv, Watched
    <3>2. CASE ~poke
      BY <1>0, <2>3, <2>5, <3>2 DEF ArmedInv, Watched
    <3> QED  BY <3>1, <3>2
  <2>7. poked \in BlankState /\ (poked.state = "normal_wait" => ~poked.blanked)
    BY <1>0, ScreenTypes, PokeType
  <2> DEFINE b == do_blank_screen(poked, mode, FALSE)
  <2>8. b \in BlankState /\ b.state # "normal_wait"
    BY <2>7, BlankType, BlankWatched
  <2>9. [b EXCEPT !.expired = FALSE].state # "normal_wait"
    BY <2>8 DEF BlankState
  <2>10. bl'[0] = IF poked.expired THEN [b EXCEPT !.expired = FALSE] ELSE poked
    BY <1>0, <2>1 DEF Inv, TypeOK
  <2>11. CASE poked.expired
    BY <2>9, <2>10, <2>11 DEF ArmedInv, Watched
  <2>12. CASE ~poked.expired
    <3>1. bl'[0] = poked /\ ignore_poke' = ignored /\ FgMode' = mode
      BY <2>1, <2>3, <2>10, <2>12
    <3> HIDE DEF poked, ignored, mode, PendingBlank, Stuck, FgMode
    <3> QED  BY <2>4, <2>6, <3>1 DEF ArmedInv, Watched
  <2> QED  BY <2>11, <2>12
<1> QED  BY <1>1, <1>2, <1>3 DEF vt_callback

(* Screens and agents that stay, consoles that keep their modes.            *)
LEMMA StillArmed ==
  ASSUME Inv, OneDisplay, ArmedInv, Showing(vt, vt'),
         UNCHANGED <<bl, ignore_poke>>, \A o \in Obj : vc'[o].mode \in {vc[o].mode, "KD_TEXT"},
         PendingBlank => PendingBlank', Stuck => Stuck'
  PROVE  ArmedInv'
<1>1. Fg(0) \in Obj /\ Fg(0)' = Fg(0)
  BY ScreenTypes DEF Showing, Fg
<1>2. FgMode' \in {FgMode, "KD_TEXT"}
  BY <1>1 DEF FgMode
<1> QED  BY <1>2, QuietArmed

(* The timer and the keyboard.                                              *)
LEMMA InterruptArmed ==
  ASSUME Inv, OneDisplay, ArmedInv, NEW t \in VT, blank_screen_t(t) \/ Keyboard(t)
  PROVE  ArmedInv'
<1>1. Showing(vt, vt') /\ UNCHANGED <<pc, sem>>
  BY InterruptShows
<1>2. (PendingBlank => PendingBlank') /\ (Stuck => Stuck')
  BY <1>1 DEF PendingBlank, Stuck
<1>3. CASE Keyboard(t)
  <2>1. UNCHANGED <<bl, ignore_poke>>
    BY <1>3 DEF Keyboard, KeyPlain, k_cons, fn_lastcons, fn_inc_console, fn_scroll, fn_SAK, kbd_event
  <2>2. vc' = vc \/ vc' = [vc EXCEPT ![Fg(t)] = reset_vc(vc[Fg(t)])]
    BY <1>3 DEF Keyboard, KeyPlain, k_cons, fn_lastcons, fn_inc_console, fn_scroll, fn_SAK, kbd_event
  <2>3. \A c \in VcData : reset_vc(c).mode = "KD_TEXT"
    BY DEF reset_vc, VcData
  <2>4. \A o \in Obj : vc'[o].mode \in {vc[o].mode, "KD_TEXT"}
    BY <2>2, <2>3 DEF Inv, TypeOK
  <2> QED  BY <1>1, <1>2, <2>1, <2>4, StillArmed
<1>4. CASE blank_screen_t(t)
  <2>1. /\ UNCHANGED <<vc, ignore_poke>> /\ t = 0
        /\ bl' = [bl EXCEPT ![0] = [@ EXCEPT !.timer = FALSE, !.expired = TRUE]]
    BY <1>4, ScreenTypes DEF blank_screen_t
  <2>2. bl'[0] = [bl[0] EXCEPT !.timer = FALSE, !.expired = TRUE]
    BY <2>1 DEF Inv, TypeOK
  <2>3. bl'[0].state = bl[0].state /\ bl'[0].expired
    BY <2>2, ScreenTypes DEF BlankState
  <2>4. FgMode' = FgMode
    BY <1>1, <2>1 DEF FgMode, Fg, Showing
  <2> QED  BY <1>2, <2>1, <2>3, <2>4 DEF ArmedInv, Watched
<1> QED  BY <1>3, <1>4

(* A poke, by whoever can take the semaphore.                               *)
LEMMA PokeArmed ==
  ASSUME Inv, OneDisplay, ArmedInv, NEW b \in BlankState, b.state = bl[0].state,
         b.blanked = bl[0].blanked, Poke(0, b), sem = NULL, UNCHANGED <<vc, vt, pc>>
  PROVE  ArmedInv'
<1>1. ~Stuck /\ 0 \in VT
  BY ScreenTypes DEF Stuck
<1>2. FgMode' = FgMode /\ PendingBlank' = PendingBlank
  BY DEF FgMode, Fg, PendingBlank
<1>3. /\ bl'[0] = poke_blanked_console(b, FgMode, ignore_poke)
      /\ ignore_poke' = (ignore_poke /\ ~PokeClears(b, FgMode, ignore_poke))
  BY <1>1 DEF Poke, FgMode, Inv, TypeOK
<1>4. /\ b.state = "normal_wait" => ~b.blanked
      /\ b.state = "normal_wait" /\ FgMode = "KD_GRAPHICS" => PendingBlank
      /\ b.state = "normal_wait" => ~ignore_poke
  BY <1>1, ScreenTypes DEF ArmedInv, Watched
<1>5. Watched(bl'[0], FgMode, ignore_poke', PendingBlank, FALSE)
  <2> HIDE DEF FgMode, PendingBlank
  <2> QED  BY <1>3, <1>4, ScreenTypes, PokeWatched
<1>6. Watched(bl'[0], FgMode, ignore_poke', PendingBlank, Stuck')
  BY <1>5 DEF Watched
<1> QED  BY <1>2, <1>6 DEF ArmedInv

(* KDSETMODE: in graphics mode the blanking is to come.                     *)
LEMMA ModeArmed ==
  ASSUME Inv, OneDisplay, ArmedInv, NEW p \in Proc, NEW s \in Slot,
         \/ KDSETMODE(p, s, "KD_GRAPHICS", "KDSETMODE_GRAPHICS", "blank_gfx")
         \/ KDSETMODE(p, s, "KD_TEXT", "KDSETMODE_TEXT", "unblank")
  PROVE  ArmedInv'
<1> DEFINE o == driver_data[s]
<1>1. /\ pc[p] = "idle" /\ o \in Obj /\ Disp(o) = 0 /\ p \in Agent /\ vc[o] \in VcData
      /\ UNCHANGED <<vt, bl, ignore_poke, sem>>
  BY ScreenTypes, CallFacts DEF KDSETMODE, Agent, Inv, TypeOK
<1>2. \A l, a, d : Enter(p, l, s, a, d) => (PendingBlank => PendingBlank') /\ (Stuck => Stuck')
  BY <1>1, AgentsWait DEF Enter, Inv
<1>3. UNCHANGED <<pc, arg>> => (PendingBlank => PendingBlank') /\ (Stuck => Stuck')
  BY <1>1 DEF PendingBlank, Stuck
<1>4. (PendingBlank => PendingBlank') /\ (Stuck => Stuck')
  BY <1>2, <1>3 DEF KDSETMODE
<1>5. Fg(0) \in Obj /\ Fg(0)' = Fg(0)
  BY <1>1, ScreenTypes DEF Fg
<1>6. \A m \in {"KD_TEXT", "KD_GRAPHICS"} : [vc[o] EXCEPT !.mode = m].mode = m
  BY <1>1 DEF VcData
<1>7. CASE KDSETMODE(p, s, "KD_TEXT", "KDSETMODE_TEXT", "unblank")
  <2>1. vc' = [vc EXCEPT ![o].mode = "KD_TEXT"]
    BY <1>7 DEF KDSETMODE
  <2>2. FgMode' \in {FgMode, "KD_TEXT"}
    BY <1>1, <1>5, <1>6, <2>1 DEF FgMode, Inv, TypeOK
  <2> QED  BY <1>1, <1>4, <2>2, QuietArmed
<1>8. CASE KDSETMODE(p, s, "KD_GRAPHICS", "KDSETMODE_GRAPHICS", "blank_gfx")
  <2>1. vc' = [vc EXCEPT ![o].mode = "KD_GRAPHICS"]
    BY <1>8 DEF KDSETMODE
  <2>2. CASE Visible(o)
    <3>1. pc' = [pc EXCEPT ![p] = "blank_gfx"]
      BY <1>8, <2>2 DEF KDSETMODE, Enter
    <3>2. PendingBlank'
      BY <1>1, <3>1 DEF PendingBlank, Inv, TypeOK
    <3> QED  BY <1>1, <3>2 DEF ArmedInv, Watched
  <2>3. CASE ~Visible(o)
    <3>1. Fg(0) # o
      BY <1>1, <2>3 DEF Visible
    <3>2. FgMode' = FgMode
      BY <1>5, <2>1, <3>1 DEF FgMode, Inv, TypeOK
    <3> QED  BY <1>1, <1>4, <3>2, QuietArmed
  <2> QED  BY <2>2, <2>3
<1> QED  BY <1>7, <1>8

(* The blanking requests of a process.                                      *)
LEMMA BlankCallArmed ==
  ASSUME Inv, OneDisplay, ArmedInv, NEW p \in Proc, NEW s \in Slot,
         TIOCL_BLANKSCREEN(p, s) \/ TIOCL_UNBLANKSCREEN(p, s)
  PROVE  ArmedInv'
<1>1. Disp(driver_data[s]) = 0 /\ 0 \in VT /\ UNCHANGED <<vc, vt, pc, sem>>
  BY ScreenTypes, CallFacts DEF TIOCL_BLANKSCREEN, TIOCL_UNBLANKSCREEN
<1>2. FgMode' = FgMode /\ PendingBlank' = PendingBlank /\ Stuck' = Stuck
  BY <1>1 DEF FgMode, Fg, PendingBlank, Stuck
<1>3. CASE TIOCL_BLANKSCREEN(p, s)
  <2>1. bl'[0] = do_blank_screen(bl[0], FgMode, FALSE)
    BY <1>1, <1>3 DEF TIOCL_BLANKSCREEN, FgMode, Inv, TypeOK
  <2>2. bl'[0].state # "normal_wait"
    BY <2>1, ScreenTypes, BlankWatched
  <2> QED  BY <2>2 DEF ArmedInv, Watched
<1>4. CASE TIOCL_UNBLANKSCREEN(p, s)
  <2>1. bl'[0] = unblank_vt(bl[0], FgMode) /\ ignore_poke' = FALSE
    BY <1>1, <1>4 DEF TIOCL_UNBLANKSCREEN, FgMode
  <2>2. Watched(unblank_vt(bl[0], FgMode), FgMode, FALSE, PendingBlank, Stuck)
    <3> HIDE DEF FgMode, PendingBlank, Stuck
    <3> QED  BY ScreenTypes, UnblankWatched DEF ArmedInv, Watched
  <2> QED  BY <1>2, <2>1, <2>2 DEF ArmedInv
<1> QED  BY <1>3, <1>4

(* The setterm escape sequences.                                            *)
LEMMA SettermArmed ==
  ASSUME Inv, OneDisplay, ArmedInv, NEW p \in Proc, NEW s \in Slot, vte_setterm(p, s)
  PROVE  ArmedInv'
<1>1. Disp(driver_data[s]) = 0 /\ 0 \in VT /\ sem = NULL /\ UNCHANGED <<vc, pc, sem>>
  BY ScreenTypes, CallFacts DEF vte_setterm
<1>2. Showing(vt, vt')
  BY CallShows DEF Call
<1>3. (PendingBlank => PendingBlank') /\ (Stuck => Stuck')
  BY <1>1 DEF PendingBlank, Stuck
<1>4. bl[0] \in BlankState
  BY ScreenTypes
<1>5. CASE \E on \in BOOLEAN : Poke(0, [bl[0] EXCEPT !.interval = on]) /\ UNCHANGED vt
  <2>1. PICK on \in BOOLEAN : Poke(0, [bl[0] EXCEPT !.interval = on]) /\ UNCHANGED vt
    BY <1>5
  <2> DEFINE b == [bl[0] EXCEPT !.interval = on]
  <2>2. b \in BlankState /\ b.state = bl[0].state /\ b.blanked = bl[0].blanked
    BY <1>4 DEF BlankState
  <2> HIDE DEF b
  <2>3. Poke(0, b)
    BY <2>1 DEF b
  <2> QED  BY <1>1, <2>1, <2>2, <2>3, PokeArmed
<1>6. CASE Poke(0, bl[0]) /\ UNCHANGED vt
  BY <1>1, <1>4, <1>6, PokeArmed
<1>7. CASE \E on \in BOOLEAN : bl' = [bl EXCEPT ![0].off_interval = on] /\ UNCHANGED <<vt, ignore_poke>>
  <2>1. PICK on \in BOOLEAN : bl' = [bl EXCEPT ![0].off_interval = on] /\ UNCHANGED <<vt, ignore_poke>>
    BY <1>7
  <2>2. bl'[0] = [bl[0] EXCEPT !.off_interval = on]
    BY <1>1, <2>1 DEF Inv, TypeOK
  <2>3. /\ bl'[0].state = bl[0].state /\ bl'[0].interval = bl[0].interval
        /\ bl'[0].timer = bl[0].timer /\ bl'[0].expired = bl[0].expired
    BY <1>4, <2>2 DEF BlankState
  <2>4. FgMode' = FgMode
    BY <1>1, <2>1 DEF FgMode, Fg
  <2> QED  BY <1>3, <2>1, <2>3, <2>4 DEF ArmedInv, Watched
<1>8. CASE UNCHANGED <<bl, ignore_poke>>
  BY <1>1, <1>2, <1>3, <1>8, StillArmed
<1> QED  BY <1>1, <1>5, <1>6, <1>7, <1>8 DEF vte_setterm

(* The calls that touch no mode and no screen.                              *)
LEMMA OtherCallArmed ==
  ASSUME Inv, OneDisplay, ArmedInv, NEW p \in Proc, NEW s \in Slot, Call(p, s),
         \/ \E m \in {"VT_AUTO", "VT_PROCESS"} : VT_SETMODE(p, s, m)
         \/ \E d \in Slot : VT_ACTIVATE(p, s, d) \/ VT_WAITACTIVE(p, s, d) \/ VT_DISALLOCATE(p, s, d)
         \/ VT_DISALLOCATE_ALL(p, s)
         \/ \E ok \in BOOLEAN : VT_RELDISP(p, s, ok) \/ VT_LOCKSWITCH(p, s, ok)
  PROVE  ArmedInv'
<1>1. UNCHANGED <<bl, ignore_poke, sem>>
  BY DEF VT_SETMODE, VT_ACTIVATE, VT_WAITACTIVE, VT_DISALLOCATE, VT_DISALLOCATE_ALL, VT_RELDISP,
     VT_LOCKSWITCH
<1>2. Showing(vt, vt') /\ pc[p] = "idle" /\ p \in Agent
  BY CallShows DEF Agent
<1>3. (PendingBlank => PendingBlank') /\ (Stuck => Stuck')
  <2>1. UNCHANGED pc \/ \E l, a, d : Enter(p, l, s, a, d)
    BY DEF VT_SETMODE, VT_ACTIVATE, VT_WAITACTIVE, VT_DISALLOCATE, VT_DISALLOCATE_ALL, VT_RELDISP,
     VT_LOCKSWITCH
  <2>2. CASE UNCHANGED pc
    BY <1>1, <2>2 DEF PendingBlank, Stuck
  <2>3. CASE \E l, a, d : Enter(p, l, s, a, d)
    BY <1>1, <1>2, <2>3, AgentsWait DEF Enter, Inv
  <2> QED  BY <2>1, <2>2, <2>3
<1>4. \A o \in Obj : vc'[o].mode = vc[o].mode
  <2> DEFINE o == driver_data[s]
  <2>1. o \in Obj /\ vc[o] \in VcData
    BY CallFacts DEF Inv, TypeOK, VT_SETMODE, VT_ACTIVATE, VT_WAITACTIVE, VT_DISALLOCATE,
       VT_DISALLOCATE_ALL, VT_RELDISP, VT_LOCKSWITCH
  <2>2. /\ \A m : [vc[o] EXCEPT !.vt_mode = m, !.vt_pid = p, !.vt_newvt = NULL].mode = vc[o].mode
        /\ [vc[o] EXCEPT !.vt_newvt = NULL].mode = vc[o].mode
        /\ \A c \in VcData : [c EXCEPT !.live = FALSE].mode = c.mode
    BY <2>1 DEF VcData
  <2>3. CASE \E m : VT_SETMODE(p, s, m)
    BY <2>1, <2>2, <2>3 DEF VT_SETMODE, Inv, TypeOK
  <2>4. CASE \E ok : VT_RELDISP(p, s, ok)
    BY <2>1, <2>2, <2>4 DEF VT_RELDISP, Inv, TypeOK
  <2>5. CASE VT_DISALLOCATE_ALL(p, s)
    BY <2>2, <2>5 DEF VT_DISALLOCATE_ALL, vc_disallocate, Inv, TypeOK
  <2> QED  BY <2>3, <2>4, <2>5 DEF VT_ACTIVATE, VT_WAITACTIVE, VT_DISALLOCATE, VT_LOCKSWITCH
<1> QED  BY <1>1, <1>2, <1>3, <1>4, StillArmed

(* The second half of KDSETMODE blanks, or unblanks, the screen.            *)
LEMMA ModeLockedArmed ==
  ASSUME Inv, OneDisplay, ArmedInv, NEW p \in Proc, KDSETMODE_LOCKED(p)
  PROVE  ArmedInv'
<1> DEFINE t == Disp(driver_data[arg[p].tty])
<1>1. pc[p] \in {"unblank", "blank_gfx"} /\ sem = NULL /\ UNCHANGED <<vc, vt, sem>> /\ Return(p)
  BY DEF KDSETMODE_LOCKED
<1>2. t = 0 /\ 0 \in VT /\ p \in Agent
  <2>1. arg[p] \in Locals /\ driver_data[arg[p].tty] # NULL
    BY <1>1 DEF Inv, IoctlHoldsTty, TypeOK
  <2>2. arg[p].tty \in Slot
    BY <2>1 DEF Locals
  <2>3. driver_data[arg[p].tty] \in Obj /\ TypeOK
    BY <2>1, <2>2 DEF Inv, TypeOK
  <2>4. t \in VT
    BY <2>3, DispFg
  <2> QED  BY <2>4, ScreenTypes DEF Agent
<1>3. FgMode' = FgMode /\ ~Stuck
  BY <1>1 DEF FgMode, Fg, Stuck
<1>4. CASE pc[p] = "blank_gfx"
  <2>1. bl'[0] = do_blank_screen(bl[0], FgMode, TRUE)
    BY <1>2, <1>4 DEF KDSETMODE_LOCKED, FgMode, Inv, TypeOK
  <2>2. bl'[0].state # "normal_wait"
    BY <2>1, ScreenTypes, BlankWatched
  <2> QED  BY <2>2 DEF ArmedInv, Watched
<1>5. CASE pc[p] = "unblank"
  <2>1. bl'[0] = unblank_vt(bl[0], FgMode) /\ ignore_poke' = FALSE
    BY <1>2, <1>5 DEF KDSETMODE_LOCKED, FgMode, Inv, TypeOK
  <2>2. Watched(unblank_vt(bl[0], FgMode), FgMode, FALSE, PendingBlank, Stuck)
    <3> HIDE DEF FgMode, PendingBlank, Stuck
    <3> QED  BY ScreenTypes, UnblankWatched DEF ArmedInv, Watched
  <2>3. PendingBlank => PendingBlank'
    BY <1>1, <1>2, <1>5, AgentsWait DEF Return, Inv
  <2> QED  BY <1>3, <2>1, <2>2, <2>3 DEF ArmedInv, Watched
<1> QED  BY <1>1, <1>4, <1>5

(* A console is allocated, and may become the one on the screen.            *)
LEMMA AllocateArmed ==
  ASSUME Inv, OneDisplay, ArmedInv, NEW s \in Slot, NEW o \in FreeObj, NEW open \in BOOLEAN,
         vc_allocate(s, o, open), vt'[0].fg_console \in {vt[0].fg_console, o},
         UNCHANGED <<bl, ignore_poke>>, PendingBlank => PendingBlank', Stuck => Stuck'
  PROVE  ArmedInv'
<1>1. o \in Obj /\ vc' = [vc EXCEPT ![o] = NewVc(s, open)] /\ Fg(0) \in Obj
  BY ScreenTypes DEF vc_allocate, FreeObj
<1>2. vc'[o].mode = "KD_TEXT" /\ \A q \in Obj : vc'[q].mode \in {vc[q].mode, "KD_TEXT"}
  BY <1>1 DEF NewVc, Inv, TypeOK
<1>3. FgMode' \in {FgMode, "KD_TEXT"}
  BY <1>1, <1>2 DEF FgMode, Fg
<1> QED  BY <1>3, QuietArmed

(* VT_ACTIVATE of a console that is not there.                              *)
LEMMA ActivateLockedArmed ==
  ASSUME Inv, OneDisplay, ArmedInv, NEW p \in Proc, VT_ACTIVATE_LOCKED(p)
  PROVE  ArmedInv'
<1> DEFINE d == arg[p].slot
           made(o) == Claimed(vt, d, o)
           e(o) == [made(o)[d[1]] EXCEPT !.want_vc = o, !.work = TRUE]
<1>1. Return(p) /\ pc[p] = "activate" /\ UNCHANGED <<sem, bl, ignore_poke>> /\ p \in Agent
  BY DEF VT_ACTIVATE_LOCKED, Agent
<1>2. (PendingBlank => PendingBlank') /\ (Stuck => Stuck')
  BY <1>1, AgentsWait DEF Return, Inv
<1>3. 0 \in VT /\ vt \in [VT -> VtStruct] /\ TypeOK
  BY ScreenTypes DEF Inv, TypeOK
<1>4. d \in Slot
  BY <1>1 DEF Inv, TypeOK, IoctlHoldsTty, Locals
<1>5. CASE UNCHANGED <<vc, vc_cons, vt>>
  <2>1. Showing(vt, vt') /\ \A o \in Obj : vc'[o].mode = vc[o].mode
    BY <1>3, <1>5 DEF Showing
  <2> QED  BY <1>1, <1>2, <2>1, StillArmed
<1>6. CASE ~UNCHANGED <<vc, vc_cons, vt>>
  <2>1. PICK o \in FreeObj : /\ vc_allocate(d, o, FALSE)
                             /\ vt' \in {made(o), [made(o) EXCEPT ![d[1]] = e(o)]}
    BY <1>6 DEF VT_ACTIVATE_LOCKED
  <2>2. o \in Obj
    BY DEF FreeObj
  <2>3. made(o) \in [VT -> VtStruct]
    BY <1>3, <1>4, <2>2, ClaimedType
  <2>4. \A t \in VT : made(o)[t].fg_console \in {vt[t].fg_console, o}
    BY <1>3, <1>4, ClaimedQuiet
  <2> HIDE DEF made, d
  <2>5. e(o).fg_console = made(o)[d[1]].fg_console /\ d[1] \in VT
    BY <1>4, <2>3, SlotParts DEF VtStruct
  <2> HIDE DEF e
  <2>6. vt'[0].fg_console \in {vt[0].fg_console, o}
    BY <1>3, <2>1, <2>3, <2>4, <2>5
  <2> QED  BY <1>1, <1>2, <1>4, <2>1, <2>6, AllocateArmed
<1> QED  BY <1>5, <1>6

(* VT_RELDISP completes a switch, to a console it may have to allocate.     *)
LEMMA RelDispLockedArmed ==
  ASSUME Inv, OneDisplay, ArmedInv, NEW p \in Proc, VT_RELDISP_LOCKED(p)
  PROVE  ArmedInv'
<1> DEFINE o    == driver_data[arg[p].tty]
           t    == Disp(o)
           to   == vc[o].vt_newvt
           quit == [vc EXCEPT ![o].vt_newvt = NULL]
<1>1. pc[p] = "reldisp" /\ sem = NULL /\ p \in Agent /\ ~Stuck
  BY DEF VT_RELDISP_LOCKED, Agent, Stuck
<1>2. /\ arg[p] \in Locals /\ o \in Obj /\ t = 0 /\ 0 \in VT
      /\ to \in Slot \cup {NULL} /\ vc[o] \in VcData
  <2>1. arg[p] \in Locals /\ o # NULL
    BY <1>1 DEF Inv, IoctlHoldsTty, TypeOK
  <2>2. arg[p].tty \in Slot
    BY <2>1 DEF Locals
  <2>3. o \in Obj /\ TypeOK
    BY <2>1, <2>2 DEF Inv, TypeOK
  <2>4. t \in VT /\ vc[o] \in VcData
    BY <2>3, DispFg DEF TypeOK
  <2> QED  BY <2>1, <2>3, <2>4, ScreenTypes DEF VcData
<1> DEFINE c == [vc[o] EXCEPT !.vt_newvt = NULL]
<1>3. c \in VcData /\ c.mode = vc[o].mode /\ Cleared(vc[o], c)
  BY <1>2, ForgetType DEF VcData
<1>4. Sound(vc) /\ quit = [vc EXCEPT ![o] = c]
  BY DEF Inv, TypeOK, PendingSwitch, Sound
<1>5. Sound(quit) /\ \A q \in Obj : quit[q].mode = vc[q].mode
  <2> HIDE DEF c
  <2>1. Sound(quit)
    BY <1>2, <1>3, <1>4, ClearedSound
  <2> QED  BY <1>2, <1>3, <1>4, <2>1 DEF Inv, TypeOK
<1>6. Fg(0) \in Obj /\ FgMode = vc[Fg(0)].mode /\ vt \in [VT -> VtStruct]
  BY ScreenTypes DEF FgMode, Inv, TypeOK
<1> HIDE DEF quit, c
<1>7. CASE arg[p].obj # NULL
  <2>1. /\ complete_change_console(p, arg[p].obj, Fg(0), quit, vt, "idle")
        /\ NestedAcquire(arg[p].obj, Fg(0), quit) => sem' = p
    BY <1>2, <1>7 DEF VT_RELDISP_LOCKED, quit
  <2>2. arg[p].obj \in Obj /\ quit[Fg(0)].mode = FgMode
    BY <1>2, <1>5, <1>6, <1>7 DEF Locals
  <2> QED  BY <1>1, <1>5, <1>6, <2>1, <2>2, CompleteArmed
<1>8. CASE arg[p].obj = NULL /\ vc' = quit /\ pc' = [pc EXCEPT ![p] = "idle"]
           /\ UNCHANGED <<vt, bl, ignore_poke, sem>>
  <2>1. PendingBlank => PendingBlank'
    BY <1>1, <1>8, AgentsWait DEF Inv
  <2>2. FgMode' = FgMode
    BY <1>5, <1>6, <1>8 DEF FgMode, Fg
  <2> QED  BY <1>1, <1>8, <2>1, <2>2, QuietArmed
<1>9. ASSUME arg[p].obj = NULL, to # NULL, NEW n \in FreeObj,
             LET consoles == [quit EXCEPT ![n] = NewVc(to, FALSE)]
                 displays == Claimed(vt, to, n)
                 old      == displays[t].fg_console
             IN /\ complete_change_console(p, n, old, consoles, displays, "idle")
                /\ sem' = IF NestedAcquire(n, old, consoles) THEN p ELSE NULL
      PROVE  ArmedInv'
  <2> DEFINE consoles == [quit EXCEPT ![n] = NewVc(to, FALSE)]
             displays == Claimed(vt, to, n)
             old      == displays[0].fg_console
  <2>1. n \in Obj /\ to \in Slot
    BY <1>2, <1>9 DEF FreeObj
  <2>2. displays \in [VT -> VtStruct] /\ old \in {Fg(0), n} /\ old \in Obj
    BY <1>2, <1>6, <2>1, ClaimedType, ClaimedQuiet DEF Inv, Fg
  <2>3. Sound(consoles)
    BY <1>5, <2>1, NewSound
  <2>4. consoles[old].mode \in {FgMode, "KD_TEXT"}
    <3>1. consoles[n].mode = "KD_TEXT"
      BY <1>5, <2>1 DEF Sound, NewVc
    <3>2. \A q \in Obj \ {n} : consoles[q] = quit[q]
      BY <1>5, <2>1 DEF Sound
    <3> QED  BY <1>5, <1>6, <2>1, <2>2, <3>1, <3>2
  <2>5. /\ complete_change_console(p, n, old, consoles, displays, "idle")
        /\ NestedAcquire(n, old, consoles) => sem' = p
    BY <1>2, <1>9
  <2> HIDE DEF consoles, displays, old
  <2> QED  BY <1>1, <2>1, <2>2, <2>3, <2>4, <2>5, CompleteArmed
<1> QED  BY <1>7, <1>8, <1>9 DEF VT_RELDISP_LOCKED, quit

(* The other ways out of an ioctl.                                          *)
LEMMA ReturnArmed ==
  ASSUME Inv, OneDisplay, ArmedInv, NEW p \in Proc,
         WaitTest(p) \/ WaitInterrupted(p) \/ Exit(p) \/ VT_DISALLOCATE_LOCKED(p)
  PROVE  ArmedInv'
<1>1. /\ UNCHANGED <<vt, bl, ignore_poke, sem>> /\ p \in Agent
      /\ pc[p] \in {"waitactive", "asleep", "idle", "disallocate"} /\ \E l : pc' = [pc EXCEPT ![p] = l]
  BY DEF WaitTest, WaitInterrupted, Exit, VT_DISALLOCATE_LOCKED, Return, Agent
<1>2. (PendingBlank => PendingBlank') /\ (Stuck => Stuck')
  BY <1>1, AgentsWait DEF Inv
<1>3. \A o \in Obj : vc'[o].mode = vc[o].mode
  <2>1. \A c \in VcData : [c EXCEPT !.live = FALSE].mode = c.mode
    BY DEF VcData
  <2>2. CASE UNCHANGED vc
    BY <2>2
  <2>3. CASE VT_DISALLOCATE_LOCKED(p)
    <3>1. PICK gone : vc' = [o \in Obj |-> IF o \in gone THEN [vc[o] EXCEPT !.live = FALSE] ELSE vc[o]]
      BY <2>3 DEF VT_DISALLOCATE_LOCKED, vc_disallocate
    <3> QED  BY <2>1, <3>1 DEF Inv, TypeOK
  <2> QED  BY <2>2, <2>3 DEF WaitTest, WaitInterrupted, Exit
<1>4. Showing(vt, vt')
  BY <1>1 DEF Showing, Inv, TypeOK
<1> QED  BY <1>1, <1>2, <1>3, <1>4, StillArmed

(* Opening and closing a console.                                           *)
LEMMA OpenArmed ==
  ASSUME Inv, OneDisplay, ArmedInv, NEW s \in Slot, vt_open(s) \/ vt_close(s)
  PROVE  ArmedInv'
<1>1. UNCHANGED <<bl, ignore_poke, sem, pc>> /\ 0 \in VT
  BY ScreenTypes DEF vt_open, vt_close
<1>2. (PendingBlank => PendingBlank') /\ (Stuck => Stuck')
  BY <1>1 DEF PendingBlank, Stuck
<1>3. CASE vt_open(s)
  <2>1. PICK o \in FreeObj : vc_allocate(s, o, TRUE) /\ vt' = Claimed(vt, s, o)
    BY <1>3 DEF vt_open
  <2>2. vt'[0].fg_console \in {vt[0].fg_console, o}
    BY <1>1, <2>1, ClaimedQuiet DEF Inv
  <2> QED  BY <1>1, <1>2, <2>1, <2>2, AllocateArmed
<1>4. CASE vt_close(s)
  <2>1. \A c \in VcData : [c EXCEPT !.vc_tty = FALSE].mode = c.mode
    BY DEF VcData
  <2>2. \A o \in Obj : vc'[o].mode = vc[o].mode
    BY <1>4, <2>1 DEF vt_close, Inv, TypeOK
  <2>3. Showing(vt, vt')
    BY <1>4 DEF vt_close, Showing, Inv, TypeOK
  <2> QED  BY <1>1, <1>2, <2>2, <2>3, StillArmed
<1> QED  BY <1>3, <1>4

(* Every step keeps the timer where it is needed.                           *)
LEMMA NextArmed == OneDisplay /\ Inv /\ ArmedInv /\ [Next]_vars => ArmedInv'
<1> SUFFICES ASSUME OneDisplay, Inv, ArmedInv, [Next]_vars PROVE ArmedInv'
  OBVIOUS
<1>1. ASSUME NEW p \in Proc, NEW s \in Slot, Call(p, s) PROVE ArmedInv'
  BY <1>1, ModeArmed, BlankCallArmed, SettermArmed, OtherCallArmed DEF Call
<1>2. ASSUME NEW p \in Proc, Continue(p) \/ WaitInterrupted(p) \/ Exit(p) PROVE ArmedInv'
  BY <1>2, ModeLockedArmed, ActivateLockedArmed, RelDispLockedArmed, ReturnArmed DEF Continue
<1>3. ASSUME vt_console_print PROVE ArmedInv'
  <2>1. sem = NULL /\ Poke(0, bl[0]) /\ UNCHANGED <<vc, vt, pc>> /\ bl[0] \in BlankState
    BY <1>3, ScreenTypes DEF vt_console_print
  <2> QED  BY <2>1, PokeArmed
<1>4. CASE UNCHANGED vars
  BY <1>4 DEF vars, ArmedInv, Watched, FgMode, Fg, PendingBlank, Stuck
<1> QED  BY <1>1, <1>2, <1>3, <1>4, CallbackArmed, InterruptArmed, OpenArmed DEF Next

(***************************************************************************)
(* On a machine with one display, whatever programs and keys do: a lit     *)
(* text screen with a blanking interval has its timer armed, or the expiry *)
(* is on its way, so that blanking is never switched off by accident.      *)
(* KDSETMODE sets the mode before it takes the semaphore; what it does to  *)
(* the screen in between is accounted for by PendingBlank, and a switch    *)
(* that locks itself out by Stuck.  On several displays this is false:     *)
(* ignore_poke is one flag for all of them.                                *)
(***************************************************************************)
THEOREM BlankingStaysArmed == OneDisplay => (Spec => []AutoBlankArmed)
<1> SUFFICES ASSUME OneDisplay PROVE Spec => []AutoBlankArmed
  OBVIOUS
<1>1. Inv /\ ArmedInv /\ [Next]_vars => (Inv /\ ArmedInv)'
  BY NextInv, NextArmed
<1>2. Init => Inv /\ ArmedInv
  <2> SUFFICES ASSUME Init PROVE ArmedInv
    BY InitInv
  <2>1. 0 \in VT
    BY DEF OneDisplay, VT
  <2>2. bl[0].timer /\ ~ignore_poke
    BY <2>1 DEF Init
  <2>3. FgMode = "KD_TEXT"
    <3>1. PICK at \in [Opened \cup {First(t) : t \in VT} -> Obj] :
            /\ vc = [o \in Obj |->
                       IF \E s \in DOMAIN at : at[s] = o
                         THEN LET s == CHOOSE s \in DOMAIN at : at[s] = o
                              IN NewVc(s, s \in Opened)
                       ELSE [NewVc(First(0), FALSE) EXCEPT !.live = FALSE]]
            /\ vt = [t \in VT |->
                       [fg_console |-> at[First(t)], last_console |-> at[First(t)],
                        want_vc |-> at[First(t)], dont_switch |-> FALSE,
                        scroll |-> FALSE, work |-> FALSE]]
      BY Zenon DEF Init
    <3>2. at[First(0)] \in Obj /\ Fg(0) = at[First(0)]
      BY <2>1, <3>1 DEF Fg
    <3> DEFINE o == at[First(0)]
               q == CHOOSE s \in DOMAIN at : at[s] = o
    <3>4. \/ vc[o] = [NewVc(First(0), FALSE) EXCEPT !.live = FALSE]
          \/ vc[o] = NewVc(q, q \in Opened)
      BY <3>1, <3>2
    <3> HIDE DEF q, o
    <3>5. [NewVc(First(0), FALSE) EXCEPT !.live = FALSE].mode = "KD_TEXT" /\ \A s, x : NewVc(s, x).mode = "KD_TEXT"
      BY DEF NewVc
    <3> QED  BY <3>2, <3>4, <3>5 DEF FgMode, o
  <2> QED  BY <2>2, <2>3 DEF ArmedInv, Watched
<1>3. Inv /\ ArmedInv => AutoBlankArmed
  <2> SUFFICES ASSUME Inv, ArmedInv, NEW t \in VT, bl[t].state = "normal_wait", bl[t].interval,
                      \A p \in Proc : pc[p] \notin {"blank_gfx", "unblank"}
               PROVE  bl[t].timer \/ bl[t].expired
    BY DEF AutoBlankArmed
  <2>1. t = 0 /\ ~PendingBlank
    BY ScreenTypes DEF PendingBlank
  <2> QED  BY <2>1 DEF ArmedInv, Watched
<1> QED  BY <1>1, <1>2, <1>3, PTL DEF Spec

-----------------------------------------------------------------------------
(* Nothing is forgotten.  vt_callback does nothing when the console it is   *)
(* to show has no tty: all of this is about a machine whose consoles are    *)
(* all open and stay so.  None is then allocated either.                    *)
AllOpen == Opened = Slot /\ Closable = {}

TtyInv ==
  /\ \A o \in Obj : vc[o].live => vc[o].vc_tty
  /\ \A s \in Slot : vc_cons[s] # NULL
  /\ \A p \in Proc : pc[p] # "activate"

(* Consoles come, go, open and close alike in both.                         *)
SameTty(old, new) == \A o \in Obj : new[o].live = old[o].live /\ new[o].vc_tty = old[o].vc_tty

(* Work that is due stays due, and what is left for a callback has one.     *)
Due(d, e) == \A t \in VT : /\ d[t].work => e[t].work
                           /\ e[t].scroll => d[t].scroll \/ e[t].work
Left ==
  /\ Due(vt, vt')
  /\ \A t \in VT : bl'[t].expired => bl[t].expired \/ vt'[t].work
  /\ \A t \in VT : pc[t] # "idle" => pc'[t] # "idle"
  /\ poke' => poke \/ \E t \in VT : vt'[t].work

(* A step that leaves no callback undone forgets nothing.                   *)
LEMMA LeftForgets ==
  ASSUME NothingForgotten, Left
  PROVE  NothingForgotten'
BY DEF NothingForgotten, Left, Due

(* A poke takes an expiry away.                                             *)
LEMMA PokeExpiry ==
  ASSUME NEW b \in BlankState, NEW m, NEW x
  PROVE  ~poke_blanked_console(b, m, x).expired
BY DEF BlankState, poke_blanked_console, unblank_vt

(* unblank_vt leaves an expiry as it is.                                    *)
LEMMA UnblankExpiry ==
  ASSUME NEW b \in BlankState, NEW m
  PROVE  unblank_vt(b, m).expired = b.expired
BY DEF BlankState, unblank_vt

(* Which fields of a console the requests touch.                            *)
LEMMA TtyFields ==
  ASSUME NEW c \in VcData, NEW x, NEW y
  PROVE  \A d \in {reset_vc(c), [c EXCEPT !.vt_newvt = x], [c EXCEPT !.mode = x],
                   [c EXCEPT !.vt_mode = x, !.vt_pid = y, !.vt_newvt = NULL]} :
           d.live = c.live /\ d.vc_tty = c.vc_tty
BY DEF VcData, reset_vc

(* A console replaced by one that is as alive and as open.                  *)
LEMMA SameTtyUpdate ==
  ASSUME NEW table \in [Obj -> VcData], SameTty(vc, table), NEW o \in Obj, NEW d,
         d.live = table[o].live, d.vc_tty = table[o].vc_tty
  PROVE  SameTty(vc, [table EXCEPT ![o] = d])
BY DEF SameTty

(* Requests on the displays.                                                *)
LEMMA DueUpdates ==
  ASSUME TypeOK, NEW d \in [VT -> VtStruct], NEW t \in VT, NEW o \in Obj, NEW n \in Obj,
         NEW x \in BOOLEAN, Due(vt, d)
  PROVE  /\ Due(vt, set_console(d, o)) /\ set_console(d, o)[Disp(o)].work
         /\ Due(vt, schedule_work(d, t)) /\ schedule_work(d, t)[t].work
         /\ Due(vt, [d EXCEPT ![t].dont_switch = x])
         /\ Due(vt, [d EXCEPT ![t] = [@ EXCEPT !.last_console = o, !.fg_console = n]])
<1>1. d[t] \in VtStruct /\ Disp(o) \in VT /\ d[Disp(o)] \in VtStruct
  BY DispFg
<1>2. /\ [d[Disp(o)] EXCEPT !.want_vc = o, !.work = TRUE].work
      /\ [d[Disp(o)] EXCEPT !.want_vc = o, !.work = TRUE].scroll = d[Disp(o)].scroll
  BY <1>1 DEF VtStruct
<1>3. Due(vt, set_console(d, o)) /\ set_console(d, o)[Disp(o)].work
  <2> DEFINE e == [d[Disp(o)] EXCEPT !.want_vc = o, !.work = TRUE]
  <2>1. set_console(d, o) = [d EXCEPT ![Disp(o)] = e]
    BY DEF set_console
  <2> HIDE DEF e
  <2> QED  BY <1>1, <1>2, <2>1 DEF Due, e
<1>4. /\ \A w \in BOOLEAN : [d[t] EXCEPT !.work = w].work = w /\ [d[t] EXCEPT !.work = w].scroll = d[t].scroll
      /\ [d[t] EXCEPT !.dont_switch = x].work = d[t].work
      /\ [d[t] EXCEPT !.dont_switch = x].scroll = d[t].scroll
      /\ [d[t] EXCEPT !.last_console = o, !.fg_console = n].work = d[t].work
      /\ [d[t] EXCEPT !.last_console = o, !.fg_console = n].scroll = d[t].scroll
  BY <1>1 DEF VtStruct
<1>5. Due(vt, schedule_work(d, t)) /\ schedule_work(d, t)[t].work
  BY <1>4 DEF Due, schedule_work
<1>6. Due(vt, [d EXCEPT ![t].dont_switch = x])
  BY <1>4 DEF Due
<1>7. Due(vt, [d EXCEPT ![t] = [@ EXCEPT !.last_console = o, !.fg_console = n]])
  BY <1>4 DEF Due
<1> QED  BY <1>3, <1>5, <1>6, <1>7

(* A switch.                                                                *)
LEMMA CompleteLeft ==
  ASSUME Inv, NEW self \in Agent, NEW new \in Obj, NEW old \in Obj,
         NEW consoles, Sound(consoles), SameTty(vc, consoles), NEW after \in {"locked", "idle"},
         self \in VT => after = "locked", UNCHANGED poke,
         complete_change_console(self, new, old, consoles, vt, after)
  PROVE  Left /\ SameTty(vc, vc') /\ \A p \in Proc : pc'[p] \in {pc[p], "stuck", after, "waitactive"}
<1> DEFINE t    == consoles[new].slot[1]
<1>1. consoles[new] \in VcData /\ t \in VT /\ consoles \in [Obj -> VcData]
  BY SlotParts DEF Sound, VcData
<1>2. vt' = [vt EXCEPT ![t] = [@ EXCEPT !.last_console = old, !.fg_console = new]]
  BY DEF complete_change_console
<1>3. Due(vt, vt)
  BY DEF Due
<1>4. Due(vt, vt')
  BY <1>1, <1>2, <1>3, DueUpdates DEF Inv, TypeOK
<1>5. vc' \in {consoles, [consoles EXCEPT ![new] = reset_vc(consoles[new])]}
  BY DEF complete_change_console
<1>6. SameTty(vc, vc')
  BY <1>1, <1>5, TtyFields, SameTtyUpdate
<1>7. bl' \in {bl, [bl EXCEPT ![t] = unblank_vt(bl[t], "KD_TEXT")]}
  BY DEF complete_change_console
<1>8. \A q \in VT : bl'[q].expired = bl[q].expired
  BY <1>1, <1>7, UnblankExpiry DEF Inv, TypeOK
<1>9. pc' = [pc EXCEPT ![self] = "stuck"] \/ pc' = wake_up([pc EXCEPT ![self] = after])
  BY DEF complete_change_console
<1>10. \A q \in Agent : pc'[q] \in {pc[q], "stuck", after, "waitactive"}
                        /\ (q # self => pc'[q] \in {pc[q], "waitactive"})
  BY <1>9 DEF wake_up, Inv, TypeOK
<1>11. \A q \in VT : pc[q] # "idle" => pc'[q] # "idle"
  BY <1>10 DEF Agent
<1>12. \A p \in Proc : pc'[p] \in {pc[p], "stuck", after, "waitactive"}
  BY <1>10 DEF Agent
<1> QED  BY <1>4, <1>6, <1>8, <1>11, <1>12 DEF Left

(* vt_callback leaves its own display for the next callback, or does all    *)
(* there is to do.                                                          *)
LEMMA CallbackKeeps ==
  ASSUME Inv, SeatInv, TtyInv, NothingForgotten, NEW t \in VT, vt_callback(t)
  PROVE  NothingForgotten' /\ SameTty(vc, vc') /\ \A p \in Proc : pc'[p] # "activate"
<1>0. t \in Agent /\ (\A p \in Proc : p \in Agent /\ p # t) /\ vt[t] \in VtStruct /\ SameTty(vc, vc)
  BY DEF Agent, Inv, TypeOK, SameTty
<1>1. CASE CallbackStart(t)
  <2>1. vc[vt[t].want_vc].vc_tty
    BY SeatFacts DEF TtyInv
  <2>2. /\ vt' = [vt EXCEPT ![t].work = FALSE] /\ pc' = [pc EXCEPT ![t] = "acquire"]
        /\ UNCHANGED <<vc, bl, poke>>
    BY <1>1, <2>1 DEF CallbackStart
  <2>3. [vt[t] EXCEPT !.work = FALSE].scroll = vt[t].scroll
    BY <1>0 DEF VtStruct
  <2>4. pc'[t] = "acquire" /\ \A q \in Agent \ {t} : pc'[q] = pc[q]
    BY <1>0, <2>2 DEF Inv, TypeOK
  <2>5. \A q \in VT : vt'[q].scroll = vt[q].scroll /\ (q # t => vt'[q] = vt[q])
    BY <2>2, <2>3 DEF Inv, TypeOK
  <2>6. \A q \in VT : vt[q].work \/ pc[q] # "idle" => vt'[q].work \/ pc'[q] # "idle"
    BY <2>4, <2>5 DEF Agent
  <2> QED  BY <1>0, <2>2, <2>4, <2>5, <2>6 DEF NothingForgotten, TtyInv
<1>2. CASE CallbackSwitch(t)
  <2> DEFINE new == vt[t].want_vc
             old == Fg(t)
             cons == IF vc[old].vt_mode = "VT_PROCESS"
                       THEN [vc EXCEPT ![old] = reset_vc(vc[old])] ELSE vc
  <2>1. UNCHANGED poke
    BY <1>2 DEF CallbackSwitch, SwitchHoldingSem
  <2>2. /\ new \in Obj /\ old \in Obj /\ vc[old] \in VcData
        /\ vt \in [VT -> VtStruct] /\ Sound(vc) /\ vc \in [Obj -> VcData]
    BY SeatFacts DEF Inv, TypeOK, Sound, PendingSwitch
  <2>3. Sound(cons) /\ SameTty(vc, cons)
    <3>1. Sound(cons)
      BY <2>2, ResetSound
    <3>2. reset_vc(vc[old]).live = vc[old].live /\ reset_vc(vc[old]).vc_tty = vc[old].vc_tty
      BY <2>2, TtyFields
    <3> QED  BY <1>0, <2>2, <3>1, <3>2, SameTtyUpdate
  <2>4. \/ change_console(t, new, old)
        \/ pc' = [pc EXCEPT ![t] = "locked"] /\ UNCHANGED <<vc, vt, bl, ignore_poke>>
    BY <1>2 DEF CallbackSwitch, SwitchHoldingSem
  <2>5. ASSUME pc' = [pc EXCEPT ![t] = "locked"], UNCHANGED <<vt, bl>>
        PROVE  NothingForgotten' /\ \A p \in Proc : pc'[p] # "activate"
    <3>1. pc'[t] = "locked" /\ \A q \in Agent \ {t} : pc'[q] = pc[q]
      BY <1>0, <2>5 DEF Inv, TypeOK
    <3>2. Left
      BY <2>1, <2>5, <3>1 DEF Left, Due, Agent
    <3> QED  BY <1>0, <3>1, <3>2, LeftForgets DEF TtyInv
  <2>6. CASE pc' = [pc EXCEPT ![t] = "locked"] /\ UNCHANGED <<vt, bl>>
             /\ vc' \in {vc, cons, [vc EXCEPT ![old].vt_newvt = vc[new].slot]}
    <3>1. SameTty(vc, [vc EXCEPT ![old].vt_newvt = vc[new].slot])
      <4> DEFINE d == [vc[old] EXCEPT !.vt_newvt = vc[new].slot]
      <4>1. d.live = vc[old].live /\ d.vc_tty = vc[old].vc_tty
        BY <2>2, TtyFields
      <4> HIDE DEF d
      <4>2. SameTty(vc, [vc EXCEPT ![old] = d])
        BY <1>0, <2>2, <4>1, SameTtyUpdate
      <4> QED  BY <4>2 DEF d
    <3> QED  BY <1>0, <2>3, <2>5, <2>6, <3>1
  <2>7. CASE complete_change_console(t, new, old, cons, vt, "locked")
    <3> HIDE DEF cons, new, old
    <3>1. Left /\ SameTty(vc, vc') /\ \A p \in Proc : pc'[p] \in {pc[p], "stuck", "locked", "waitactive"}
      BY <1>0, <2>1, <2>2, <2>3, <2>7, CompleteLeft
    <3> QED  BY <3>1, LeftForgets DEF TtyInv
  <2> QED  BY <2>4, <2>6, <2>7 DEF change_console
<1>3. CASE CallbackFinish(t)
  <2> DEFINE mode == vc[Fg(t)].mode
             poked == IF poke THEN poke_blanked_console(bl[t], mode, ignore_poke) ELSE bl[t]
             b == do_blank_screen(poked, mode, FALSE)
  <2>1. /\ vt' = [vt EXCEPT ![t].scroll = FALSE] /\ ~poke' /\ pc' = [pc EXCEPT ![t] = "idle"]
        /\ bl' = [bl EXCEPT ![t] = IF poked.expired THEN [b EXCEPT !.expired = FALSE] ELSE poked]
        /\ UNCHANGED vc
    BY <1>3 DEF CallbackFinish
  <2>2. bl[t] \in BlankState /\ (bl[t].state = "normal_wait" => ~bl[t].blanked)
    BY DEF Inv, TypeOK, BlankStateSound
  <2>3. poked \in BlankState /\ (poked.state = "normal_wait" => ~poked.blanked)
    BY <2>2, PokeType
  <2>4. b \in BlankState
    BY <2>3, BlankType
  <2>5. ~[b EXCEPT !.expired = FALSE].expired
    BY <2>4 DEF BlankState
  <2> HIDE DEF b, poked
  <2>6. ~bl'[t].expired /\ \A q \in VT \ {t} : bl'[q] = bl[q]
    BY <2>1, <2>5 DEF Inv, TypeOK
  <2>7. ~[vt[t] EXCEPT !.scroll = FALSE].scroll
    BY <1>0 DEF VtStruct
  <2>8. ~vt'[t].scroll /\ \A q \in VT \ {t} : vt'[q] = vt[q]
    BY <2>1, <2>7 DEF Inv, TypeOK
  <2>9. \A q \in Agent \ {t} : pc'[q] = pc[q]
    BY <1>0, <2>1 DEF Inv, TypeOK
  <2> QED  BY <1>0, <2>1, <2>6, <2>8, <2>9 DEF NothingForgotten, TtyInv, Agent
<1> QED  BY <1>1, <1>2, <1>3 DEF vt_callback

(* The timer and the keyboard leave work for the callback and schedule it.  *)
LEMMA InterruptKeeps ==
  ASSUME Inv, SeatInv, TtyInv, NothingForgotten, NEW t \in VT, blank_screen_t(t) \/ Keyboard(t)
  PROVE  NothingForgotten' /\ SameTty(vc, vc') /\ \A p \in Proc : pc'[p] # "activate"
<1>0. TypeOK /\ vt \in [VT -> VtStruct] /\ vc \in [Obj -> VcData] /\ Due(vt, vt) /\ SameTty(vc, vc)
      /\ t \in VT /\ vt[t] \in VtStruct
  BY DEF Inv, TypeOK, Due, SameTty
<1>1. UNCHANGED pc /\ \A p \in Proc : pc'[p] # "activate"
  BY InterruptShows DEF TtyInv
<1>2. CASE blank_screen_t(t)
  <2>1. /\ bl' = [bl EXCEPT ![t] = [@ EXCEPT !.timer = FALSE, !.expired = TRUE]]
        /\ vt' = schedule_work(vt, t) /\ UNCHANGED <<vc, poke>>
    BY <1>2 DEF blank_screen_t
  <2>2. Due(vt, vt') /\ vt'[t].work
    BY <1>0, <2>1, DueUpdates, DispFg
  <2>3. \A q \in VT : bl'[q].expired => bl[q].expired \/ vt'[q].work
    BY <2>1, <2>2 DEF Inv, TypeOK
  <2> QED  BY <1>0, <1>1, <2>1, <2>2, <2>3, LeftForgets DEF Left
<1>3. ASSUME NEW consoles, SameTty(vc, consoles), NEW d \in [VT -> VtStruct],
             Due(vt, schedule_work(d, t)), schedule_work(d, t)[t].work, kbd_event(t, consoles, d)
      PROVE  NothingForgotten' /\ SameTty(vc, vc')
  <2>1. vc' = consoles /\ vt' = schedule_work(d, t) /\ poke' /\ UNCHANGED bl
    BY <1>3 DEF kbd_event
  <2>2. Left
    BY <1>1, <1>3, <2>1 DEF Left
  <2> QED  BY <1>3, <2>1, <2>2, LeftForgets
<1>4. \A d \in [VT -> VtStruct] : Due(vt, d) => Due(vt, schedule_work(d, t)) /\ schedule_work(d, t)[t].work
  BY <1>0, DueUpdates, DispFg
<1>5. \A o \in Obj : set_console(vt, o) \in [VT -> VtStruct] /\ Due(vt, set_console(vt, o))
  BY <1>0, DueUpdates, SetConsoleType
<1>6. ASSUME NEW o \in Obj, kbd_event(t, vc, set_console(vt, o))
      PROVE  NothingForgotten' /\ SameTty(vc, vc')
  BY <1>0, <1>3, <1>4, <1>5, <1>6
<1>7. CASE KeyPlain(t)
  BY <1>0, <1>1, <1>3, <1>4, <1>7 DEF KeyPlain
<1>8. CASE k_cons(t)
  BY <1>1, <1>6, <1>8, SeatFacts DEF k_cons
<1>9. CASE fn_lastcons(t)
  BY <1>1, <1>6, <1>9, SeatFacts DEF fn_lastcons
<1>10. CASE \E op : \E up \in BOOLEAN : fn_inc_console(t, op, up)
  <2>1. PICK op : \E up \in BOOLEAN : fn_inc_console(t, op, up)
    BY <1>10
  <2>2. \A up \in BOOLEAN : NextConsole(t, up) \subseteq Obj
    BY <1>0, NextConsoleType
  <2> QED  BY <1>0, <1>1, <1>3, <1>4, <1>6, <2>1, <2>2 DEF fn_inc_console
<1>11. CASE fn_scroll(t)
  <2>1. PICK x \in BOOLEAN : kbd_event(t, vc, [vt EXCEPT ![t].scroll = x])
    BY <1>11 DEF fn_scroll
  <2> DEFINE e == [vt[t] EXCEPT !.scroll = x]
             d == [vt EXCEPT ![t] = e]
             w == [e EXCEPT !.work = TRUE]
  <2>2. e \in VtStruct /\ e.work = vt[t].work /\ w.work /\ w.scroll = e.scroll
    BY <1>0 DEF VtStruct
  <2> HIDE DEF e, w
  <2>3. d \in [VT -> VtStruct]
    BY <1>0, <2>2
  <2>4. schedule_work(d, t) = [vt EXCEPT ![t] = w]
    BY <1>0, <2>3 DEF schedule_work, w
  <2>5. Due(vt, schedule_work(d, t)) /\ schedule_work(d, t)[t].work
    BY <1>0, <2>2, <2>4 DEF Due
  <2>6. kbd_event(t, vc, d)
    BY <2>1 DEF e
  <2> QED  BY <1>0, <1>1, <1>3, <2>3, <2>5, <2>6
<1>12. CASE fn_SAK(t)
  <2> DEFINE consoles == [vc EXCEPT ![Fg(t)] = reset_vc(vc[Fg(t)])]
  <2>1. Fg(t) \in Obj /\ vc[Fg(t)] \in VcData
    BY SeatFacts, <1>0
  <2>2. reset_vc(vc[Fg(t)]).live = vc[Fg(t)].live /\ reset_vc(vc[Fg(t)]).vc_tty = vc[Fg(t)].vc_tty
    BY <2>1, TtyFields
  <2>3. SameTty(vc, consoles)
    BY <1>0, <2>1, <2>2, SameTtyUpdate
  <2>4. kbd_event(t, consoles, vt)
    BY <1>12 DEF fn_SAK
  <2> HIDE DEF consoles
  <2> QED  BY <1>0, <1>1, <1>3, <1>4, <2>3, <2>4
<1> QED  BY <1>1, <1>2, <1>7, <1>8, <1>9, <1>10, <1>11, <1>12 DEF Keyboard

(* The calls of a process: none finds a console missing.                    *)
LEMMA CallKeeps ==
  ASSUME NoFreeing, Inv, SeatInv, TtyInv, NothingForgotten, NEW p \in Proc, NEW s \in Slot, Call(p, s)
  PROVE  NothingForgotten' /\ SameTty(vc, vc') /\ \A q \in Proc : pc'[q] # "activate"
<1> DEFINE o == driver_data[s]
           t == Disp(o)
<1>0. /\ TypeOK /\ vt \in [VT -> VtStruct] /\ vc \in [Obj -> VcData] /\ Due(vt, vt)
      /\ SameTty(vc, vc) /\ bl \in [VT -> BlankState]
  BY DEF Inv, TypeOK, Due, SameTty
<1>1. o \in Obj /\ t \in VT /\ vc[o] \in VcData /\ p \in Agent /\ UNCHANGED poke
  <2>1. /\ \E op : CanCall(p, s, op)
        /\ UNCHANGED poke
    BY DEF Call, KDSETMODE, VT_SETMODE, VT_ACTIVATE, VT_WAITACTIVE, VT_DISALLOCATE, VT_DISALLOCATE_ALL,
       VT_RELDISP, VT_LOCKSWITCH, TIOCL_BLANKSCREEN, TIOCL_UNBLANKSCREEN, vte_setterm
  <2> QED  BY <1>0, <2>1, CallFacts DEF Agent
<1>2. ASSUME UNCHANGED pc \/ \E l, a, d : l # "activate" /\ Enter(p, l, s, a, d)
      PROVE  (\A q \in VT : pc'[q] = pc[q]) /\ \A q \in Proc : pc'[q] # "activate"
  <2>1. CASE UNCHANGED pc
    BY <2>1 DEF TtyInv
  <2>2. CASE \E l, a, d : l # "activate" /\ Enter(p, l, s, a, d)
    <3>1. PICK l : l # "activate" /\ pc' = [pc EXCEPT ![p] = l]
      BY <2>2 DEF Enter
    <3>2. pc'[p] = l /\ \A q \in Agent \ {p} : pc'[q] = pc[q]
      BY <1>0, <1>1, <3>1 DEF TypeOK
    <3> QED  BY <3>1, <3>2 DEF Agent, TtyInv
  <2> QED  BY <1>2, <2>1, <2>2
<1>3. ASSUME UNCHANGED pc \/ \E l, a, d : l # "activate" /\ Enter(p, l, s, a, d),
             Due(vt, vt'), \A q \in VT : bl'[q].expired => bl[q].expired
      PROVE  NothingForgotten' /\ \A q \in Proc : pc'[q] # "activate"
  BY <1>1, <1>2, <1>3, LeftForgets DEF Left
<1>4. ASSUME NEW d, vc' = [vc EXCEPT ![o] = d], d.live = vc[o].live, d.vc_tty = vc[o].vc_tty
      PROVE  SameTty(vc, vc')
  BY <1>0, <1>1, <1>4, SameTtyUpdate
<1>5. \A m, y : \A d \in {[vc[o] EXCEPT !.vt_newvt = m], [vc[o] EXCEPT !.mode = m],
                          [vc[o] EXCEPT !.vt_mode = m, !.vt_pid = y, !.vt_newvt = NULL]} :
         d.live = vc[o].live /\ d.vc_tty = vc[o].vc_tty
  BY <1>1 DEF VcData
<1>6. CASE \E m, op, place : place # "activate" /\ KDSETMODE(p, s, m, op, place)
  <2>1. PICK m : vc' = [vc EXCEPT ![o] = [vc[o] EXCEPT !.mode = m]]
    BY <1>6 DEF KDSETMODE
  <2>2. SameTty(vc, vc')
    BY <1>4, <1>5, <2>1
  <2> QED  BY <1>0, <1>3, <1>6, <2>2 DEF KDSETMODE
<1>7. CASE \E m : VT_SETMODE(p, s, m)
  <2>1. PICK m : vc' = [vc EXCEPT ![o] = [vc[o] EXCEPT !.vt_mode = m, !.vt_pid = p, !.vt_newvt = NULL]]
    BY <1>7 DEF VT_SETMODE
  <2>2. SameTty(vc, vc')
    BY <1>4, <1>5, <2>1
  <2> QED  BY <1>0, <1>3, <1>7, <2>2 DEF VT_SETMODE
<1>8. CASE \E d \in Slot : VT_ACTIVATE(p, s, d)
  <2>1. PICK d \in Slot : VT_ACTIVATE(p, s, d)
    BY <1>8
  <2>2. find_vc(d) # NULL /\ find_vc(d) \in Obj
    BY SeatFacts DEF TtyInv, find_vc
  <2>3. vt' = set_console(vt, find_vc(d)) /\ UNCHANGED <<vc, pc, bl>>
    BY <2>1, <2>2 DEF VT_ACTIVATE
  <2>4. Due(vt, vt')
    BY <1>0, <1>1, <2>2, <2>3, DueUpdates
  <2> QED  BY <1>0, <1>3, <2>3, <2>4
<1>9. CASE \E d \in Slot : VT_WAITACTIVE(p, s, d)
  BY <1>0, <1>3, <1>9 DEF VT_WAITACTIVE
<1>10. CASE \E ok \in BOOLEAN : VT_RELDISP(p, s, ok)
  <2>1. vc' \in {vc, [vc EXCEPT ![o] = [vc[o] EXCEPT !.vt_newvt = NULL]]}
    BY <1>10 DEF VT_RELDISP
  <2>2. SameTty(vc, vc')
    BY <1>0, <1>4, <1>5, <2>1
  <2> QED  BY <1>0, <1>3, <1>10, <2>2 DEF VT_RELDISP
<1>11. CASE \E ok \in BOOLEAN : VT_LOCKSWITCH(p, s, ok)
  <2>1. PICK ok \in BOOLEAN : vt' = [vt EXCEPT ![t].dont_switch = ok] /\ UNCHANGED <<vc, pc, bl>>
    BY <1>11 DEF VT_LOCKSWITCH
  <2>2. Due(vt, vt')
    BY <1>0, <1>1, <2>1, DueUpdates
  <2> QED  BY <1>0, <1>3, <2>1, <2>2
<1>12. CASE TIOCL_BLANKSCREEN(p, s)
  <2>1. bl' = [bl EXCEPT ![t] = do_blank_screen(bl[t], vc[Fg(t)].mode, FALSE)] /\ UNCHANGED <<vc, vt, pc>>
    BY <1>12 DEF TIOCL_BLANKSCREEN
  <2> DEFINE b == do_blank_screen(bl[t], vc[Fg(t)].mode, FALSE)
  <2>3. b.expired => bl[t].expired
    BY <1>0, <1>1 DEF BlankState, do_blank_screen
  <2> HIDE DEF b
  <2>2. \A q \in VT : bl'[q].expired => bl[q].expired
    BY <1>0, <1>1, <2>1, <2>3 DEF b
  <2> QED  BY <1>0, <1>3, <2>1, <2>2
<1>13. CASE TIOCL_UNBLANKSCREEN(p, s)
  <2>1. bl' = [q \in VT |-> unblank_vt(bl[q], vc[Fg(q)].mode)] /\ UNCHANGED <<vc, vt, pc>>
    BY <1>13 DEF TIOCL_UNBLANKSCREEN
  <2>3. \A q \in VT : unblank_vt(bl[q], vc[Fg(q)].mode).expired = bl[q].expired
    BY <1>0, UnblankExpiry
  <2>2. \A q \in VT : bl'[q].expired => bl[q].expired
    BY <2>1, <2>3
  <2> QED  BY <1>0, <1>3, <2>1, <2>2
<1>14. CASE vte_setterm(p, s)
  <2>1. UNCHANGED <<vc, pc>>
    BY <1>14 DEF vte_setterm
  <2>2. ASSUME NEW b \in BlankState, Poke(t, b), UNCHANGED vt
        PROVE  NothingForgotten' /\ \A q \in Proc : pc'[q] # "activate"
    <3>1. \A q \in VT : bl'[q].expired => bl[q].expired
      BY <1>0, <1>1, <2>2, PokeExpiry DEF Poke
    <3> QED  BY <1>0, <1>3, <2>1, <2>2, <3>1
  <2>3. bl[t] \in BlankState /\ \A x \in BOOLEAN : [bl[t] EXCEPT !.interval = x] \in BlankState
                             /\ [bl[t] EXCEPT !.off_interval = x].expired = bl[t].expired
    BY <1>0, <1>1 DEF BlankState
  <2>4. CASE \E x \in BOOLEAN : bl' = [bl EXCEPT ![t].off_interval = x] /\ UNCHANGED vt
    <3>1. \A q \in VT : bl'[q].expired => bl[q].expired
      BY <1>0, <1>1, <2>3, <2>4
    <3> QED  BY <1>0, <1>3, <2>1, <2>4, <3>1
  <2>5. CASE UNCHANGED bl /\ \E n \in Obj : vt' = set_console(vt, n)
    <3>1. \A n \in Obj : Due(vt, set_console(vt, n))
      BY <1>0, <1>1, DueUpdates
    <3> QED  BY <1>3, <1>0, <2>1, <2>5, <3>1
  <2>6. \/ \E b \in BlankState : Poke(t, b) /\ UNCHANGED vt
        \/ \E x \in BOOLEAN : bl' = [bl EXCEPT ![t].off_interval = x] /\ UNCHANGED vt
        \/ UNCHANGED bl /\ \E n \in Obj : vt' = set_console(vt, n)
    BY <1>1, <1>14, <2>3, SeatFacts DEF vte_setterm
  <2> QED  BY <1>0, <2>1, <2>2, <2>4, <2>5, <2>6
<1> QED  BY <1>6, <1>7, <1>8, <1>9, <1>10, <1>11, <1>12, <1>13, <1>14
         DEF Call, VT_DISALLOCATE, VT_DISALLOCATE_ALL, NoFreeing, CanCall

(* The second halves of the ioctls, and the ways out of them.               *)
LEMMA ContinueKeeps ==
  ASSUME Inv, SeatInv, TtyInv, NothingForgotten, NEW p \in Proc,
         Continue(p) \/ WaitInterrupted(p) \/ Exit(p)
  PROVE  NothingForgotten' /\ SameTty(vc, vc') /\ \A q \in Proc : pc'[q] # "activate"
<1>0. /\ TypeOK /\ vt \in [VT -> VtStruct] /\ vc \in [Obj -> VcData] /\ Due(vt, vt)
      /\ SameTty(vc, vc) /\ bl \in [VT -> BlankState] /\ p \in Agent
  BY DEF Inv, TypeOK, Due, SameTty, Agent
<1>1. ASSUME NEW l, l # "activate", pc' = [pc EXCEPT ![p] = l]
      PROVE  (\A q \in VT : pc'[q] = pc[q]) /\ \A q \in Proc : pc'[q] # "activate"
  <2>1. pc'[p] = l /\ \A q \in Agent \ {p} : pc'[q] = pc[q]
    BY <1>0, <1>1 DEF TypeOK
  <2> QED  BY <1>1, <2>1 DEF Agent, TtyInv
<1>2. CASE KDSETMODE_LOCKED(p)
  <2> DEFINE o == driver_data[arg[p].tty]
             t == Disp(o)
             m == vc[Fg(t)].mode
             b == do_blank_screen(bl[t], m, TRUE)
  <2>1. t \in VT
    <3>1. arg[p] \in Locals /\ o # NULL
      BY <1>2 DEF KDSETMODE_LOCKED, Inv, IoctlHoldsTty, TypeOK
    <3>2. arg[p].tty \in Slot
      BY <3>1 DEF Locals
    <3> QED  BY <1>0, <3>1, <3>2, DispFg DEF TypeOK
  <2>2. bl' \in {[bl EXCEPT ![t] = unblank_vt(bl[t], m)],
                 [bl EXCEPT ![t] = b]}
    BY <1>2 DEF KDSETMODE_LOCKED
  <2>5. /\ unblank_vt(bl[t], m).expired => bl[t].expired
        /\ b.expired => bl[t].expired
    BY <1>0, <2>1, UnblankExpiry DEF BlankState, do_blank_screen
  <2> HIDE DEF t, m, b
  <2>3. \A q \in VT : bl'[q].expired => bl[q].expired
    BY <1>0, <2>1, <2>2, <2>5
  <2>4. UNCHANGED <<vc, vt, poke>> /\ pc' = [pc EXCEPT ![p] = "idle"]
    BY <1>2 DEF KDSETMODE_LOCKED, Return
  <2> QED  BY <1>0, <1>1, <2>3, <2>4, LeftForgets DEF Left
<1>3. CASE VT_RELDISP_LOCKED(p)
  <2> DEFINE o    == driver_data[arg[p].tty]
             t    == Disp(o)
             c    == [vc[o] EXCEPT !.vt_newvt = NULL]
             quit == [vc EXCEPT ![o] = c]
  <2>1. arg[p] \in Locals /\ arg[p].obj # NULL /\ o # NULL /\ arg[p].tty \in Slot
    <3>1. pc[p] = "reldisp"
      BY <1>3 DEF VT_RELDISP_LOCKED
    <3>2. arg[p] \in Locals /\ arg[p].obj # NULL /\ o # NULL
      BY <3>1 DEF SeatInv, Inv, IoctlHoldsTty, TypeOK
    <3> QED  BY <3>2 DEF Locals
  <2>2. arg[p].obj \in Obj /\ o \in Obj /\ t \in VT /\ Fg(t) \in Obj /\ vc[o] \in VcData
    BY <1>0, <2>1, DispFg DEF Locals, TypeOK
  <2>3. c \in VcData /\ Cleared(vc[o], c) /\ c.live = vc[o].live /\ c.vc_tty = vc[o].vc_tty
    BY <2>2, ForgetType DEF VcData
  <2> HIDE DEF c
  <2>4. Sound(vc)
    BY DEF Inv, TypeOK, PendingSwitch, Sound
  <2>5. Sound(quit) /\ SameTty(vc, quit)
    BY <1>0, <2>2, <2>3, <2>4, ClearedSound, SameTtyUpdate
  <2>6. complete_change_console(p, arg[p].obj, Fg(t), quit, vt, "idle") /\ UNCHANGED poke
    BY <1>3, <2>1 DEF VT_RELDISP_LOCKED, c
  <2>7. p \notin VT
    OBVIOUS
  <2> HIDE DEF quit, t
  <2>8. Left /\ SameTty(vc, vc') /\ \A q \in Proc : pc'[q] \in {pc[q], "stuck", "idle", "waitactive"}
    BY <1>0, <2>2, <2>5, <2>6, <2>7, CompleteLeft
  <2> QED  BY <2>8, LeftForgets DEF TtyInv
<1>4. CASE WaitTest(p) \/ WaitInterrupted(p) \/ Exit(p)
  <2>1. UNCHANGED <<vc, vt, bl, poke>> /\ \E l : l # "activate" /\ pc' = [pc EXCEPT ![p] = l]
    BY <1>4 DEF WaitTest, WaitInterrupted, Exit, Return
  <2> QED  BY <1>0, <1>1, <2>1, LeftForgets DEF Left
<1>5. ~VT_ACTIVATE_LOCKED(p) /\ ~VT_DISALLOCATE_LOCKED(p)
  BY DEF VT_ACTIVATE_LOCKED, VT_DISALLOCATE_LOCKED, TtyInv, SeatInv
<1> QED  BY <1>2, <1>3, <1>4, <1>5 DEF Continue

(* Every step leaves what is to be done to a callback that comes.           *)
LEMMA NextKeeps ==
  NoFreeing /\ AllOpen /\ Inv /\ SeatInv /\ TtyInv /\ NothingForgotten /\ [Next]_vars /\ Stays
    => TtyInv' /\ NothingForgotten'
<1> SUFFICES ASSUME NoFreeing, AllOpen, Inv, SeatInv, TtyInv, NothingForgotten, [Next]_vars, Stays
             PROVE  TtyInv' /\ NothingForgotten'
  OBVIOUS
<1>1. ASSUME vt_console_print
      PROVE  NothingForgotten' /\ SameTty(vc, vc') /\ \A p \in Proc : pc'[p] # "activate"
  <2>1. Poke(0, bl[0]) /\ UNCHANGED <<vc, vt, pc, poke>>
    BY <1>1 DEF vt_console_print
  <2>2. 0 \in VT
    BY DEF VT
  <2>3. bl \in [VT -> BlankState] /\ bl[0] \in BlankState
    BY <2>2 DEF Inv, TypeOK
  <2>4. \A q \in VT : bl'[q].expired => bl[q].expired
    BY <2>1, <2>2, <2>3, PokeExpiry DEF Poke
  <2> QED  BY <2>1, <2>4, LeftForgets DEF Left, Due, SameTty, TtyInv
<1>2. ASSUME NEW s \in Slot, vt_open(s) \/ vt_close(s) PROVE FALSE
  BY <1>2 DEF vt_open, vt_close, AllOpen
<1>3. ASSUME UNCHANGED vars
      PROVE  NothingForgotten' /\ SameTty(vc, vc') /\ \A p \in Proc : pc'[p] # "activate"
  BY <1>3 DEF vars, NothingForgotten, SameTty, TtyInv
<1>4. NothingForgotten' /\ SameTty(vc, vc') /\ \A p \in Proc : pc'[p] # "activate"
  BY <1>1, <1>2, <1>3, CallbackKeeps, InterruptKeeps, CallKeeps, ContinueKeeps DEF Next
<1> QED  BY <1>4 DEF TtyInv, SameTty, Stays

(***************************************************************************)
(* On a machine whose consoles are all open, and that frees and closes     *)
(* none: an expired blanking timer, a scroll and a key that must unblank   *)
(* have a callback coming, whatever the callbacks of the displays, the     *)
(* switches and the ioctls do meanwhile.  The callback that finds its      *)
(* console without a tty returns without a look at them, hence the         *)
(* hypothesis.                                                             *)
(***************************************************************************)
THEOREM InterruptsAreServed == NoFreeing /\ AllOpen => (Spec => []NothingForgotten)
<1> SUFFICES ASSUME NoFreeing, AllOpen PROVE Spec => []NothingForgotten
  OBVIOUS
<1> DEFINE I == Inv /\ SeatInv /\ TtyInv /\ NothingForgotten
<1>1. I /\ [Next]_vars => I'
  BY NextInv, NextSeat, NextKeeps DEF Stays
<1>2. Init => I
  <2> SUFFICES ASSUME Init PROVE TtyInv /\ NothingForgotten
    BY InitInv, InitSeat
  <2>1. NothingForgotten
    BY DEF Init, NothingForgotten
  <2>2. PICK at \in [Opened \cup {First(t) : t \in VT} -> Obj] :
          /\ vc = [o \in Obj |->
                     IF \E s \in DOMAIN at : at[s] = o
                       THEN LET s == CHOOSE s \in DOMAIN at : at[s] = o
                            IN NewVc(s, s \in Opened)
                     ELSE [NewVc(First(0), FALSE) EXCEPT !.live = FALSE]]
          /\ vc_cons = [s \in Slot |-> IF s \in DOMAIN at THEN at[s] ELSE NULL]
    BY Zenon DEF Init
  <2>3. DOMAIN at = Slot /\ \A s \in Slot : vc_cons[s] # NULL
    BY <2>2, FirstInSlot DEF AllOpen
  <2>4. ASSUME NEW o \in Obj PROVE vc[o].live => vc[o].vc_tty
    <3> DEFINE q == CHOOSE s \in DOMAIN at : at[s] = o
    <3>1. \/ vc[o] = [NewVc(First(0), FALSE) EXCEPT !.live = FALSE]
          \/ q \in Slot /\ vc[o] = NewVc(q, q \in Opened)
      BY <2>2, <2>3
    <3> HIDE DEF q
    <3>2. ~[NewVc(First(0), FALSE) EXCEPT !.live = FALSE].live
      BY DEF NewVc
    <3>3. \A s : NewVc(s, s \in Opened).vc_tty = (s \in Opened)
      BY DEF NewVc
    <3> QED  BY <3>1, <3>2, <3>3 DEF AllOpen
  <2>5. \A p \in Proc : pc[p] # "activate"
    BY DEF Init, Agent
  <2> QED  BY <2>1, <2>3, <2>4, <2>5 DEF TtyInv
<1>3. I => NothingForgotten
  OBVIOUS
<1> HIDE DEF I
<1> QED  BY <1>1, <1>2, <1>3, PTL DEF Spec
=============================================================================
