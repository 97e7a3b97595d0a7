----------------------------- MODULE InputCore -----------------------------
(***************************************************************************)
(* The input core: devices (their drivers), event handlers (the keyboard,  *)
(* evdev and the like) and the handles that tie one to the other.          *)
(*                                                                         *)
(* Source: drivers/input/input.c.                                          *)
(*                                                                         *)
(* No lock protects the lists of the core, and connect() sleeps in         *)
(* kmalloc: the registration of a device walks the handlers one step at a  *)
(* time while the registration of a handler walks the devices.             *)
(* What a handler does with a connection or an event is the business of    *)
(* the module that extends this one.                                       *)
(***************************************************************************)
EXTENDS Integers, Sequences, SequencesExt, FiniteSets

CONSTANTS
  Devices,       \* the input devices of the machine
  Handlers,      \* the input handlers
  HandleIds,     \* the memory kmalloc can give to handles, a set of numbers
  Keys,          \* key codes
  Matches,       \* pairs <<device, handler>> the id tables match, blacklist considered
  KeyBits,       \* KeyBits[d]: the keys of device d
  EvBits,        \* EvBits[d]: the kinds of event of device d
  Fuzz,          \* Fuzz[d]: the noise of the one axis of device d
  Positions,     \* the positions an axis can report
  NULL

ASSUME HandleAssumption == HandleIds \subseteq Nat
ASSUME MatchAssumption == Matches \subseteq Devices \X Handlers
ASSUME DeviceAssumption ==
  /\ KeyBits \in [Devices -> SUBSET Keys]
  /\ EvBits \in [Devices -> SUBSET {"EV_KEY", "EV_REP", "EV_ABS", "EV_REL", "EV_MSC", "EV_LED",
                                    "EV_SND", "EV_FF"}]
  /\ Fuzz \in [Devices -> Nat] /\ Positions \subseteq Int /\ 0 \in Positions
ASSUME NullAssumption ==
  /\ NULL \notin Devices /\ NULL \notin Handlers /\ NULL \notin HandleIds /\ NULL \notin Keys
  /\ NULL \notin [dev : Devices, handler : Handlers, open : {0, 1}]

Leds == {"scroll", "num", "caps"}

VARIABLES
  dpc,           \* dpc[d]: how far the (un)registration of device d is
  dcur,          \* dcur[d]: the handler its walk is at
  hpc,           \* the same for the handlers
  hcur,
  devList,       \* input_dev_list
  handlerList,   \* input_handler_list
  dev,           \* dev[d]: struct input_dev
  handle,        \* handle[i]: struct input_handle, or NULL for free memory
  links          \* the linked handles, oldest first: every h_list is a part of it

coreVars == <<dpc, dcur, hpc, hcur, devList, handlerList, dev, handle, links>>

NewDev == [key |-> {}, led |-> {}, abs |-> 0, repeat_key |-> NULL, sync |-> FALSE, grab |-> NULL]

(* The handlers in the sequence loaded were registered before any device.   *)
CoreInit(loaded) ==
  /\ dpc = [d \in Devices |-> "out"] /\ dcur = [d \in Devices |-> NULL]
  /\ hpc = [h \in Handlers |-> IF h \in Range(loaded) THEN "in" ELSE "out"]
  /\ hcur = [h \in Handlers |-> NULL]
  /\ devList = <<>> /\ handlerList = loaded /\ links = <<>>
  /\ dev = [d \in Devices |-> NewDev]
  /\ handle = [i \in HandleIds |-> NULL]

(***************************************************************************)
(* Lists.  list_del_init leaves the removed node pointing at itself, so a  *)
(* walk that stands on it never gets off.                                  *)
(***************************************************************************)
FirstOf(list) == IF list = <<>> THEN NULL ELSE Head(list)

NextOf(list, x) ==
  LET at == {i \in DOMAIN list : list[i] = x} IN
  IF at = {} THEN x
  ELSE LET i == CHOOSE j \in at : TRUE IN IF i = Len(list) THEN NULL ELSE list[i + 1]

(* The elements of list at the given places, in their order.                *)
Nth(places, n) == CHOOSE p \in places : Cardinality({q \in places : q <= p}) = n
Kept(list, places) == [n \in 1 .. Cardinality(places) |-> list[Nth(places, n)]]

Without(list, gone) == Kept(list, {n \in DOMAIN list : list[n] \notin gone})

HandlesOf(d) == Kept(links, {n \in DOMAIN links : handle[links[n]].dev = d})
HandlesOfHandler(h) == Kept(links, {n \in DOMAIN links : handle[links[n]].handler = h})

(***************************************************************************)
(* Registration.  A walk first shows its own node to the other side.       *)
(* What connect() and disconnect() do comes from the extending module; the *)
(* handle that connect() returns is linked at once.                        *)
(***************************************************************************)
NewHandle(d, h, open) == [dev |-> d, handler |-> h, open |-> open]

input_link_handle(i) == links' = Append(links, i)

\* Faulty variant: the list of handlers is walked before the device is in its list.
input_register_deviceHidden(d) ==
  /\ dpc[d] = "out"
  /\ dpc' = [dpc EXCEPT ![d] = "walk"]
  /\ dev' = [dev EXCEPT ![d] = NewDev]
  /\ dcur' = [dcur EXCEPT ![d] = FirstOf(handlerList)]
  /\ UNCHANGED <<hpc, hcur, devList, handlerList, handle, links>>

input_register_device(d) ==
  /\ dpc[d] = "out"
  /\ dpc' = [dpc EXCEPT ![d] = "walk"]
  /\ dev' = [dev EXCEPT ![d] = NewDev]
  /\ links' = Without(links, {i \in HandleIds : handle[i] # NULL /\ handle[i].dev = d})
  /\ devList' = Append(devList, d)
  /\ dcur' = [dcur EXCEPT ![d] = FirstOf(handlerList)]
  /\ UNCHANGED <<hpc, hcur, handlerList, handle>>

DeviceWalk(d) ==
  /\ dpc[d] = "walk"
  /\ dcur[d] # NULL
  /\ dcur' = [dcur EXCEPT ![d] = NextOf(handlerList, dcur[d])]
  /\ UNCHANGED <<dpc, hpc, hcur, devList, handlerList>>

DeviceReady(d) ==
  /\ dpc[d] = "walk" /\ dcur[d] = NULL
  /\ dpc' = [dpc EXCEPT ![d] = "in"]
  /\ UNCHANGED <<dcur, hpc, hcur, devList, handlerList, dev, handle, links>>

input_register_handler(h) ==
  /\ hpc[h] = "out"
  /\ hpc' = [hpc EXCEPT ![h] = "walk"]
  /\ handlerList' = Append(handlerList, h)
  /\ hcur' = [hcur EXCEPT ![h] = FirstOf(devList)]
  /\ UNCHANGED <<dpc, dcur, devList, dev, handle, links>>

HandlerWalk(h) ==
  /\ hpc[h] = "walk"
  /\ hcur[h] # NULL
  /\ hcur' = [hcur EXCEPT ![h] = NextOf(devList, hcur[h])]
  /\ UNCHANGED <<dpc, dcur, hpc, devList, handlerList>>

HandlerReady(h) ==
  /\ hpc[h] = "walk" /\ hcur[h] = NULL
  /\ hpc' = [hpc EXCEPT ![h] = "in"]
  /\ UNCHANGED <<dpc, dcur, hcur, devList, handlerList, dev, handle, links>>

(* The driver has stopped its device; the timer goes first, then the        *)
(* handles, and last the device leaves the list.                            *)
input_unregister_device(d) ==
  /\ dpc[d] = "in"
  /\ dpc' = [dpc EXCEPT ![d] = "del"]
  /\ UNCHANGED <<dcur, hpc, hcur, devList, handlerList>>

DeviceGone(d) ==
  /\ dpc[d] = "del"
  /\ dpc' = [dpc EXCEPT ![d] = "out"]
  /\ devList' = Without(devList, {d})
  /\ UNCHANGED <<dcur, hpc, hcur, handlerList, dev, handle, links>>

input_unregister_handler(h) ==
  /\ hpc[h] = "in"
  /\ hpc' = [hpc EXCEPT ![h] = "out"]
  /\ handlerList' = Without(handlerList, {h})
  /\ UNCHANGED <<dpc, dcur, hcur, devList>>

(* Unlinking and freeing the handles gone; close() gives back a grab.       *)
Release(gone) ==
  /\ links' = Without(links, gone)
  /\ handle' = [i \in HandleIds |-> IF i \in gone THEN NULL ELSE handle[i]]
  /\ dev' = [d \in Devices |->
       [dev[d] EXCEPT !.grab = IF @ \in gone THEN NULL ELSE @,
                      !.repeat_key = IF dpc'[d] = "del" THEN NULL ELSE @]]

(***************************************************************************)
(* Grabs, as EVIOCGRAB of evdev takes and returns them.                    *)
(***************************************************************************)
input_grab_device(i) ==
  /\ handle[i] # NULL /\ dev[handle[i].dev].grab = NULL
  /\ dev' = [dev EXCEPT ![handle[i].dev].grab = i]
  /\ UNCHANGED <<dpc, dcur, hpc, hcur, devList, handlerList, handle, links>>

input_release_device(i) ==
  /\ handle[i] # NULL /\ dev[handle[i].dev].grab = i
  /\ dev' = [dev EXCEPT ![handle[i].dev].grab = NULL]
  /\ UNCHANGED <<dpc, dcur, hpc, hcur, devList, handlerList, handle, links>>

(***************************************************************************)
(* Events.  An event is [type, code, value]; the state bits of the device  *)
(* filter it, and what passes goes to the grab or to all open handles.     *)
(***************************************************************************)
Event(t, c, v) == [type |-> t, code |-> c, value |-> v]
SynReport == Event("EV_SYN", "SYN_REPORT", 0)

(* The noise filter of an axis, each test on the value the last one left.   *)
Near(value, abs, range) == value > abs - range /\ value < abs + range
\* Faulty variant: the old position is weighed three times but divided by two.
QuarterUndivided(value, abs, fuzz) ==
  IF Near(value, abs, fuzz) THEN (abs * 3 + value) \div 2 ELSE value
Quarter(value, abs, fuzz) == IF Near(value, abs, fuzz) THEN (abs * 3 + value) \div 4 ELSE value
Half(value, abs, fuzz) == IF Near(value, abs, 2 * fuzz) THEN (abs + value) \div 2 ELSE value
AbsFilter(abs, fuzz, value) ==
  IF fuzz = 0 THEN value
  ELSE IF Near(value, abs, fuzz \div 2) THEN abs
  ELSE Half(Quarter(value, abs, fuzz), abs, fuzz)

Bit(x, set) == IF x \in set THEN 1 ELSE 0

(* Whether input_event passes event e of device record r on.                *)
Passes(d, r, e) ==
  CASE e.type = "EV_SYN" -> e.code # "SYN_REPORT" \/ ~ r.sync
    [] e.type \notin {"EV_SYN"} \cup EvBits[d] -> FALSE
    [] e.type = "EV_KEY" -> e.code \in KeyBits[d] /\ Bit(e.code, r.key) # e.value
    [] e.type = "EV_ABS" -> AbsFilter(r.abs, Fuzz[d], e.value) # r.abs
    [] e.type = "EV_REL" -> e.value # 0
    [] e.type = "EV_LED" -> Bit(e.code, r.led) # e.value
    [] OTHER -> TRUE

Toggle(x, set) == IF x \in set THEN set \ {x} ELSE set \cup {x}

Updated(d, r, e) ==
  LET s == [r EXCEPT !.sync = (e.type = "EV_SYN" /\ (r.sync \/ e.code = "SYN_REPORT"))] IN
  CASE e.type = "EV_KEY" /\ e.value # 2 ->
         [s EXCEPT !.key = Toggle(e.code, @),
                   !.repeat_key = IF "EV_REP" \in EvBits[d] /\ e.value = 1 THEN e.code ELSE @]
    [] e.type = "EV_ABS" -> [s EXCEPT !.abs = AbsFilter(@, Fuzz[d], e.value)]
    [] e.type = "EV_LED" -> [s EXCEPT !.led = Toggle(e.code, @)]
    [] OTHER -> s

Receivers(d) ==
  IF dev[d].grab # NULL THEN <<dev[d].grab>>
  ELSE LET list == HandlesOf(d) IN Kept(list, {n \in DOMAIN list : handle[list[n]].open > 0})

(* input_event: the device, acc.dev, and the events it passed on, acc.out.  *)
Fresh(r) == [dev |-> r, out |-> <<>>]
input_event(d, acc, e) ==
  IF Passes(d, acc.dev, e) THEN [dev |-> Updated(d, acc.dev, e), out |-> Append(acc.out, e)]
  ELSE acc

(* A driver reports an event and ends the packet.                           *)
Reported(d, r, e) == input_event(d, input_event(d, Fresh(r), e), SynReport)

(* The timer of the core repeats the last key pressed while it is held.     *)
Repeats(d) == dev[d].repeat_key \in dev[d].key
=============================================================================
