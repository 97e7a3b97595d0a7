------------------------------ MODULE Keyboard ------------------------------
(***************************************************************************)
(* The keyboard handler of the virtual terminals: the binding of keyboards *)
(* and speakers to VTs, the translation of key events through the key maps *)
(* for the foreground console, the lights, and the requests of programs    *)
(* that change any of them.                                                *)
(*                                                                         *)
(* Source: drivers/char/keyboard.c, vt_proc.c, sysrq.c, and the keyboard   *)
(* requests of vt_ioctl.c; include/linux/kbd_kern.h.                       *)
(*                                                                         *)
(* One event is handled at a time (it comes from an interrupt); a request  *)
(* runs under the big kernel lock.  The lights are set by a tasklet.       *)
(* The effects of one event (what goes to the tty, which function of the   *)
(* console is called) are in queue until the next event.  A step that      *)
(* follows a pointer to nothing, or to freed memory, is an oops, after     *)
(* which the model stops.                                                  *)
(***************************************************************************)
EXTENDS InputCore

CONSTANTS
  kbd, evdev,    \* the handler of this module, and one that programs grab through
  Vts,           \* the VTs, a sequence: vt_list; the first one is admin_vt
  Consoles,      \* the consoles
  VtOf,          \* VtOf[c]: the VT console c belongs to
  Opened,        \* the consoles with a tty
  Mods,          \* the modifiers: the bits of shift_state
  Accents,       \* accent_table: triples <<diacr, base, result>>
  AltKeys,       \* KEY_LEFTALT, KEY_RIGHTALT
  SysrqKeys,     \* KEY_SYSRQ
  SysrqOp,       \* SysrqOp[k]: the enabled operation of key k, or NULL
  HighKeys,      \* key codes above NR_KEYS
  LedSets,       \* the lights programs ask for
  Scenarios,     \* what may happen in one behaviour: the devices plugged, the keys
                 \* pressed, the handlers loaded, the consoles in use, the modes set and the
                 \* requests made (ops), the handlers there from the start (loaded), and
                 \* key_maps (maps)
  NULLMAP        \* a table that is not allocated

(* Every VT has a console, every console a VT; the sequences of VTs and of  *)
(* loaded handlers name each once.  The plain key map is always there.  A   *)
(* symbol that is a modifier or a lock names one of the modifiers, and there *)
(* is no modifier among the key codes above NR_KEYS.                         *)
ASSUME VtAssumption ==
  /\ kbd \in Handlers
  /\ Vts \in Seq(Range(Vts)) /\ Vts # <<>> /\ NULL \notin Range(Vts)
  /\ \A m, n \in DOMAIN Vts : Vts[m] = Vts[n] => m = n
  /\ VtOf \in [Consoles -> Range(Vts)] /\ Range(VtOf) = Range(Vts)
ASSUME ScenarioAssumption ==
  /\ "capsshift" \notin Mods
  /\ \A x \in Scenarios :
    /\ x.loaded \in Seq(Handlers)
    /\ \A m, n \in DOMAIN x.loaded : x.loaded[m] = x.loaded[n] => m = n
    /\ x.maps[{}] # NULLMAP
    /\ \A m \in SUBSET Mods, k \in Keys : x.maps[m] # NULLMAP =>
         LET sym == x.maps[m][k] IN
         /\ sym.type \in {"KT_SLOCK", "KT_LOCK"} => sym.val \in Mods
         /\ sym.type = "KT_SHIFT" =>
              sym.val \in Mods \/ (sym.val = "capsshift" /\ "shift" \in Mods)
         /\ sym.type \in {"KT_SHIFT", "KT_SLOCK"} => k \notin HighKeys
ASSUME FiniteAssumption == IsFiniteSet(Devices) /\ IsFiniteSet(Keys)

VARIABLES
  vt,            \* vt[v]: struct vt_struct
  private,       \* private[i]: the VT of handle i
  kb,            \* the static variables of keyboard.c
  table,         \* table[c]: struct kbd_struct
  tasklet,       \* keyboard_tasklet is scheduled
  queue,         \* the effects of the last event
  lost,          \* history: keys an event of which never reached the modifiers
  oops,
  sc             \* the scenario of this behaviour

kbdVars == <<vt, private, kb, table, tasklet, queue, lost, oops, sc>>
vars == <<coreVars, kbdVars>>

ops == sc.ops
key_maps == sc.maps

VT == Range(Vts)
admin_vt == Vts[1]

KbdModes == {"VC_XLATE", "VC_MEDIUMRAW", "VC_RAW", "VC_UNICODE"}
ModeFlags == {"VC_APPLIC", "VC_CKMODE", "VC_REPEAT", "VC_CRLF", "VC_META"}

Init ==
  /\ sc \in Scenarios
  /\ CoreInit(sc.loaded)
  /\ vt = [v \in VT |->
       [keyboard |-> NULL, beeper |-> NULL, beepData |-> NULL, beepArmed |-> FALSE,
        fg |-> CHOOSE c \in Consoles : VtOf[c] = v, vt_ledstate |-> {}, vt_ledioctl |-> {}]]
  /\ private = [i \in HandleIds |-> NULL]
  /\ kb = [key_down |-> {}, shift_down |-> [m \in Mods |-> 0], shift_state |-> {},
           dead_key_next |-> FALSE, npadch |-> -1, diacr |-> NULL, rep |-> FALSE,
           sysrq_alt |-> FALSE, sysrq_down |-> FALSE]
  /\ table = [c \in Consoles |->
       [lockstate |-> {}, slockstate |-> {}, kbdmode |-> "VC_XLATE",
        ledmode |-> "LED_SHOW_FLAGS", ledflagstate |-> {},
        modeflags |-> {"VC_REPEAT", "VC_META"}, stopped |-> FALSE]]
  /\ tasklet = TRUE /\ queue = <<>> /\ lost = {} /\ oops = FALSE

(***************************************************************************)
(* Key symbols are [type, val].  The handlers below map the state of the   *)
(* translation, s = [kb, table, q, led], and the foreground console c; led *)
(* says that set_leds was called.                                          *)
(***************************************************************************)
Sym(t, v) == [type |-> t, val |-> v]
Xor(A, B) == (A \ B) \cup (B \ A)

put_queue(s, c, ch) == IF c \in Opened THEN [s EXCEPT !.q = Append(@, <<c, ch>>)] ELSE s
Call(s, c, f) == [s EXCEPT !.q = Append(@, <<c, f>>)]
Set(s, field, val) == [s EXCEPT !.kb = [@ EXCEPT ![field] = val]]
SetTable(s, c, field, val) == [s EXCEPT !.table[c] = [@ EXCEPT ![field] = val]]

Modifier(sym) == IF sym.val = "capsshift" THEN "shift" ELSE sym.val

(* shift_down and shift_state counted anew from the keys that are down.     *)
compute_shiftstate(k) ==
  LET keysOf(m) == {x \in k.key_down : /\ key_maps[{}][x].type \in {"KT_SHIFT", "KT_SLOCK"}
                                       /\ Modifier(key_maps[{}][x]) = m}
  IN [k EXCEPT !.shift_down = [m \in Mods |-> Cardinality(keysOf(m))],
               !.shift_state = {m \in Mods : keysOf(m) # {}}]

(* A dead key followed by ch: their combination, the dead key itself, or    *)
(* both, the dead key being queued.                                         *)
handle_diacr(s, c, ch) ==
  LET d == s.kb.diacr
      t == Set(s, "diacr", NULL)
      found == {a \in Accents : a[1] = d /\ a[2] = ch}
  IN CASE found # {} -> [s |-> t, ch |-> (CHOOSE a \in found : TRUE)[3]]
       [] found = {} /\ ch \in {" ", d} -> [s |-> t, ch |-> d]
       [] OTHER -> [s |-> put_queue(t, c, d), ch |-> ch]

Composed(s, c, ch) == IF s.kb.diacr = NULL THEN [s |-> s, ch |-> ch] ELSE handle_diacr(s, c, ch)

k_self(s, c, ch) ==
  LET r == Composed(s, c, ch) IN
  IF r.s.kb.dead_key_next THEN Set(Set(r.s, "dead_key_next", FALSE), "diacr", r.ch)
  ELSE put_queue(r.s, c, r.ch)

k_dead2(s, c, ch) == LET r == Composed(s, c, ch) IN Set(r.s, "diacr", r.ch)

k_meta(s, c, ch) ==
  IF "VC_META" \in s.table[c].modeflags THEN put_queue(put_queue(s, c, "ESC"), c, ch)
  ELSE put_queue(s, c, <<"meta", ch>>)

applkey(s, c, key, app) == put_queue(s, c, <<IF app THEN "ESC O" ELSE "ESC [", key>>)

k_cur(s, c, v) == applkey(s, c, v, "VC_CKMODE" \in s.table[c].modeflags)

k_fn(s, c, v) == put_queue(s, c, <<"func_table", v>>)

(* The keypad: application codes, digits under NumLock, else editing keys.  *)
k_pad(s, c, v) ==
  LET t == s.table[c] IN
  IF "VC_APPLIC" \in t.modeflags /\ ~ ("shift" \in Mods /\ s.kb.shift_down["shift"] > 0)
  THEN applkey(s, c, v, TRUE)
  ELSE IF "num" \notin t.ledflagstate /\ v \in {"P2", "P4", "P6", "P8"} THEN k_cur(s, c, v)
  ELSE IF "num" \notin t.ledflagstate /\ v = "P5"
  THEN applkey(s, c, "G", "VC_APPLIC" \in t.modeflags)
  ELSE IF "num" \notin t.ledflagstate /\ v \notin {"PENTER", "PPLUS"} THEN k_fn(s, c, v)
  ELSE LET u == put_queue(s, c, v) IN
       IF v = "PENTER" /\ "VC_CRLF" \in t.modeflags THEN put_queue(u, c, "LF") ELSE u

(* A digit of a character code typed while Alt or AltGr is held.            *)
k_ascii(s, c, v) ==
  Set(s, "npadch", IF s.kb.npadch = -1 THEN v[2] ELSE s.kb.npadch * v[1] + v[2])

k_lock(s, c, m) ==
  IF s.kb.rep THEN s ELSE SetTable(s, c, "lockstate", Toggle(m, s.table[c].lockstate))

ShiftCount(n, up) == IF ~ up THEN n + 1 ELSE IF n > 0 THEN n - 1 ELSE 0

(* Two keys may hold one modifier.  Letting it go ends a typed code.        *)
k_shift(s, c, sym, up) ==
  LET m == Modifier(sym)
      n == ShiftCount(s.kb.shift_down[m], up)
      st == IF n > 0 THEN s.kb.shift_state \cup {m} ELSE s.kb.shift_state \ {m}
      t == [s EXCEPT !.kb.shift_down[m] = n, !.kb.shift_state = st,
                     !.table[c].ledflagstate =
                        IF sym.val = "capsshift" /\ ~ up THEN @ \ {"caps"} ELSE @]
  IN IF s.kb.rep THEN s
     ELSE IF up /\ st # s.kb.shift_state /\ s.kb.npadch # -1
     THEN Set(put_queue(t, c, <<s.table[c].kbdmode = "VC_UNICODE", s.kb.npadch>>), "npadch", -1)
     ELSE t

k_slock(s, c, sym, up) ==
  LET t == k_shift(s, c, sym, up)
      m == sym.val
      sl == Toggle(m, t.table[c].slockstate)
  IN IF up \/ s.kb.rep THEN t
     ELSE SetTable(t, c, "slockstate",
                   IF key_maps[Xor(t.table[c].lockstate, sl)] = NULLMAP THEN {m} ELSE sl)

(* Functions of the console are called with what they need; the console     *)
(* switch, the screen and the signals are other modules' business.          *)
Enter(s, c) == IF s.kb.diacr = NULL THEN s ELSE Set(put_queue(s, c, s.kb.diacr), "diacr", NULL)

fn_enter(s, c) ==
  LET t == put_queue(Enter(s, c), c, "CR") IN
  IF "VC_CRLF" \in s.table[c].modeflags THEN put_queue(t, c, "LF") ELSE t

ChgLed(s, c, l) ==
  IF s.kb.rep THEN s ELSE SetTable(s, c, "ledflagstate", Toggle(l, s.table[c].ledflagstate))

fn_num(s, c) ==
  IF "VC_APPLIC" \in s.table[c].modeflags THEN applkey(s, c, "P", TRUE) ELSE ChgLed(s, c, "num")

(* start_tty and stop_tty end in con_start and con_stop, which show the     *)
(* state as ScrollLock.                                                     *)
fn_hold(s, c) ==
  IF s.kb.rep \/ c \notin Opened THEN s
  ELSE [s EXCEPT !.table[c].stopped = ~ @, !.led = TRUE,
                 !.table[c].ledflagstate =
                    IF s.table[c].stopped THEN @ \ {"scroll"} ELSE @ \cup {"scroll"}]

reset_vc(s, c) == SetTable(s, c, "kbdmode", "VC_XLATE")

fn_SAK(s, c) == reset_vc(IF c \in Opened THEN Call(s, c, "do_SAK") ELSE s, c)

fn_null(s, c) == [s EXCEPT !.kb = compute_shiftstate(@)]

(* lastcons, dec_console, inc_console, scroll_forw, scroll_back, spawn_con, *)
(* boot_it and the displays of the kernel's state change nothing here.      *)
OtherFunction(s, c, f) == Call(s, c, f)

k_spec(s, c, f) ==
  IF s.table[c].kbdmode \in {"VC_RAW", "VC_MEDIUMRAW"} /\ f # "SAK" THEN s ELSE
  CASE f = "enter" -> fn_enter(s, c)
    [] f = "caps_toggle" -> ChgLed(s, c, "caps")
    [] f = "caps_on" ->
         IF s.kb.rep THEN s
         ELSE SetTable(s, c, "ledflagstate", s.table[c].ledflagstate \cup {"caps"})
    [] f = "num" -> fn_num(s, c)
    [] f = "bare_num" -> ChgLed(s, c, "num")
    [] f = "hold" -> fn_hold(s, c)
    [] f = "compose" -> Set(s, "dead_key_next", TRUE)
    [] f = "SAK" -> fn_SAK(s, c)
    [] f = "null" -> fn_null(s, c)
    [] f = "send_intr" -> put_queue(s, c, "TTY_BREAK")
    [] OTHER -> OtherFunction(s, c, f)

(* The table of handlers; most do nothing when the key is let go.           *)
k_handler(s, c, sym, up) ==
  IF up /\ sym.type \notin {"KT_SHIFT", "KT_SLOCK"} THEN s ELSE
  CASE sym.type = "KT_SHIFT" -> k_shift(s, c, sym, up)
    [] sym.type = "KT_SLOCK" -> k_slock(s, c, sym, up)
    [] sym.type \in {"KT_LATIN", "KT_LETTER"} -> k_self(s, c, sym.val)
    [] sym.type = "KT_FN" -> k_fn(s, c, sym.val)
    [] sym.type = "KT_SPEC" -> k_spec(s, c, sym.val)
    [] sym.type = "KT_PAD" -> k_pad(s, c, sym.val)
    [] sym.type \in {"KT_DEAD", "KT_DEAD2"} -> k_dead2(s, c, sym.val)
    [] sym.type = "KT_CONS" -> Call(s, c, <<"set_console", sym.val>>)
    [] sym.type = "KT_CUR" -> k_cur(s, c, sym.val)
    [] sym.type = "KT_META" -> k_meta(s, c, sym.val)
    [] sym.type = "KT_ASCII" -> k_ascii(s, c, sym.val)
    [] sym.type = "KT_LOCK" -> k_lock(s, c, sym.val)
    [] OTHER -> s

(***************************************************************************)
(* kbd_keycode, for a key of the keyboard of VT v; value is 0 for up, 1    *)
(* for down and 2 for a repeat.                                            *)
(***************************************************************************)
SetAlt(s, k, value) == IF k \in AltKeys THEN Set(s, "sysrq_alt", value # 0) ELSE s

(* Raw mode hands the key to the program first, unless the device sends raw *)
(* bytes itself; so does medium raw mode, but after the SysRq keys.         *)
HW_RAW(d) == "EV_MSC" \in EvBits[d]
emulate_raw(s, c, k, value, hw_raw) ==
  IF s.table[c].kbdmode = "VC_RAW" /\ ~ hw_raw THEN put_queue(s, c, <<"raw", k, value = 0>>) ELSE s
MediumRaw(s, c, k, value) ==
  IF s.table[c].kbdmode = "VC_MEDIUMRAW" THEN put_queue(s, c, <<"code", k, value = 0>>) ELSE s

IsSysrq(s, k, value) ==
  k \in SysrqKeys /\ (s.kb.sysrq_down \/ (value = 1 /\ s.kb.sysrq_alt))

handle_sysrq(s, c, op) ==
  CASE op = NULL -> Call(s, c, "HELP")
    [] op = "unraw" -> SetTable(s, c, "kbdmode", "VC_XLATE")
    [] op = "SAK" -> reset_vc(Call(s, c, "do_SAK"), c)
    [] OTHER -> Call(s, c, op)

(* The handlers of the operations on the console use its tty untested, and  *)
(* the caller the VT's own keyboard, whichever keyboard the key came from.  *)
SysrqOops(v, c, k) == vt[v].keyboard = NULL \/ (SysrqOp[k] \in {"unraw", "SAK"} /\ c \notin Opened)

(* A key repeats unless the table says not to.  The code also holds it back *)
(* while the tty's driver has characters in its buffer; a console's never   *)
(* has any (vt_chars_in_buffer).                                            *)
NoRepeat(s, c) == s.kb.rep /\ "VC_REPEAT" \notin s.table[c].modeflags

Translate(s, c, k, value) ==
  LET t == s.table[c]
      shift_final == Xor(s.kb.shift_state \cup t.slockstate, t.lockstate)
      raw == t.kbdmode \in {"VC_RAW", "VC_MEDIUMRAW"}
      capsMap == key_maps[Xor(shift_final, {"shift"})]
      plain == key_maps[shift_final][k]
      sym == IF /\ plain.type = "KT_LETTER" /\ "caps" \in t.ledflagstate
                /\ "shift" \in Mods /\ capsMap # NULLMAP
             THEN capsMap[k] ELSE plain
      done == k_handler(s, c, [sym EXCEPT !.type = plain.type], value = 0)
  IN CASE key_maps[shift_final] = NULLMAP ->
            SetTable([s EXCEPT !.kb = compute_shiftstate(@)], c, "slockstate", {})
       [] key_maps[shift_final] # NULLMAP /\ k \in HighKeys -> s
       [] OTHER ->
            CASE plain.type = "unicode" ->
                   IF value # 0 /\ ~ raw THEN put_queue(s, c, <<"utf8", plain.val>>) ELSE s
              [] raw /\ plain.type \notin {"unicode", "KT_SPEC", "KT_SHIFT"} -> s
              [] plain.type = "KT_SLOCK" /\ ~ raw -> done
              [] OTHER -> SetTable(done, c, "slockstate", {})

\* Faulty variant: a key that is let go stays down.
KeyDownForever(s, k, value) == Set(s, "key_down", s.kb.key_down \cup {k})
KeyDown(s, k, value) ==
  Set(s, "key_down", IF value = 0 THEN s.kb.key_down \ {k} ELSE s.kb.key_down \cup {k})

kbd_keycode(s, c, k, value, hw_raw) ==
  LET a == emulate_raw(Set(SetAlt(s, k, value), "rep", value = 2), c, k, value, hw_raw)
      b == KeyDown(MediumRaw(a, c, k, value), k, value)
  IN CASE IsSysrq(a, k, value) -> Set(a, "sysrq_down", value # 0)
       [] ~ IsSysrq(a, k, value) /\ a.kb.sysrq_down /\ value = 1 -> handle_sysrq(a, c, SysrqOp[k])
       [] OTHER -> IF NoRepeat(b, c) THEN b ELSE Translate(b, c, k, value)

(* Every event, whatever its type, schedules the tasklet and wakes the      *)
(* screen; a raw byte goes to a console in raw mode.                        *)
kbd_event(s, i, e) ==
  LET v == private[i] IN
  IF v = NULL THEN s
  ELSE LET c == vt[v].fg
           t == [s EXCEPT !.led = TRUE] IN
       CASE e.type = "EV_KEY" -> kbd_keycode(t, c, e.code, e.value, HW_RAW(handle[i].dev))
         [] e.type = "EV_MSC" /\ t.table[c].kbdmode = "VC_RAW" -> put_queue(t, c, <<"raw", e.value>>)
         [] OTHER -> t

Now == [kb |-> kb, table |-> table, q |-> <<>>, led |-> FALSE]

(* The handles of the keyboard handler among those in list.                 *)
Mine(list) == Kept(list, {n \in DOMAIN list : handle[list[n]].handler = kbd})

Swallowed(d, e) ==
  LET mine == Mine(HandlesOf(d))
      got == Mine(Receivers(d))
  IN \/ got # mine \/ got = <<>> \/ \E n \in DOMAIN got : private[got[n]] = NULL
     \/ kb.sysrq_down /\ e.value # 0
     \/ e.code \in SysrqKeys
     \/ /\ key_maps[{}][e.code].type = "KT_SLOCK"
        /\ \E n \in DOMAIN got : table[vt[private[got[n]]].fg].kbdmode \in {"VC_RAW", "VC_MEDIUMRAW"}

(* Event e reaches the handler of each receiver in got.                     *)
Deliver(s, got, e) ==
  LET after[n \in 0 .. Len(got)] ==
        IF n = 0 THEN s ELSE kbd_event(after[n - 1], got[n], e)
  IN after[Len(got)]

(* The events the core let pass, at most two, one after the other.          *)
Handled(got, out) ==
  LET one == IF out = <<>> THEN Now ELSE Deliver(Now, got, out[1]) IN
  IF Len(out) < 2 THEN one ELSE Deliver(one, got, out[2])

(* A driver reports event e.                                                *)
Report(d, e) ==
  LET seen == Reported(d, dev[d], e)
      got == Mine(Receivers(d))
      end == Handled(got, seen.out)
      keys == {x \in Range(seen.out) : x.type = "EV_KEY"}
  IN /\ dev' = [dev EXCEPT ![d] = seen.dev]
     /\ kb' = end.kb /\ table' = end.table /\ queue' = end.q
     /\ tasklet' = (tasklet \/ end.led)
     /\ lost' = lost \cup {x.code : x \in {y \in keys : Swallowed(d, y)}}
     /\ oops' = \E x \in keys, i \in Range(got) :
          /\ private[i] # NULL /\ kb.sysrq_down /\ x.value = 1 /\ x.code \notin SysrqKeys
          /\ SysrqOops(private[i], vt[private[i]].fg, x.code)
     /\ UNCHANGED <<dpc, dcur, hpc, hcur, devList, handlerList, handle, links,
                    vt, private, sc>>

Alive(d) == dpc[d] \in {"walk", "in"}

KeyEvent(d) ==
  /\ Alive(d)
  /\ \E k \in KeyBits[d] \cap ops, value \in {0, 1} :
       /\ Passes(d, dev[d], Event("EV_KEY", k, value))
       /\ Report(d, Event("EV_KEY", k, value))

OtherEvent(d) ==
  /\ "EVENT" \in ops /\ Alive(d)
  /\ \E e \in {Event("EV_ABS", "ABS_X", p) : p \in Positions}
              \cup {Event("EV_REL", "REL_X", n) : n \in {0, 1}}
              \cup {Event("EV_MSC", "MSC_RAW", 1), Event("EV_FF", "FF_RUMBLE", 1)} :
       Report(d, e)

(* input_repeat_key: the timer dies when the key has been let go.           *)
RepeatTimer(d) ==
  /\ dev[d].repeat_key # NULL
  /\ IF Repeats(d) THEN Report(d, Event("EV_KEY", dev[d].repeat_key, 2))
     ELSE /\ dev' = [dev EXCEPT ![d].repeat_key = NULL]
          /\ UNCHANGED <<dpc, dcur, hpc, hcur, devList, handlerList, handle, links, kbdVars>>

(***************************************************************************)
(* The lights.                                                             *)
(***************************************************************************)
getleds(v) ==
  LET t == table[vt[v].fg] IN
  IF t.ledmode = "LED_SHOW_IOCTL" THEN vt[v].vt_ledioctl ELSE t.ledflagstate

LedEvents(d, r, leds) ==
  LET lit(acc, l) == input_event(d, acc, Event("EV_LED", l, Bit(l, leds)))
  IN input_event(d, lit(lit(lit(Fresh(r), "scroll"), "num"), "caps"), SynReport)

(* One handle brought up to date: the light of the device, the memory of    *)
(* the VT, and whether an event came back and scheduled the tasklet again.  *)
ShowLeds(acc, i) ==
  LET v == private[i]
      d == handle[i].dev
      seen == LedEvents(d, acc.dev[d], getleds(v))
      got == Mine(Receivers(d))
  IN IF v = NULL THEN acc
     ELSE IF getleds(v) = acc.vt[v].vt_ledstate THEN acc
     ELSE [dev |-> [acc.dev EXCEPT ![d] = seen.dev],
           vt |-> [acc.vt EXCEPT ![v].vt_ledstate = getleds(v)],
           led |-> \/ acc.led
                   \/ seen.out # <<>> /\ \E n \in DOMAIN got : private[got[n]] # NULL]

AllLeds(mine) ==
  LET after[n \in 0 .. Len(mine)] ==
        IF n = 0 THEN [dev |-> dev, vt |-> vt, led |-> FALSE]
        ELSE ShowLeds(after[n - 1], mine[n])
  IN after[Len(mine)]

kbd_bh ==
  /\ tasklet
  /\ LET end == AllLeds(HandlesOfHandler(kbd)) IN
     dev' = end.dev /\ vt' = end.vt /\ tasklet' = end.led
  /\ UNCHANGED <<dpc, dcur, hpc, hcur, devList, handlerList, handle, links,
                 private, kb, table, queue, lost, oops, sc>>

(***************************************************************************)
(* Connection.  A keyboard goes to the first VT without one, a speaker to  *)
(* the VT of its keyboard or to the first VT.                              *)
(***************************************************************************)
HasKeys(d) == KeyBits[d] # {}
HasSound(d) == "EV_SND" \in EvBits[d]

FreeVts == {n \in DOMAIN Vts : vt[Vts[n]].keyboard = NULL}
FirstFree == CHOOSE n \in FreeVts : \A k \in FreeVts : n <= k

(* vt_map_input: the timer that ends a beep is set up for the speaker.      *)
WithBeeper(r, i) == [r EXCEPT !.beeper = i, !.beepData = i]

Bound(d, i) ==
  CASE HasKeys(d) /\ FreeVts # {} ->
         LET v == Vts[FirstFree]
             r == [vt[v] EXCEPT !.keyboard = i]
         IN [vt |-> [vt EXCEPT ![v] = IF HasSound(d) THEN WithBeeper(r, i) ELSE r], to |-> v]
    [] ~ HasKeys(d) /\ HasSound(d) /\ vt[admin_vt].beeper = NULL ->
         [vt |-> [vt EXCEPT ![admin_vt] = WithBeeper(@, i)], to |-> admin_vt]
    [] OTHER -> [vt |-> vt, to |-> NULL]

(* kbd_refresh_leds; the handle is not linked yet and hears nothing of it.  *)
RefreshLeds(d, b) ==
  LET leds == getleds(b.to)
      seen == LedEvents(d, dev[d], leds)
      got == Mine(Receivers(d))
  IN IF b.to = NULL THEN [dev |-> dev, vt |-> b.vt, led |-> FALSE]
     ELSE IF ~ HasKeys(d) \/ leds = b.vt[b.to].vt_ledstate
     THEN [dev |-> dev, vt |-> b.vt, led |-> FALSE]
     ELSE [dev |-> [dev EXCEPT ![d] = seen.dev],
           vt |-> [b.vt EXCEPT ![b.to].vt_ledstate = leds],
           led |-> seen.out # <<>> /\ \E n \in DOMAIN got : private[got[n]] # NULL]

kbd_connect(d, i) ==
  LET b == Bound(d, i)
      shown == RefreshLeds(d, b)
  IN /\ handle' = [handle EXCEPT ![i] = NewHandle(d, kbd, 1)]
     /\ private' = [private EXCEPT ![i] = b.to]
     /\ dev' = shown.dev /\ vt' = shown.vt /\ tasklet' = (tasklet \/ shown.led)

(* The test of input_match_device, and what connect() itself refuses.       *)
Accepts(d, h) == <<d, h>> \in Matches /\ (h = kbd => HasKeys(d) \/ HasSound(d))

(* Handle memory is the bound of the model: kmalloc does not fail, and      *)
(* which of the free pieces it returns makes no difference.                 *)
Connect(d, h) ==
  \/ /\ ~ Accepts(d, h)
     /\ UNCHANGED <<handle, links, dev, private, vt, tasklet>>
  \/ /\ Accepts(d, h)
     /\ \E i \in HandleIds :
          /\ handle[i] = NULL /\ \A j \in HandleIds : handle[j] = NULL => i <= j
          /\ input_link_handle(i)
          /\ IF h = kbd THEN kbd_connect(d, i)
             ELSE /\ handle' = [handle EXCEPT ![i] = NewHandle(d, h, 0)]
                  /\ UNCHANGED <<dev, private, vt, tasklet>>

(* kbd_disconnect forgets the keyboard of the VT, but not its speaker.      *)
\* Faulty variant: the VT keeps its keyboard.
kbd_disconnectKeeps(gone) ==
  /\ UNCHANGED vt
  /\ private' = [i \in HandleIds |-> IF i \in gone THEN NULL ELSE private[i]]
kbd_disconnect(gone) ==
  /\ vt' = [v \in VT |-> [vt[v] EXCEPT !.keyboard =
              IF @ \in gone /\ private[@] = v THEN NULL ELSE @]]
  /\ private' = [i \in HandleIds |-> IF i \in gone THEN NULL ELSE private[i]]

Quiet == UNCHANGED <<kb, table, queue, sc>>

(* A walk may stand on a device or a handler that is gone, memory and all;  *)
(* one that comes again is new memory, on which no walk stands.             *)
WalkStep(d, h, freed) ==
  /\ IF freed THEN oops' = TRUE /\ UNCHANGED <<handle, links, dev, private, vt, tasklet>>
     ELSE Connect(d, h) /\ UNCHANGED oops
  /\ UNCHANGED lost /\ Quiet

RegisterDevice(d) ==
  /\ d \in ops /\ input_register_device(d)
  /\ \A h \in Handlers : hcur[h] # d
  /\ UNCHANGED <<vt, private, tasklet, lost, oops>> /\ Quiet

RegisterWalk(d) ==
  /\ DeviceWalk(d)
  /\ WalkStep(d, dcur[d], hpc[dcur[d]] = "out")

RegisterDone(d) ==
  /\ DeviceReady(d)
  /\ UNCHANGED <<vt, private, tasklet, lost, oops>> /\ Quiet

RegisterHandler(h) ==
  /\ h \in ops /\ input_register_handler(h)
  /\ \A d \in Devices : dcur[d] # h
  /\ UNCHANGED <<vt, private, tasklet, lost, oops>> /\ Quiet

RegisterHandlerWalk(h) ==
  /\ HandlerWalk(h)
  /\ WalkStep(hcur[h], h, dpc[hcur[h]] = "out")

RegisterHandlerDone(h) ==
  /\ HandlerReady(h)
  /\ UNCHANGED <<vt, private, tasklet, lost, oops>> /\ Quiet

UnregisterDevice(d) ==
  /\ "UNPLUG" \in ops /\ input_unregister_device(d)
  /\ LET gone == Range(HandlesOf(d)) IN Release(gone) /\ kbd_disconnect(gone)
  /\ lost' = lost \cup dev[d].key
  /\ UNCHANGED <<tasklet, oops>> /\ Quiet

DeviceRemoved(d) ==
  /\ DeviceGone(d)
  /\ UNCHANGED <<vt, private, tasklet, lost, oops>> /\ Quiet

(* The keyboard handler is never unregistered; the others are modules.      *)
UnregisterHandler(h) ==
  /\ h \in ops /\ h # kbd /\ input_unregister_handler(h)
  /\ Release(Range(HandlesOfHandler(h)))
  /\ UNCHANGED <<vt, private, tasklet, lost, oops>> /\ Quiet

Grab(i) ==
  /\ "GRAB" \in ops /\ handle[i] # NULL
  /\ handle[i].handler = evdev /\ (input_grab_device(i) \/ input_release_device(i))
  /\ UNCHANGED <<vt, private, tasklet, lost, oops>> /\ Quiet

(***************************************************************************)
(* Requests of programs on console c, and of the administrator.            *)
(***************************************************************************)
SetField(c, field, val) == table' = [table EXCEPT ![c] = [@ EXCEPT ![field] = val]]
NoCore == UNCHANGED <<coreVars, queue, lost, sc>>

(* The end of a console switch (switch_screen).                             *)
SwitchScreen(c) ==
  /\ "SWITCH" \in ops
  /\ vt' = [vt EXCEPT ![VtOf[c]].fg = c]
  /\ kb' = compute_shiftstate(kb)
  /\ tasklet' = TRUE
  /\ UNCHANGED <<private, table, oops>> /\ NoCore

KDSKBMODE(c) ==
  /\ \E mode \in KbdModes \cap ops :
       /\ SetField(c, "kbdmode", mode)
       /\ kb' = IF mode \in {"VC_XLATE", "VC_UNICODE"} THEN compute_shiftstate(kb) ELSE kb
  /\ UNCHANGED <<vt, private, tasklet, oops>> /\ NoCore

(* KDSKBMETA, and the modes the terminal emulator sets for the keyboard.    *)
SetModeFlag(c) ==
  /\ \E f \in ModeFlags \cap ops : SetField(c, "modeflags", Toggle(f, table[c].modeflags))
  /\ UNCHANGED <<vt, private, kb, tasklet, oops>> /\ NoCore

KDSKBLED(c) ==
  /\ "LEDS" \in ops
  /\ \E leds \in LedSets : SetField(c, "ledflagstate", leds)
  /\ tasklet' = TRUE
  /\ UNCHANGED <<vt, private, kb, oops>> /\ NoCore

(* KDSETLED: setledstate; a value above 7 returns to the flags.             *)
KDSETLED(c) ==
  /\ "LEDS" \in ops
  /\ \/ \E leds \in LedSets : /\ vt' = [vt EXCEPT ![VtOf[c]].vt_ledioctl = leds]
                                  /\ SetField(c, "ledmode", "LED_SHOW_IOCTL")
     \/ SetField(c, "ledmode", "LED_SHOW_FLAGS") /\ UNCHANGED vt
  /\ tasklet' = TRUE
  /\ UNCHANGED <<private, kb, oops>> /\ NoCore

(* Writing to /proc/bus/console/nn/keyboard: the keyboard of device d is    *)
(* bound to VT v, in place of the present one or (a "+") beside it.         *)
write_kbd_phys(v, d, add) ==
  /\ "REBIND" \in ops
  /\ Mine(HandlesOf(d)) # <<>>
  /\ LET i == Head(Mine(HandlesOf(d)))
         left == IF private[i] = NULL THEN vt ELSE [vt EXCEPT ![private[i]].keyboard = NULL]
         old == left[v].keyboard
     IN IF add THEN /\ vt' = left /\ private' = [private EXCEPT ![i] = v]
        ELSE /\ vt' = [left EXCEPT ![v].keyboard = i]
             /\ private' = [j \in HandleIds |-> IF j = i THEN v ELSE IF j = old THEN NULL
                                                ELSE private[j]]
  /\ UNCHANGED <<kb, table, tasklet, oops>> /\ NoCore

(* KDMKTONE, KIOCSOUND and the bell: kd_mksound on the speaker of the VT,   *)
(* and the timer that ends the tone.                                        *)
Sounded(d) == \E n \in DOMAIN Mine(Receivers(d)) : private[Mine(Receivers(d))[n]] # NULL

kd_mksound(v) ==
  /\ "SOUND" \in ops
  /\ LET i == vt[v].beeper
         p == private[i] IN
     CASE i = NULL -> UNCHANGED <<vt, tasklet, oops>>
       [] i # NULL /\ handle[i] = NULL -> oops' = TRUE /\ UNCHANGED <<vt, tasklet>>
       [] OTHER ->
            IF p = NULL THEN UNCHANGED <<vt, tasklet, oops>>
            ELSE /\ \E ticks \in BOOLEAN :
                      /\ vt' = [vt EXCEPT ![p].beepArmed = ticks]
                      /\ oops' = (ticks /\ vt[p].beepData = NULL)
                 /\ tasklet' = (tasklet \/ Sounded(handle[i].dev))
  /\ UNCHANGED <<private, kb, table>> /\ NoCore

kd_nosound(v) ==
  /\ vt[v].beepArmed
  /\ vt' = [vt EXCEPT ![v].beepArmed = FALSE]
  /\ LET i == vt[v].beepData IN
     IF handle[i] = NULL THEN oops' = TRUE /\ UNCHANGED tasklet
     ELSE tasklet' = (tasklet \/ Sounded(handle[i].dev)) /\ UNCHANGED oops
  /\ UNCHANGED <<private, kb, table>> /\ NoCore

(* KDKBDREP: the rate belongs to the VT's own keyboard, which is used       *)
(* untested; the two delays are left out, the events that change them not.  *)
KDKBDREP(v) ==
  /\ "RATE" \in ops
  /\ LET i == vt[v].keyboard IN
     IF i = NULL THEN oops' = TRUE /\ UNCHANGED tasklet
     ELSE /\ \E changed \in BOOLEAN :
               tasklet' = (tasklet \/ (changed /\ "EV_REP" \in EvBits[handle[i].dev]
                                              /\ Sounded(handle[i].dev)))
          /\ UNCHANGED oops
  /\ UNCHANGED <<vt, private, kb, table>> /\ NoCore

DeviceStep(d) ==
  \/ RegisterDevice(d) \/ RegisterWalk(d) \/ RegisterDone(d)
  \/ UnregisterDevice(d) \/ DeviceRemoved(d)
  \/ KeyEvent(d) \/ OtherEvent(d) \/ RepeatTimer(d)

HandlerStep(h) ==
  \/ RegisterHandler(h) \/ RegisterHandlerWalk(h) \/ RegisterHandlerDone(h) \/ UnregisterHandler(h)

ConsoleStep(c) ==
  \/ SwitchScreen(c) \/ KDSKBMODE(c) \/ SetModeFlag(c) \/ KDSKBLED(c) \/ KDSETLED(c)

VtStep(v) ==
  \/ kd_mksound(v) \/ kd_nosound(v) \/ KDKBDREP(v)
  \/ \E d \in Devices, add \in BOOLEAN : write_kbd_phys(v, d, add)

Next ==
  /\ ~ oops
  /\ \/ \E d \in Devices : DeviceStep(d)
     \/ \E h \in Handlers : HandlerStep(h)
     \/ \E i \in HandleIds : Grab(i)
     \/ \E c \in Consoles \cap ops : ConsoleStep(c)
     \/ \E v \in VT : VtStep(v)
     \/ kbd_bh

Spec == Init /\ [][Next]_vars

(***************************************************************************)
(* Properties.                                                             *)
(***************************************************************************)

(* Registration: whichever way the unlocked walks of input_register_device  *)
(* and input_register_handler interleave, a device and a handler that both  *)
(* finished and match are connected.                                        *)
NoMissedConnection ==
  \A d \in Devices, h \in Handlers :
    dpc[d] = "in" /\ hpc[h] = "in" /\ Accepts(d, h) =>
      \E n \in DOMAIN links : handle[links[n]].dev = d /\ handle[links[n]].handler = h

(* Binding: the keyboard of a VT is a live handle, and that handle sends    *)
(* its keys to this VT, however keyboards are unplugged and rebound.        *)
KeyboardBinding ==
  \A v \in VT : vt[v].keyboard # NULL =>
    handle[vt[v].keyboard] # NULL /\ private[vt[v].keyboard] = v

(* Modifiers: shift_state holds a modifier only while one of its keys is    *)
(* held on some device, or after an event of such a key was kept from the   *)
(* translation (by a grab, by SysRq, by raw mode, by unplugging).  The key  *)
(* maps must agree on which keys are modifiers.                             *)
SameModifiers ==
  \A m \in SUBSET Mods, k \in Keys : key_maps[m] # NULLMAP =>
    \/ key_maps[m][k] = key_maps[{}][k]
    \/ {key_maps[m][k].type, key_maps[{}][k].type} \cap {"KT_SHIFT", "KT_SLOCK"} = {}

NoStuckModifier ==
  SameModifiers =>
    \A m \in kb.shift_state :
      \E k \in Keys : /\ key_maps[{}][k].type \in {"KT_SHIFT", "KT_SLOCK"}
                      /\ Modifier(key_maps[{}][k]) = m
                      /\ k \in lost \/ \E d \in Devices : k \in dev[d].key

(* Axes: the noise filter of input_event never moves a position past the    *)
(* one reported, nor away from it.                                          *)
Between(a, x, b) == (a <= x /\ x <= b) \/ (b <= x /\ x <= a)

AxisFollows ==
  \A d \in Devices, p \in Positions :
    Between(dev[d].abs, AbsFilter(dev[d].abs, Fuzz[d], p), p)
=============================================================================
