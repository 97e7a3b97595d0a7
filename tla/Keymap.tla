------------------------------- MODULE Keymap -------------------------------
(***************************************************************************)
(* The tables of the keyboard that programs change: the key maps           *)
(* (KDSKBENT), the key codes of a keyboard (KDSETKEYCODE) and the strings  *)
(* of the function keys (KDSKBSENT).                                       *)
(*                                                                         *)
(* Source: drivers/char/vt_ioctl.c (do_kdsk_ioctl, do_kbkeycode_ioctl,     *)
(* do_kdgkb_ioctl), drivers/char/keyboard.c (setkeycode).                  *)
(*                                                                         *)
(* The requests run under the big kernel lock, but kmalloc may sleep and   *)
(* let another request through in the middle of one: a request that needs  *)
(* memory takes two steps, the second with what the first one computed.    *)
(* The three kinds of table do not meet; a behaviour uses one of them.     *)
(***************************************************************************)
EXTENDS Integers, Sequences, FiniteSets, FiniteSetsExt

CONSTANTS
  Procs,         \* processes
  Maps,          \* the modifier combinations, numbers; 0 is the plain map
  StaticMaps,    \* the maps compiled into the kernel
  MapKeys,       \* the keys of a map, numbers; key 0 holds the mark of allocation
  Syms,          \* symbols programs bind
  MAX_NR_OF_USER_KEYMAPS,
  Scancodes,     \* the scan codes of the keyboard
  Codes,         \* key codes that an entry of the keyboard's table can hold
  DefaultCodes,  \* DefaultCodes[x]: the code of scan code x at first
  MAX_NR_FUNC,   \* function keys are 0 .. MAX_NR_FUNC - 1
  Texts,         \* strings of function keys, sequences of characters
  FirstSize,     \* the size of func_buf
  Block,         \* the size of the smallest buffer kmalloc is asked for
  MaxSize,       \* bound: the largest buffer
  NULL

ASSUME MapsAssumption ==
  /\ Maps \subseteq Nat /\ StaticMaps \subseteq Maps /\ 0 \in StaticMaps
  /\ MapKeys \subseteq Nat /\ 0 \in MapKeys
  /\ MAX_NR_OF_USER_KEYMAPS \in Nat /\ Cardinality(StaticMaps) <= MAX_NR_OF_USER_KEYMAPS
  /\ IsFiniteSet(Maps) /\ IsFiniteSet(Procs) /\ Procs # {}
ASSUME SymbolAssumption == NULL \notin [MapKeys -> Syms \cup {"K_HOLE", "K_ALLOCATED"}]
ASSUME CodeAssumption == DefaultCodes \in [Scancodes -> Codes]
ASSUME FuncAssumption ==
  /\ MAX_NR_FUNC \in Nat \ {0} /\ FirstSize \in Nat \ {0} /\ Block \in Nat \ {0}

VARIABLES
  task,          \* the tables this behaviour is about
  key_maps,      \* key_maps[m]: a table or NULL
  keymap_count,
  leaked,        \* history: tables no pointer leads to any more
  keycode,       \* keycode[x]: the code of scan code x
  keybit,        \* dev->keybit: the codes the input core lets pass
  func_table,    \* func_table[f]: where the string of f starts, or NULL
  buf,           \* the characters of the buffer at funcbufptr, from 0
  funcbufleft,
  work,          \* work[p]: the request of process p that sleeps in kmalloc, or NULL
  stale          \* a request went on with pointers into a buffer that had changed

mapVars == <<key_maps, keymap_count, leaked>>
codeVars == <<keycode, keybit>>
funcVars == <<func_table, buf, funcbufleft>>
vars == <<task, mapVars, codeVars, funcVars, work, stale>>

Funcs == 0 .. MAX_NR_FUNC - 1
NUL == "NUL"
RUBBISH == "RUBBISH"

Init ==
  /\ task \in {"maps", "codes", "strings"}
  /\ key_maps = [m \in Maps |-> IF m \in StaticMaps THEN [k \in MapKeys |-> "K_HOLE"] ELSE NULL]
  /\ keymap_count = Cardinality(StaticMaps) /\ leaked = 0
  /\ keycode = DefaultCodes /\ keybit = {keycode[x] : x \in Scancodes}
  /\ func_table = [f \in Funcs |-> NULL]
  /\ buf = [n \in 0 .. FirstSize - 1 |-> RUBBISH] /\ funcbufleft = FirstSize
  /\ work = [p \in Procs |-> NULL] /\ stale = FALSE

(***************************************************************************)
(* KDSKBENT.  Entry 0 of a map is the mark of allocated memory and is      *)
(* never assigned; K_NOSUCHMAP for it frees the map, or only forgets it    *)
(* when it is compiled in.                                                 *)
(***************************************************************************)
Allocated(map) == map # NULL /\ map[0] = "K_ALLOCATED"
NewMap == [k \in MapKeys |-> IF k = 0 THEN "K_ALLOCATED" ELSE "K_HOLE"]

Idle(p) == ~ stale /\ work[p] = NULL

\* Faulty variant: a map of the kernel that is forgotten is uncounted too.
UncountedAlways(m) == 1
Uncounted(m) == IF Allocated(key_maps[m]) THEN 1 ELSE 0

DisallocateMap(p, m) ==
  /\ task = "maps" /\ Idle(p)
  /\ m # 0 /\ key_maps[m] # NULL
  /\ key_maps' = [key_maps EXCEPT ![m] = NULL]
  /\ keymap_count' = keymap_count - Uncounted(m)
  /\ UNCHANGED <<task, leaked, codeVars, funcVars, work, stale>>

(* The processes are not privileged: they may not bind the secure attention *)
(* key, nor bind over it, and the limit holds for them.  The shift state,   *)
(* which follows a modifier that is bound anew, is module Keyboard's.       *)
Bind(map, k, sym) ==
  IF map[k] # sym /\ "K_SAK" \in {map[k], sym} THEN map ELSE [map EXCEPT ![k] = sym]

SetEntry(p, m, k, sym) ==
  /\ task = "maps" /\ Idle(p) /\ k # 0
  /\ IF key_maps[m] # NULL
     THEN /\ key_maps' = [key_maps EXCEPT ![m] = Bind(@, k, sym)]
          /\ UNCHANGED work
     ELSE /\ keymap_count < MAX_NR_OF_USER_KEYMAPS
          /\ work' = [work EXCEPT ![p] = [map |-> m, key |-> k, sym |-> sym]]
          /\ UNCHANGED key_maps
  /\ UNCHANGED <<task, keymap_count, leaked, codeVars, funcVars, stale>>

(* kmalloc returned: the pointer is stored whatever is there by now.        *)
MapReady(p) ==
  /\ task = "maps" /\ work[p] # NULL
  /\ key_maps' = [key_maps EXCEPT ![work[p].map] = Bind(NewMap, work[p].key, work[p].sym)]
  /\ leaked' = leaked + Cardinality({m \in {work[p].map} : Allocated(key_maps[m])})
  /\ keymap_count' = keymap_count + 1
  /\ work' = [work EXCEPT ![p] = NULL]
  /\ UNCHANGED <<task, codeVars, funcVars, stale>>

(***************************************************************************)
(* KDSETKEYCODE: one scan code gets another key code; the core must go on  *)
(* letting pass the old one if another scan code produces it.  The code    *)
(* fits the table: the request admits any up to KEY_MAX, and a table of    *)
(* bytes would keep the low byte of a larger one.                          *)
(***************************************************************************)
\* Faulty variant: the old code is cleared last.
StillProducedNever(codes, old) == FALSE
StillProduced(codes, old) == \E x \in Scancodes : codes[x] = old

setkeycode(p, x, c) ==
  /\ task = "codes" /\ Idle(p)
  /\ keycode' = [keycode EXCEPT ![x] = c]
  /\ LET old == keycode[x]
         bits == (keybit \ {old}) \cup {c}
     IN keybit' = IF StillProduced(keycode', old) THEN bits \cup {old} ELSE bits
  /\ UNCHANGED <<task, mapVars, funcVars, work, stale>>

(***************************************************************************)
(* KDSKBSENT.  The strings lie one after the other in the order of their   *)
(* keys; one that changes its length moves those behind it, in the buffer  *)
(* or on the way into a larger one.                                        *)
(***************************************************************************)
funcbufsize == Cardinality(DOMAIN buf)
first_free == funcbufsize - funcbufleft

(* strlen at offset o, and the string there.                                *)
StrLen(o) == Min({n \in 0 .. funcbufsize - o - 1 : buf[o + n] = NUL})
StringAt(o) == [n \in 1 .. StrLen(o) |-> buf[o + n - 1]]

(* The next key with a string, and where the strings behind f start.        *)
NextFunc(f) ==
  LET later == {g \in Funcs : g > f /\ func_table[g] # NULL} IN
  IF later = {} THEN MAX_NR_FUNC ELSE Min(later)
Behind(f) == IF NextFunc(f) < MAX_NR_FUNC THEN func_table[NextFunc(f)] ELSE first_free

Delta(f, text) == Len(text) + (IF func_table[f] = NULL THEN 1 ELSE - StrLen(func_table[f]))

\* Faulty variant: the pointers to the strings that moved are left behind.
MovedNot(f, delta) ==
  [g \in Funcs |-> IF g = f /\ func_table[f] = NULL THEN Behind(f) ELSE func_table[g]]
Moved(f, delta) ==
  [g \in Funcs |->
     IF g = f /\ func_table[f] = NULL THEN Behind(f)
     ELSE IF func_table[g] # NULL /\ g >= NextFunc(f) THEN func_table[g] + delta
     ELSE func_table[g]]

(* The characters of a buffer of the given size after the part behind f     *)
(* moved by delta and text was written; what lies past the strings is       *)
(* rubbish that nothing may read.                                           *)
Written(f, text, delta, size) ==
  LET at == IF func_table[f] = NULL THEN Behind(f) ELSE func_table[f]
  IN [n \in 0 .. size - 1 |->
        IF n >= at /\ n < at + Len(text) THEN text[n - at + 1]
        ELSE IF n = at + Len(text) THEN NUL
        ELSE IF n >= Behind(f) + delta /\ n < first_free + delta /\ n - delta >= 0
        THEN buf[n - delta]
        ELSE IF n < first_free + delta THEN buf[n] ELSE RUBBISH]

(* The smallest power of two times Block that is enough.                    *)
NewSize(need) == Min({Block * (2 ^ n) : n \in {k \in 0 .. need : Block * (2 ^ k) >= need}})

(* The requests that sleep while the strings change.                        *)
Overtaken == [q \in Procs |-> IF work[q] = NULL THEN NULL ELSE [work[q] EXCEPT !.fresh = FALSE]]

SetString(p, f, text) ==
  /\ task = "strings" /\ Idle(p)
  /\ LET delta == Delta(f, text) IN
     IF delta <= funcbufleft
     THEN /\ func_table' = Moved(f, delta)
          /\ buf' = Written(f, text, delta, funcbufsize)
          /\ funcbufleft' = funcbufleft - delta
          /\ work' = Overtaken
     ELSE /\ NewSize(first_free + delta) <= MaxSize
          /\ work' = [work EXCEPT ![p] = [func |-> f, text |-> text, fresh |-> TRUE]]
          /\ UNCHANGED funcVars
  /\ UNCHANGED <<task, mapVars, codeVars, stale>>

(* The larger buffer is there.  The pointers of the request were computed   *)
(* before it slept.  If the buffer was replaced since, it reads freed       *)
(* memory; if strings moved within it, they are copied from the wrong       *)
(* places and one may be lost.  The behaviour ends in both cases.           *)
BufferReady(p) ==
  /\ task = "strings" /\ work[p] # NULL /\ ~ stale
  /\ work' = [Overtaken EXCEPT ![p] = NULL]
  /\ IF ~ work[p].fresh THEN stale' = TRUE /\ UNCHANGED funcVars
     ELSE LET f == work[p].func
              text == work[p].text
              delta == Delta(f, text)
              size == NewSize(first_free + delta)
          IN /\ func_table' = Moved(f, delta)
             /\ buf' = Written(f, text, delta, size)
             /\ funcbufleft' = funcbufleft - delta + size - funcbufsize
             /\ UNCHANGED stale
  /\ UNCHANGED <<task, mapVars, codeVars>>

(* kmalloc failed, in any of the requests: nothing has been changed yet.    *)
NoMemory(p) ==
  /\ work[p] # NULL /\ ~ stale
  /\ work' = [work EXCEPT ![p] = NULL]
  /\ UNCHANGED <<task, mapVars, codeVars, funcVars, stale>>

Next ==
  \E p \in Procs :
    \/ \E m \in Maps : DisallocateMap(p, m) \/ \E k \in MapKeys, s \in Syms : SetEntry(p, m, k, s)
    \/ MapReady(p)
    \/ \E x \in Scancodes, c \in Codes : setkeycode(p, x, c)
    \/ \E f \in Funcs, text \in Texts : SetString(p, f, text)
    \/ BufferReady(p) \/ NoMemory(p)

Spec == Init /\ [][Next]_vars

(***************************************************************************)
(* Properties.                                                             *)
(***************************************************************************)

(* Key maps: keymap_count, which the limit is tested against, counts the    *)
(* compiled maps and every table still allocated, those lost to two         *)
(* requests for one map included; a request that slept may pass the limit   *)
(* by the number of the processes that slept with it.                       *)
KeymapCountExact ==
  /\ keymap_count = Cardinality(StaticMaps) + leaked
                    + Cardinality({m \in Maps : Allocated(key_maps[m])})
  /\ keymap_count < MAX_NR_OF_USER_KEYMAPS + Cardinality(Procs)
  /\ key_maps[0] # NULL

(* Key codes: KDSETKEYCODE never hides a code that some scan code of the    *)
(* keyboard still produces, or input_event would drop the key.              *)
ProducedKeysPass == {keycode[x] : x \in Scancodes} \subseteq keybit

(* Function strings: moving and growing the buffer implements a table of    *)
(* independent strings.                                                     *)
Strings ==
  INSTANCE FuncStrings WITH Functions <- Funcs,
    strings <- [f \in Funcs |-> IF func_table[f] = NULL THEN NULL ELSE StringAt(func_table[f])]

StringsKept == Strings!Spec
=============================================================================
