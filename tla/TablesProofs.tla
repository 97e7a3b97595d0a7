---------------------------- MODULE TablesProofs ----------------------------
(***************************************************************************)
(* Theorems about the tables of the keyboard and about the text in the     *)
(* memory of VGA hardware.                                                 *)
(*                                                                         *)
(* Keymap: the count of the key maps is exact and passes its limit by no   *)
(* more than the requests that slept, and no key code that a keyboard      *)
(* produces is hidden, for any number of maps, keys, codes and processes.  *)
(* keymap_count is tested before kmalloc sleeps and raised afterwards: what*)
(* is inductive is the sum of the count and of the requests asleep.        *)
(*                                                                         *)
(* Vga: the text of every console is kept and what the monitor shows is    *)
(* the foreground's, for any consoles, screen and memory.  The functions   *)
(* map a state t to a state u, as in the model.  What is inductive ties    *)
(* the place of a text to the flags: the foreground console has video      *)
(* memory when set_origin would give it, and otherwise its buffer, unless  *)
(* its text was exposed (OriginSound); of such a text nothing but its      *)
(* place, while the driver owns the memory, is claimed.  Between           *)
(* the steps of a request the text is elsewhere: in the buffers of all     *)
(* consoles (BufferedIn) before it is redrawn, and newly written rows      *)
(* (NowShows) before the history has them.                                 *)
(***************************************************************************)
EXTENDS Keymap, Vga, FiniteSetTheorems, TLAPS

KeySym == Syms \cup {"K_HOLE", "K_ALLOCATED"}
MapRequest == [map : Maps, key : MapKeys \ {0}, sym : Syms]

(* The requests for a map that wait for memory, and the maps that are       *)
(* allocated.                                                               *)
Asleep == {p \in Procs : task = "maps" /\ work[p] # NULL}
Dynamic == {m \in Maps : Allocated(key_maps[m])}

MapType ==
  /\ key_maps \in [Maps -> [MapKeys -> KeySym] \cup {NULL}]
  /\ keymap_count \in Int /\ leaked \in Nat
  /\ DOMAIN work = Procs
  /\ task = "maps" => \A p \in Procs : work[p] = NULL \/ work[p] \in MapRequest

CountInv ==
  /\ MapType
  /\ keymap_count = Cardinality(StaticMaps) + leaked + Cardinality(Dynamic)
  /\ keymap_count + Cardinality(Asleep) < MAX_NR_OF_USER_KEYMAPS + Cardinality(Procs)
  /\ key_maps[0] # NULL

-----------------------------------------------------------------------------
(* The sets of key maps and of processes are finite, so that they can be    *)
(* counted.                                                                 *)
LEMMA MapsFinite ==
  /\ IsFiniteSet(StaticMaps) /\ Cardinality(StaticMaps) \in Nat
  /\ IsFiniteSet(Procs) /\ Cardinality(Procs) \in Nat /\ Cardinality(Procs) > 0
  /\ IsFiniteSet(Maps)
<1>1. IsFiniteSet(StaticMaps)
  BY MapsAssumption, FS_Subset
<1>2. Cardinality(StaticMaps) \in Nat /\ Cardinality(Procs) \in Nat
  BY <1>1, MapsAssumption, FS_CardinalityType
<1>3. Cardinality(Procs) # 0
  BY MapsAssumption, FS_EmptySet
<1> QED  BY <1>1, <1>2, <1>3, MapsAssumption

(* The allocated maps and the processes asleep in kmalloc are finitely      *)
(* many.                                                                    *)
LEMMA DynamicFinite ==
  /\ IsFiniteSet(Dynamic) /\ Cardinality(Dynamic) \in Nat
  /\ IsFiniteSet(Asleep) /\ Cardinality(Asleep) \in Nat
  /\ Cardinality(Asleep) <= Cardinality(Procs)
<1>1. IsFiniteSet(Dynamic) /\ IsFiniteSet(Asleep) /\ Cardinality(Asleep) <= Cardinality(Procs)
  BY MapsFinite, FS_Subset DEF Dynamic, Asleep
<1> QED  BY <1>1, FS_CardinalityType

(* A request that binds a key leaves the mark of allocated memory alone.    *)
LEMMA BindKeepsMark ==
  ASSUME NEW map \in [MapKeys -> KeySym], NEW k \in MapKeys \ {0}, NEW sym \in Syms
  PROVE  /\ Bind(map, k, sym) \in [MapKeys -> KeySym]
         /\ Bind(map, k, sym)[0] = map[0]
         /\ Bind(map, k, sym) # NULL
<1>1. Bind(map, k, sym) \in [MapKeys -> KeySym] /\ Bind(map, k, sym)[0] = map[0]
  BY MapsAssumption DEF Bind, KeySym
<1> QED  BY <1>1, SymbolAssumption DEF KeySym

(* A new map is filled with holes and marked as allocated.                  *)
LEMMA NewMapMarked ==
  NewMap \in [MapKeys -> KeySym] /\ NewMap[0] = "K_ALLOCATED"
BY MapsAssumption DEF NewMap, KeySym

-----------------------------------------------------------------------------
(* The count is exact at the start.                                         *)
LEMMA CountInit == Init => CountInv
<1> SUFFICES ASSUME Init PROVE CountInv
  OBVIOUS
<1>1. MapType
  <2>1. key_maps \in [Maps -> [MapKeys -> KeySym] \cup {NULL}]
    BY DEF Init, KeySym
  <2>2. DOMAIN work = Procs /\ \A p \in Procs : work[p] = NULL
    BY DEF Init
  <2> QED  BY <2>1, <2>2, MapsFinite DEF Init, MapType
<1>2. Dynamic = {}
  <2> SUFFICES ASSUME NEW m \in Maps PROVE ~Allocated(key_maps[m])
    BY DEF Dynamic
  <2>1. key_maps[m] = NULL \/ key_maps[m] = [k \in MapKeys |-> "K_HOLE"]
    BY DEF Init
  <2> QED  BY <2>1, MapsAssumption DEF Allocated
<1>3. Asleep = {}
  BY DEF Init, Asleep
<1>4. Cardinality(Dynamic) = 0 /\ Cardinality(Asleep) = 0
  BY <1>2, <1>3, FS_EmptySet
<1>5. key_maps[0] # NULL
  <2>1. key_maps[0] = [k \in MapKeys |-> "K_HOLE"]
    BY MapsAssumption DEF Init
  <2> QED  BY <2>1, SymbolAssumption
<1> QED  BY <1>1, <1>4, <1>5, MapsFinite, MapsAssumption DEF Init, CountInv

(* Steps of the other tables.                                               *)
LEMMA CountKept ==
  ASSUME CountInv, UNCHANGED <<task, mapVars>>, DOMAIN work' = Procs,
         task = "maps" => UNCHANGED work
  PROVE  CountInv'
<1>1. Dynamic' = Dynamic
  BY DEF Dynamic, Allocated, mapVars
<1>2. Asleep' = Asleep
  BY DEF Asleep
<1>3. MapType'
  BY DEF CountInv, MapType, mapVars
<1> QED  BY <1>1, <1>2, <1>3 DEF CountInv, mapVars

(* Freeing a map takes one off the count.                                   *)
LEMMA CountDisallocate ==
  ASSUME CountInv, NEW p \in Procs, NEW m \in Maps, DisallocateMap(p, m)
  PROVE  CountInv'
<1>1. MapType'
  BY DEF CountInv, MapType, DisallocateMap, Uncounted
<1>2. Asleep' = Asleep /\ key_maps'[0] # NULL
  BY MapsAssumption DEF Asleep, DisallocateMap, CountInv, MapType
<1>3. Dynamic' = Dynamic \ {m}
  <2>1. ~Allocated(key_maps'[m])
    BY DEF DisallocateMap, CountInv, MapType, Allocated
  <2>2. \A n \in Maps \ {m} : Allocated(key_maps'[n]) <=> Allocated(key_maps[n])
    BY DEF DisallocateMap, CountInv, MapType, Allocated
  <2> QED  BY <2>1, <2>2 DEF Dynamic
<1>4. Cardinality(Dynamic') = Cardinality(Dynamic) - Uncounted(m)
  <2>1. CASE m \in Dynamic
    <3>1. Uncounted(m) = 1
      BY <2>1 DEF Dynamic, Uncounted
    <3> QED  BY <1>3, <2>1, <3>1, DynamicFinite, FS_RemoveElement
  <2>2. CASE m \notin Dynamic
    <3>1. Uncounted(m) = 0 /\ Dynamic' = Dynamic
      BY <1>3, <2>2 DEF Dynamic, Uncounted
    <3> QED  BY <3>1, DynamicFinite
  <2> QED  BY <2>1, <2>2
<1>5. keymap_count' = keymap_count - Uncounted(m) /\ leaked' = leaked
      /\ Uncounted(m) \in {0, 1}
  BY DEF DisallocateMap, Uncounted
<1> QED  BY <1>1, <1>2, <1>4, <1>5, MapsFinite, DynamicFinite, MapsAssumption DEF CountInv, MapType

(* Setting an entry of a map that exists leaves the count alone, and the    *)
(* request of one that sleeps is counted on.                                *)
LEMMA CountSetEntry ==
  ASSUME CountInv, NEW p \in Procs, NEW m \in Maps, NEW k \in MapKeys, NEW sym \in Syms,
         SetEntry(p, m, k, sym)
  PROVE  CountInv'
<1>1. k \in MapKeys \ {0} /\ task = "maps" /\ task' = task /\ keymap_count' = keymap_count
      /\ leaked' = leaked /\ work[p] = NULL
  BY DEF SetEntry, Idle
<1>2. CASE key_maps[m] # NULL
  <2>1. key_maps' = [key_maps EXCEPT ![m] = Bind(@, k, sym)] /\ work' = work
    BY <1>2 DEF SetEntry
  <2>2. key_maps[m] \in [MapKeys -> KeySym]
    BY <1>2 DEF CountInv, MapType
  <2>3. MapType'
    BY <1>1, <2>1, <2>2, BindKeepsMark DEF CountInv, MapType
  <2>4. \A n \in Maps : Allocated(key_maps'[n]) <=> Allocated(key_maps[n])
    <3> SUFFICES ASSUME NEW n \in Maps
                 PROVE  Allocated(key_maps'[n]) <=> Allocated(key_maps[n])
      OBVIOUS
    <3>1. CASE n = m
      <4>1. key_maps'[m] = Bind(key_maps[m], k, sym)
        BY <2>1 DEF CountInv, MapType
      <4> QED  BY <3>1, <4>1, <1>1, <1>2, <2>2, BindKeepsMark DEF Allocated
    <3>2. CASE n # m
      BY <2>1, <3>2 DEF CountInv, MapType, Allocated
    <3> QED  BY <3>1, <3>2
  <2>5. Dynamic' = Dynamic /\ Asleep' = Asleep
    BY <2>1, <2>4, <1>1 DEF Dynamic, Asleep
  <2>6. key_maps'[0] # NULL
    BY <2>1, <2>2, <1>1, BindKeepsMark, MapsAssumption DEF CountInv, MapType
  <2> QED  BY <1>1, <2>3, <2>5, <2>6 DEF CountInv
<1>3. CASE key_maps[m] = NULL
  <2>1. /\ keymap_count < MAX_NR_OF_USER_KEYMAPS /\ key_maps' = key_maps
        /\ work' = [work EXCEPT ![p] = [map |-> m, key |-> k, sym |-> sym]]
    BY <1>3 DEF SetEntry
  <2>2. MapType'
    BY <1>1, <2>1 DEF CountInv, MapType, MapRequest
  <2>3. Dynamic' = Dynamic
    BY <2>1 DEF Dynamic, Allocated
  <2>4. Cardinality(Asleep)' <= Cardinality(Procs) /\ Cardinality(Asleep)' \in Nat
    <3>1. Asleep' \subseteq Procs
      BY DEF Asleep
    <3>2. IsFiniteSet(Asleep') /\ Cardinality(Asleep') <= Cardinality(Procs)
      BY <3>1, MapsFinite, FS_Subset
    <3> QED  BY <3>2, FS_CardinalityType
  <2> QED  BY <1>1, <2>1, <2>2, <2>3, <2>4, MapsFinite, MapsAssumption DEF CountInv, MapType
<1> QED  BY <1>2, <1>3

(* A process that wakes up is one fewer asleep.                             *)
LEMMA AsleepLess ==
  ASSUME CountInv, NEW p \in Procs, task = "maps", task' = task, work[p] # NULL,
         work' = [work EXCEPT ![p] = NULL]
  PROVE  Cardinality(Asleep)' = Cardinality(Asleep) - 1
<1>1. Asleep' = Asleep \ {p} /\ p \in Asleep
  BY DEF Asleep, CountInv, MapType
<1> QED  BY <1>1, DynamicFinite, FS_RemoveElement

(* A process that wakes up with memory adds its map to the count, or leaks  *)
(* it.                                                                      *)
LEMMA CountMapReady ==
  ASSUME CountInv, NEW p \in Procs, MapReady(p)
  PROVE  CountInv'
<1> DEFINE m == work[p].map
<1>1. task = "maps" /\ task' = task /\ work[p] # NULL /\ work' = [work EXCEPT ![p] = NULL]
  BY DEF MapReady
<1>2. work[p] \in MapRequest
  BY <1>1 DEF CountInv, MapType
<1>3. m \in Maps /\ work[p].key \in MapKeys \ {0} /\ work[p].sym \in Syms
  BY <1>2 DEF MapRequest
<1> DEFINE new == Bind(NewMap, work[p].key, work[p].sym)
<1>4. new \in [MapKeys -> KeySym] /\ new[0] = "K_ALLOCATED" /\ new # NULL
  BY <1>3, BindKeepsMark, NewMapMarked
<1>5. key_maps' = [key_maps EXCEPT ![m] = new] /\ keymap_count' = keymap_count + 1
      /\ leaked' = leaked + Cardinality({n \in {m} : Allocated(key_maps[n])})
  BY DEF MapReady
<1> HIDE DEF m, new
<1>6. Dynamic' = Dynamic \cup {m}
  <2>1. Allocated(key_maps'[m])
    BY <1>3, <1>4, <1>5 DEF CountInv, MapType, Allocated
  <2>2. \A n \in Maps \ {m} : Allocated(key_maps'[n]) <=> Allocated(key_maps[n])
    BY <1>3, <1>5 DEF CountInv, MapType, Allocated
  <2> QED  BY <1>3, <2>1, <2>2 DEF Dynamic
<1>7. leaked' + Cardinality(Dynamic)' = leaked + Cardinality(Dynamic) + 1 /\ leaked' \in Nat
  <2>1. CASE m \in Dynamic
    <3>1. {n \in {m} : Allocated(key_maps[n])} = {m}
      BY <2>1 DEF Dynamic
    <3>2. Cardinality({m}) = 1
      BY FS_Singleton
    <3>3. Cardinality(Dynamic)' = Cardinality(Dynamic)
      BY <1>6, <2>1
    <3>4. leaked' = leaked + 1
      BY <1>5, <3>1, <3>2
    <3> QED  BY <3>3, <3>4, DynamicFinite DEF CountInv, MapType
  <2>2. CASE m \notin Dynamic
    <3>1. {n \in {m} : Allocated(key_maps[n])} = {}
      BY <1>3, <2>2 DEF Dynamic
    <3>2. Cardinality({}) = 0
      BY FS_EmptySet
    <3>3. Cardinality(Dynamic') = Cardinality(Dynamic) + 1
      BY <1>6, <2>2, DynamicFinite, FS_AddElement
    <3> QED  BY <1>5, <3>1, <3>2, <3>3, DynamicFinite DEF CountInv, MapType
  <2> QED  BY <2>1, <2>2
<1>8. MapType'
  <2>1. key_maps' \in [Maps -> [MapKeys -> KeySym] \cup {NULL}]
    BY <1>3, <1>4, <1>5 DEF CountInv, MapType
  <2>2. DOMAIN work' = Procs /\ \A q \in Procs : work'[q] = NULL \/ work'[q] \in MapRequest
    BY <1>1 DEF CountInv, MapType
  <2>3. keymap_count' \in Int
    BY <1>5 DEF CountInv, MapType
  <2> QED  BY <1>7, <2>1, <2>2, <2>3 DEF MapType
<1>9. Cardinality(Asleep)' = Cardinality(Asleep) - 1
  BY <1>1, AsleepLess
<1>10. key_maps'[0] # NULL
  BY <1>3, <1>4, <1>5, MapsAssumption DEF CountInv, MapType
<1>11. Cardinality(Dynamic)' \in Nat
  <2>1. IsFiniteSet(Dynamic')
    BY MapsFinite, FS_Subset DEF Dynamic
  <2> QED  BY <2>1, FS_CardinalityType
<1> QED  BY <1>5, <1>7, <1>8, <1>9, <1>10, <1>11, MapsFinite, DynamicFinite, MapsAssumption
           DEF CountInv, MapType

(* A process that wakes up without memory changes no map.                   *)
LEMMA CountNoMemory ==
  ASSUME CountInv, NEW p \in Procs, NoMemory(p)
  PROVE  CountInv'
<1>1. work[p] # NULL /\ work' = [work EXCEPT ![p] = NULL] /\ UNCHANGED <<task, mapVars>>
  BY DEF NoMemory
<1>2. CASE task = "maps"
  <2>1. MapType'
    BY <1>1, <1>2 DEF CountInv, MapType, mapVars
  <2>2. Dynamic' = Dynamic
    BY <1>1 DEF Dynamic, Allocated, mapVars
  <2>3. Cardinality(Asleep)' = Cardinality(Asleep) - 1
    BY <1>1, <1>2, AsleepLess
  <2> QED  BY <1>1, <2>1, <2>2, <2>3, MapsFinite, DynamicFinite, MapsAssumption
             DEF CountInv, MapType, mapVars
<1>3. CASE task # "maps"
  <2>1. DOMAIN work' = Procs
    BY <1>1 DEF CountInv, MapType
  <2> QED  BY <1>1, <1>3, <2>1, CountKept
<1> QED  BY <1>2, <1>3

(* Every step keeps the count exact.                                        *)
LEMMA CountNext == CountInv /\ [Next]_vars => CountInv'
<1> SUFFICES ASSUME CountInv, [Next]_vars PROVE CountInv'
  OBVIOUS
<1>1. CASE UNCHANGED vars
  <2>1. UNCHANGED <<task, mapVars>> /\ work' = work
    BY <1>1 DEF vars, mapVars
  <2> QED  BY <2>1, CountKept DEF CountInv, MapType
<1>2. CASE Next
  <2>1. PICK p \in Procs :
          \/ \E m \in Maps : DisallocateMap(p, m) \/ \E k \in MapKeys, s \in Syms : SetEntry(p, m, k, s)
          \/ MapReady(p)
          \/ \E x \in Scancodes, c \in Codes : setkeycode(p, x, c)
          \/ \E f \in Funcs, text \in Texts : SetString(p, f, text)
          \/ BufferReady(p) \/ NoMemory(p)
    BY <1>2 DEF Next
  <2>2. CASE \E m \in Maps : DisallocateMap(p, m)
    BY <2>2, CountDisallocate
  <2>3. CASE \E m \in Maps : \E k \in MapKeys, s \in Syms : SetEntry(p, m, k, s)
    BY <2>3, CountSetEntry
  <2>4. CASE MapReady(p)
    BY <2>4, CountMapReady
  <2>5. CASE \E x \in Scancodes, c \in Codes : setkeycode(p, x, c)
    <3>1. UNCHANGED <<task, mapVars>> /\ work' = work
      BY <2>5 DEF setkeycode
    <3> QED  BY <3>1, CountKept DEF CountInv, MapType
  <2>6. CASE \E f \in Funcs, text \in Texts : SetString(p, f, text)
    <3>1. UNCHANGED <<task, mapVars>> /\ task = "strings"
      BY <2>6 DEF SetString
    <3>2. DOMAIN work' = Procs
      BY <2>6 DEF SetString, Overtaken, CountInv, MapType
    <3> QED  BY <3>1, <3>2, CountKept
  <2>7. CASE BufferReady(p)
    <3>1. UNCHANGED <<task, mapVars>> /\ task = "strings"
      BY <2>7 DEF BufferReady
    <3>2. DOMAIN work' = Procs
      BY <2>7 DEF BufferReady, Overtaken, CountInv, MapType
    <3> QED  BY <3>1, <3>2, CountKept
  <2>8. CASE NoMemory(p)
    BY <2>8, CountNoMemory
  <2> QED  BY <2>1, <2>2, <2>3, <2>4, <2>5, <2>6, <2>7, <2>8
<1> QED  BY <1>1, <1>2

(* keymap_count counts every table, and a limit that is tested before a     *)
(* sleep is passed by fewer than the processes there are (do_kdsk_ioctl).   *)
THEOREM CountIsExact == Spec => []KeymapCountExact
<1>1. CountInv => KeymapCountExact
  BY MapsFinite, DynamicFinite, MapsAssumption DEF CountInv, MapType, KeymapCountExact, Dynamic
<1> QED  BY <1>1, CountInit, CountNext, PTL DEF Spec

-----------------------------------------------------------------------------
(* Whatever key codes programs assign, the input core lets every code pass  *)
(* that some scan code of the keyboard produces (setkeycode).               *)
THEOREM ProducedKeysAlwaysPass == Spec => []ProducedKeysPass
<1> DEFINE Inv == keycode \in [Scancodes -> Codes] /\ ProducedKeysPass
<1>1. Init => Inv
  BY CodeAssumption DEF Init, ProducedKeysPass
<1>2. Inv /\ [Next]_vars => Inv'
  <2> SUFFICES ASSUME Inv, [Next]_vars PROVE Inv'
    OBVIOUS
  <2>1. CASE UNCHANGED codeVars
    BY <2>1 DEF codeVars, ProducedKeysPass
  <2>2. CASE \E p \in Procs, x \in Scancodes, c \in Codes : setkeycode(p, x, c)
    <3>1. PICK p \in Procs, x \in Scancodes, c \in Codes : setkeycode(p, x, c)
      BY <2>2
    <3>2. keycode' = [keycode EXCEPT ![x] = c] /\ keycode' \in [Scancodes -> Codes]
      BY <3>1 DEF setkeycode
    <3>3. keycode'[x] \in keybit'
      BY <3>1, <3>2 DEF setkeycode
    <3>4. ASSUME NEW y \in Scancodes, y # x PROVE keycode'[y] \in keybit'
      <4>1. keycode'[y] = keycode[y] /\ keycode[y] \in keybit
        BY <3>2, <3>4 DEF ProducedKeysPass
      <4>2. CASE keycode[y] = keycode[x]
        <5>1. StillProduced(keycode', keycode[x])
          BY <4>1, <4>2 DEF StillProduced
        <5> QED  BY <3>1, <4>1, <4>2, <5>1 DEF setkeycode
      <4>3. CASE keycode[y] # keycode[x]
        BY <3>1, <4>1, <4>3 DEF setkeycode
      <4> QED  BY <4>2, <4>3
    <3> QED  BY <3>2, <3>3, <3>4 DEF ProducedKeysPass
  <2>3. CASE Next
    BY <2>1, <2>2, <2>3
       DEF Next, DisallocateMap, SetEntry, MapReady, SetString, BufferReady, NoMemory
  <2>4. CASE UNCHANGED vars
    BY <2>1, <2>4 DEF vars, codeVars
  <2> QED  BY <2>3, <2>4
<1> QED  BY <1>1, <1>2, PTL DEF Spec

-----------------------------------------------------------------------------
(* The fields of the state, and of a console.                               *)
VgaFields ==
  {"type", "use", "fg", "con", "blanked", "state", "interval", "off", "blank_mode", "gfx", "pal",
   "vesa", "rolled", "vram", "top", "dac", "reg", "saved", "text", "writes"}
ConFields == {"mode", "palette", "buf", "origin", "visible", "end"}

Modes == {"TEXT", "GRAPHICS"}
Origins == 0 .. VramRows - Rows

Formed(t) ==
  /\ DOMAIN t = VgaFields
  /\ t.fg \in Cons
  /\ DOMAIN t.con = Cons
  /\ \A c \in Cons : DOMAIN t.con[c] = ConFields /\ t.con[c].mode \in Modes
  /\ DOMAIN t.text = Cons /\ \A c \in Cons : DOMAIN t.text[c] = Screen
  /\ DOMAIN t.vram = 0 .. VramRows - 1

(* The text is off the screen only while it is blanked, by graphics or by   *)
(* the colours; the registers of a suspended display are kept.              *)
FlagsSound(t) ==
  /\ t.blanked \in BOOLEAN /\ t.gfx \in BOOLEAN /\ t.pal \in BOOLEAN
  /\ t.gfx => t.blanked
  /\ t.pal => t.blanked /\ ~ t.gfx
  /\ t.blank_mode \in 0 .. 3
  /\ t.vesa = 0 => t.reg = Normal
  /\ t.vesa # 0 => t.saved = Normal /\ t.blanked

(* In what follows L is the set of the consoles whose text was exposed.      *)

(* Where each other console's text is kept by now, it is its text.          *)
KeptIn(L, t) == \A c \in Cons \ L, y \in Screen : Row(t, c, y) = t.text[c][y]

(* The origin of c and its view, in video memory.                           *)
PlacedAt(t, c) == t.con[c].origin \in Origins /\ t.con[c].visible \in Origins

PlacedIn(t) ==
  \A c \in Cons : /\ t.con[c].end = t.con[c].origin + Rows
                  /\ t.con[c].origin # BUF => c = t.fg

(* The foreground console has video memory when set_origin would give it,   *)
(* its view is then what is displayed, and else it has its buffer, unless   *)
(* its text is exposed.                                                     *)
OriginSound(L, t) ==
  /\ MaySetOrigin(t) =>
       PlacedAt(t, t.fg) /\ t.rolled \in Origins /\ t.top = t.con[t.fg].visible
  /\ MaySetOrigin(t) \/ t.con[t.fg].origin = BUF \/ t.fg \in L

(* The colours of a text console that is not blanked are its own.           *)
ColoursSound(L, t) ==
  t.type = "VGAC" /\ t.con[t.fg].mode = "TEXT" /\ ~ t.blanked /\ t.fg \notin L =>
    t.dac = t.con[t.fg].palette

(* All but the colours, which come last in every request.                   *)
ViewInv(L, t) == Formed(t) /\ FlagsSound(t) /\ KeptIn(L, t) /\ PlacedIn(t) /\ OriginSound(L, t)
VgaInv(L, t) == ViewInv(L, t) /\ ColoursSound(L, t)

(* The text of every console that was not exposed is in its buffer.         *)
BufferedIn(L, t) == \A c \in Cons \ L, y \in Screen : t.con[c].buf[y] = t.text[c][y]

(* What the driver leaves alone when it moves text: all but the place.      *)
Frame(t, u) ==
  /\ DOMAIN u = VgaFields /\ u.fg = t.fg /\ u.type = t.type /\ u.text = t.text
  /\ u.blanked = t.blanked /\ u.gfx = t.gfx /\ u.pal = t.pal /\ u.blank_mode = t.blank_mode
  /\ u.vesa = t.vesa /\ u.reg = t.reg /\ u.saved = t.saved /\ u.dac = t.dac
ConFrame(t, u, c) ==
  /\ DOMAIN u.con = Cons /\ DOMAIN u.con[c] = ConFields
  /\ u.con[c].mode = t.con[c].mode /\ u.con[c].palette = t.con[c].palette
  /\ \A d \in Cons : d # c => u.con[d] = t.con[d]
Moving(t, u, c) == Frame(t, u) /\ ConFrame(t, u, c)

(* The text of c stays where it is.                                         *)
SamePlace(t, u, c) ==
  /\ u.con[c].origin = t.con[c].origin /\ u.con[c].end = t.con[c].end
  /\ u.con[c].buf = t.con[c].buf /\ u.vram = t.vram /\ u.rolled = t.rolled

-----------------------------------------------------------------------------
(* The foreground console at the start is one of the consoles.              *)
LEMMA FirstConsole == FgCons \in Cons
BY VgaAssumption DEF FgCons

(* A screen fits at every origin.                                           *)
LEMMA OriginFacts ==
  /\ 0 \in Origins /\ VramRows - Rows \in Origins /\ BUF \notin Origins
  /\ \A o \in Origins : \A y \in Screen : o + y \in 0 .. VramRows - 1 /\ (o + y) - o = y
BY VgaAssumption DEF Origins, BUF, Screen

(* Buffers lie above the memory.                                            *)
LEMMA BufferFacts ==
  /\ BUF \in Nat /\ \A y \in Screen : BUF + y \notin 0 .. VramRows - 1 /\ (BUF + y) - BUF = y
  /\ \A r \in 0 .. VramRows - 1 : r - BUF \notin Screen
BY VgaAssumption DEF BUF, Screen

(* The rows of a text in its buffer, and of one in video memory.            *)
LEMMA RowAt ==
  ASSUME NEW t, Formed(t), NEW c \in Cons, NEW y \in Screen
  PROVE  /\ t.con[c].origin = BUF => Row(t, c, y) = t.con[c].buf[y]
         /\ t.con[c].origin \in Origins => Row(t, c, y) = t.vram[t.con[c].origin + y]
BY OriginFacts, BufferFacts DEF Formed, Row, At

(* Nothing but the view changes when the display starts elsewhere (ViewAt). *)
LEMMA ViewAtFacts ==
  ASSUME NEW t, Formed(t), NEW c \in Cons, NEW v
  PROVE  LET u == ViewAt(t, c, v) IN
         /\ Moving(t, u, c) /\ SamePlace(t, u, c) /\ Formed(u)
         /\ u.con[c].visible = v /\ u.top = v
<1> DEFINE u == ViewAt(t, c, v)
<1>1. Frame(t, u)
  BY DEF Frame, ViewAt, Formed, VgaFields
<1>2. ConFrame(t, u, c) /\ SamePlace(t, u, c)
  BY DEF ConFrame, SamePlace, ViewAt, Formed, VgaFields, ConFields
<1>3. u.con[c].visible = v /\ u.top = v
  BY DEF ViewAt, Formed, VgaFields, ConFields
<1>4. Formed(u)
  <2> HIDE DEF u
  <2> QED BY <1>1, <1>2 DEF Formed, Frame, ConFrame, SamePlace
<1> QED BY <1>1, <1>2, <1>3, <1>4 DEF Moving

(* vgacon_set_origin puts the text of a console at the start of the memory. *)
LEMMA SetOriginFacts ==
  ASSUME NEW t, Formed(t), NEW c \in Cons, MaySetOrigin(t)
  PROVE  LET u == vgacon_set_origin(t, c) IN
         /\ Moving(t, u, c) /\ Formed(u)
         /\ u.con[c].origin = 0 /\ u.con[c].visible = 0 /\ u.top = 0 /\ u.rolled = 0
         /\ u.con[c].buf = t.con[c].buf /\ u.con[c].end = t.con[c].end /\ u.vram = t.vram
<1> DEFINE u == vgacon_set_origin(t, c)
<1>1. Frame(t, u)
  BY DEF Frame, vgacon_set_origin, Formed, VgaFields
<1>2. ConFrame(t, u, c)
  BY DEF ConFrame, vgacon_set_origin, Formed, VgaFields, ConFields
<1>3. /\ u.con[c].origin = 0 /\ u.con[c].visible = 0 /\ u.top = 0
      /\ u.con[c].buf = t.con[c].buf /\ u.con[c].end = t.con[c].end /\ u.vram = t.vram
      /\ u.rolled = 0
  BY DEF vgacon_set_origin, Formed, VgaFields, ConFields
<1>4. Formed(u)
  <2> HIDE DEF u
  <2> QED BY <1>1, <1>2, <1>3, OriginFacts DEF Formed, Frame, ConFrame
<1> QED BY <1>1, <1>2, <1>3, <1>4 DEF Moving

(* set_origin gives the foreground console video memory, if it may have it, *)
(* and any other console its buffer.                                        *)
LEMMA PlaceFacts ==
  ASSUME NEW t, Formed(t), NEW c \in Cons
  PROVE  LET u == set_origin(t, c) IN
         /\ Moving(t, u, c) /\ Formed(u)
         /\ u.con[c].buf = t.con[c].buf /\ u.vram = t.vram
         /\ u.con[c].end = u.con[c].origin + Rows
         /\ c = t.fg /\ MaySetOrigin(t) =>
              u.con[c].origin = 0 /\ u.con[c].visible = 0 /\ u.top = 0 /\ u.rolled = 0
         /\ ~ (c = t.fg /\ MaySetOrigin(t)) => u.con[c].origin = BUF
<1> DEFINE v == IF Visible(t, c) /\ MaySetOrigin(t) THEN vgacon_set_origin(t, c)
                ELSE [t EXCEPT !.con[c].origin = BUF, !.con[c].visible = BUF]
           e == v.con[c].origin + Rows
           u == set_origin(t, c)
<1>1. /\ Moving(t, v, c) /\ Formed(v)
      /\ v.con[c].buf = t.con[c].buf /\ v.vram = t.vram
      /\ c = t.fg /\ MaySetOrigin(t) =>
           v.con[c].origin = 0 /\ v.con[c].visible = 0 /\ v.top = 0 /\ v.rolled = 0
      /\ ~ (c = t.fg /\ MaySetOrigin(t)) => v.con[c].origin = BUF
  <2>1. CASE Visible(t, c) /\ MaySetOrigin(t)
    BY <2>1, SetOriginFacts DEF Visible
  <2>2. CASE ~ (Visible(t, c) /\ MaySetOrigin(t))
    <3>1. Frame(t, v) /\ v.vram = t.vram
      BY <2>2 DEF Frame, Formed, VgaFields
    <3>2. ConFrame(t, v, c) /\ v.con[c].origin = BUF /\ v.con[c].buf = t.con[c].buf
      BY <2>2 DEF ConFrame, Formed, VgaFields, ConFields
    <3>3. Formed(v)
      <4> HIDE DEF v
      <4> QED BY <3>1, <3>2 DEF Formed, Frame, ConFrame
    <3> QED BY <2>2, <3>1, <3>2, <3>3 DEF Visible, Moving
  <2> QED BY <2>1, <2>2
<1>2. u = [v EXCEPT !.con[c].end = e]
  BY DEF set_origin
<1> HIDE DEF u, v
<1>3. Frame(t, u) /\ u.top = v.top /\ u.vram = v.vram /\ u.rolled = v.rolled
  BY <1>1, <1>2 DEF Moving, Frame, VgaFields
<1>4. /\ ConFrame(t, u, c) /\ u.con[c].origin = v.con[c].origin
      /\ u.con[c].visible = v.con[c].visible /\ u.con[c].end = e
      /\ u.con[c].buf = v.con[c].buf
  BY <1>1, <1>2 DEF Moving, Frame, ConFrame, VgaFields, ConFields
<1>5. Formed(u)
  BY <1>1, <1>3, <1>4 DEF Formed, Frame, ConFrame
<1> QED BY <1>1, <1>3, <1>4, <1>5 DEF Moving, u

(* The rows of consoles a step does not touch, and of one that stays where  *)
(* it is, are the same.                                                     *)
LEMMA RowsStay ==
  ASSUME NEW t, NEW u, NEW c \in Cons, Moving(t, u, c), SamePlace(t, u, c)
  PROVE  \A d \in Cons, y \in Screen : Row(u, d, y) = Row(t, d, y)
BY DEF Moving, ConFrame, SamePlace, Row, At

(* Flags and colours do not depend on the place of the text.                *)
LEMMA FlagsStay ==
  ASSUME NEW L, NEW t, NEW u, NEW c \in Cons, Moving(t, u, c), t.fg \in Cons
  PROVE  /\ FlagsSound(t) => FlagsSound(u)
         /\ MaySetOrigin(u) = MaySetOrigin(t)
         /\ ColoursSound(L, t) => ColoursSound(L, u)
<1>1. (FlagsSound(t) => FlagsSound(u)) /\ MaySetOrigin(u) = MaySetOrigin(t)
  BY DEF Moving, Frame, FlagsSound, MaySetOrigin
<1>2. u.con[u.fg].mode = t.con[t.fg].mode /\ u.con[u.fg].palette = t.con[t.fg].palette
  BY DEF Moving, Frame, ConFrame
<1>3. ColoursSound(L, t) => ColoursSound(L, u)
  BY <1>2 DEF Moving, Frame, ColoursSound
<1> QED BY <1>1, <1>3

(* A view of the foreground console inside of video memory, or any view     *)
(* when the console is not there, leaves all else as it is.                 *)
LEMMA ViewKept ==
  ASSUME NEW L, NEW t, ViewInv(L, t), NEW v, MaySetOrigin(t) => v \in Origins
  PROVE  ViewInv(L, ViewAt(t, t.fg, v))
<1> DEFINE u == ViewAt(t, t.fg, v)
           c == t.fg
<1>1. Formed(t) /\ c \in Cons
  BY DEF ViewInv, Formed
<1>2. /\ Moving(t, u, c) /\ SamePlace(t, u, c) /\ Formed(u)
      /\ u.con[c].visible = v /\ u.top = v
  BY <1>1, ViewAtFacts
<1> HIDE DEF u
<1>3. FlagsSound(u) /\ MaySetOrigin(u) = MaySetOrigin(t)
  BY <1>1, <1>2, FlagsStay DEF ViewInv
<1>4. u.fg = t.fg /\ u.text = t.text
  BY <1>2 DEF Moving, Frame
<1>5. KeptIn(L, u)
  BY <1>1, <1>2, <1>4, RowsStay DEF ViewInv, KeptIn
<1>6. PlacedIn(u)
  BY <1>2, <1>4 DEF SamePlace, Moving, ConFrame, ViewInv, PlacedIn
<1>7. OriginSound(L, u)
  BY <1>2, <1>3, <1>4 DEF ViewInv, OriginSound, PlacedAt, SamePlace
<1> QED BY <1>2, <1>3, <1>5, <1>6, <1>7 DEF ViewInv, u

(* vgacon_cursor returns to the present, whatever the state.                *)
LEMMA CursorFacts ==
  ASSUME NEW t, Formed(t), NEW c \in Cons
  PROVE  LET u == vgacon_cursor(t, c) IN
         /\ Moving(t, u, c) /\ SamePlace(t, u, c) /\ Formed(u)
         /\ u.con[c].visible = u.con[c].origin
         /\ u = t \/ u.top = u.con[c].visible
<1>1. CASE t.con[c].origin = t.con[c].visible
  <2>1. vgacon_cursor(t, c) = t
    BY <1>1 DEF vgacon_cursor
  <2>2. Moving(t, t, c) /\ SamePlace(t, t, c)
    BY DEF Formed, Moving, Frame, ConFrame, SamePlace
  <2> QED BY <1>1, <2>1, <2>2
<1>2. CASE t.con[c].origin # t.con[c].visible
  <2>1. vgacon_cursor(t, c) = ViewAt(t, c, t.con[c].origin)
    BY <1>2 DEF vgacon_cursor, vgacon_scroll
  <2>2. LET u == ViewAt(t, c, t.con[c].origin) IN
        /\ Moving(t, u, c) /\ SamePlace(t, u, c) /\ Formed(u)
        /\ u.con[c].visible = t.con[c].origin /\ u.con[c].origin = t.con[c].origin
        /\ u.top = t.con[c].origin
    BY ViewAtFacts DEF SamePlace
  <2> QED BY <1>2, <2>1, <2>2
<1> QED BY <1>1, <1>2

(* In a sound state the view that it returns to is the origin.              *)
LEMMA CursorKept ==
  ASSUME NEW L, NEW t, ViewInv(L, t)
  PROVE  LET u == vgacon_cursor(t, t.fg) IN
         /\ ViewInv(L, u) /\ (ColoursSound(L, t) => ColoursSound(L, u))
         /\ Moving(t, u, t.fg) /\ SamePlace(t, u, t.fg)
         /\ u.con[t.fg].visible = u.con[t.fg].origin
<1> DEFINE c == t.fg
           u == vgacon_cursor(t, c)
<1>1. Formed(t) /\ c \in Cons
  BY DEF ViewInv, Formed
<1>2. /\ Moving(t, u, c) /\ SamePlace(t, u, c)
      /\ u.con[c].visible = u.con[c].origin
  BY <1>1, CursorFacts
<1>3. ViewInv(L, u)
  <2>1. CASE t.con[c].origin = t.con[c].visible
    BY <2>1 DEF vgacon_cursor
  <2>2. CASE t.con[c].origin # t.con[c].visible
    <3>1. u = ViewAt(t, c, t.con[c].origin)
      BY <2>2 DEF vgacon_cursor, vgacon_scroll
    <3>2. MaySetOrigin(t) => t.con[c].origin \in Origins
      BY DEF ViewInv, OriginSound, PlacedAt
    <3> QED BY <3>1, <3>2, ViewKept
  <2> QED BY <2>1, <2>2
<1>4. ColoursSound(L, t) => ColoursSound(L, u)
  BY <1>1, <1>2, FlagsStay
<1> QED BY <1>2, <1>3, <1>4

(* set_cursor and hide_cursor are vgacon_cursor where they do anything.     *)
LEMMA SetCursorKept ==
  ASSUME NEW L, NEW t, ViewInv(L, t), NEW c \in Cons
  PROVE  LET u == set_cursor(t, c) IN
         /\ ViewInv(L, u) /\ (ColoursSound(L, t) => ColoursSound(L, u))
         /\ Moving(t, u, t.fg) /\ SamePlace(t, u, t.fg)
<1>1. CASE c = t.fg /\ ~ t.blanked /\ t.con[c].mode = "TEXT"
  <2>1. set_cursor(t, c) = vgacon_cursor(t, t.fg)
    BY <1>1 DEF set_cursor, Visible
  <2> QED BY <2>1, CursorKept
<1>2. CASE ~ (c = t.fg /\ ~ t.blanked /\ t.con[c].mode = "TEXT")
  <2>1. set_cursor(t, c) = t
    BY <1>2 DEF set_cursor, Visible
  <2>2. Moving(t, t, t.fg) /\ SamePlace(t, t, t.fg)
    BY DEF ViewInv, Formed, Moving, Frame, ConFrame, SamePlace
  <2> QED BY <2>1, <2>2
<1> QED BY <1>1, <1>2

(* The rows written to a console are the rows found there afterwards, and   *)
(* no other console's text is touched: at most one is in video memory.      *)
LEMMA PutFacts ==
  ASSUME NEW t, Formed(t), NEW c \in Cons, NEW f,
         \A d \in Cons : d # c => t.con[d].origin = BUF \/ t.con[c].origin = BUF
  PROVE  LET u == Put(t, c, f) IN
         /\ Moving(t, u, c) /\ Formed(u)
         /\ u.con[c].origin = t.con[c].origin /\ u.con[c].visible = t.con[c].visible
         /\ u.con[c].end = t.con[c].end /\ u.top = t.top /\ u.rolled = t.rolled
         /\ t.con[c].origin \in Origins \cup {BUF} => \A y \in Screen : Row(u, c, y) = f[y]
         /\ \A d \in Cons : d # c => \A y \in Screen : Row(u, d, y) = Row(t, d, y)
<1> DEFINE u == Put(t, c, f)
           o == t.con[c].origin
           g == [r \in DOMAIN t.vram |-> IF r - o \in Screen THEN f[r - o] ELSE t.vram[r]]
           h == [y \in Screen |-> IF (BUF + y) - o \in Screen THEN f[(BUF + y) - o]
                                  ELSE t.con[c].buf[y]]
<1>1. u = [t EXCEPT !.vram = g, !.con[c].buf = h]
  BY DEF Put
<1>2. DOMAIN g = 0 .. VramRows - 1
  BY DEF Formed
<1>3. o = BUF => /\ \A y \in Screen : h[y] = f[y]
                 /\ \A r \in 0 .. VramRows - 1 : g[r] = t.vram[r]
  BY BufferFacts DEF Formed
<1>4. o \in Origins => \A y \in Screen : g[o + y] = f[y]
  BY OriginFacts DEF Formed
<1> HIDE DEF g, h
<1>5. Frame(t, u) /\ u.top = t.top /\ u.vram = g /\ u.rolled = t.rolled
  BY <1>1 DEF Frame, Formed, VgaFields
<1>6. /\ ConFrame(t, u, c) /\ u.con[c].origin = o /\ u.con[c].visible = t.con[c].visible
      /\ u.con[c].end = t.con[c].end /\ u.con[c].buf = h
  BY <1>1 DEF ConFrame, Formed, VgaFields, ConFields
<1> HIDE DEF u
<1>7. Formed(u)
  BY <1>2, <1>5, <1>6 DEF Formed, Frame, ConFrame
<1>8. o \in Origins \cup {BUF} => \A y \in Screen : Row(u, c, y) = f[y]
  BY <1>3, <1>4, <1>5, <1>6, <1>7, RowAt
<1>9. ASSUME NEW d \in Cons, d # c, NEW y \in Screen PROVE Row(u, d, y) = Row(t, d, y)
  <2>1. u.con[d] = t.con[d]
    BY <1>6, <1>9 DEF ConFrame
  <2>2. CASE t.con[d].origin = BUF
    BY <1>7, <2>1, <2>2, RowAt
  <2>3. CASE o = BUF
    BY <1>2, <1>3, <1>5, <2>1, <2>3 DEF Row, At, Formed
  <2> QED BY <1>9, <2>2, <2>3
<1> QED BY <1>5, <1>6, <1>7, <1>8, <1>9 DEF Moving, u

-----------------------------------------------------------------------------
(* vgacon_save_screen copies the rows of a console to its buffer, except    *)
(* when a picture may have replaced them.                                   *)
LEMMA SaveFacts ==
  ASSUME NEW t, Formed(t), NEW c \in Cons
  PROVE  LET u == vgacon_save_screen(t, c) IN
         /\ Moving(t, u, c) /\ Formed(u)
         /\ u.con[c].origin = t.con[c].origin /\ u.con[c].visible = t.con[c].visible
         /\ u.con[c].end = t.con[c].end /\ u.top = t.top /\ u.vram = t.vram
         /\ u.rolled = t.rolled
         /\ t.gfx => u = t
         /\ ~ t.gfx => \A y \in Screen : u.con[c].buf[y] = Row(t, c, y)
<1> DEFINE u == vgacon_save_screen(t, c)
           b == [y \in Screen |-> Row(t, c, y)]
<1>1. CASE t.gfx
  <2>1. u = t
    BY <1>1 DEF vgacon_save_screen
  <2>2. Moving(t, t, c)
    BY DEF Moving, Frame, ConFrame, Formed
  <2> QED BY <1>1, <2>1, <2>2
<1>2. CASE ~ t.gfx
  <2>1. u = [t EXCEPT !.con[c].buf = b]
    BY <1>2 DEF vgacon_save_screen
  <2>2. \A y \in Screen : b[y] = Row(t, c, y)
    OBVIOUS
  <2> HIDE DEF b
  <2>3. Frame(t, u) /\ u.top = t.top /\ u.vram = t.vram /\ u.rolled = t.rolled
    BY <2>1 DEF Frame, Formed, VgaFields
  <2>4. /\ ConFrame(t, u, c) /\ u.con[c].buf = b /\ u.con[c].origin = t.con[c].origin
        /\ u.con[c].visible = t.con[c].visible /\ u.con[c].end = t.con[c].end
    BY <2>1 DEF ConFrame, Formed, VgaFields, ConFields
  <2> HIDE DEF u
  <2>5. Formed(u)
    BY <2>3, <2>4 DEF Formed, Frame, ConFrame
  <2> QED BY <1>2, <2>2, <2>3, <2>4, <2>5 DEF Moving, u
<1> QED BY <1>1, <1>2

(* No console but c has its text in video memory.                           *)
OnlyOn(t, c) ==
  \A d \in Cons : d # c => t.con[d].origin = BUF /\ t.con[d].end = BUF + Rows

(* After that, every text is in its buffer.                                 *)
LEMMA SavedIsBuffered ==
  ASSUME NEW L, NEW t, Formed(t), KeptIn(L, t), NEW c \in Cons, OnlyOn(t, c),
         t.gfx => t.con[c].origin = BUF \/ c \in L
  PROVE  BufferedIn(L, vgacon_save_screen(t, c))
<1> DEFINE u == vgacon_save_screen(t, c)
<1>1. /\ Moving(t, u, c)
      /\ t.gfx => u = t
      /\ ~ t.gfx => \A y \in Screen : u.con[c].buf[y] = Row(t, c, y)
  BY SaveFacts
<1> HIDE DEF u
<1>2. c \notin L => \A y \in Screen : u.con[c].buf[y] = t.text[c][y]
  BY <1>1, RowAt DEF KeptIn
<1>3. \A d \in Cons \ L, y \in Screen : d # c => u.con[d].buf[y] = t.text[d][y]
  BY <1>1, RowAt DEF Moving, ConFrame, OnlyOn, KeptIn
<1>4. u.text = t.text
  BY <1>1 DEF Moving, Frame
<1> QED BY <1>2, <1>3, <1>4 DEF BufferedIn, u

(* The state is sound when every text is in its buffer and none may be in   *)
(* video memory.                                                            *)
LEMMA AllBuffered ==
  ASSUME NEW L, NEW t, Formed(t), FlagsSound(t), BufferedIn(L, t), ~ MaySetOrigin(t),
         \A d \in Cons : t.con[d].origin = BUF /\ t.con[d].end = BUF + Rows
  PROVE  ViewInv(L, t)
<1>1. KeptIn(L, t)
  BY RowAt DEF KeptIn, BufferedIn
<1>2. PlacedIn(t) /\ OriginSound(L, t)
  BY DEF PlacedIn, OriginSound, Formed
<1> QED BY <1>1, <1>2 DEF ViewInv

(* set_origin and vgacon_switch bring the text of the foreground console    *)
(* back to the screen, from its buffer.                                     *)
LEMMA Restored ==
  ASSUME NEW L, NEW t, Formed(t), FlagsSound(t), BufferedIn(L, t), OnlyOn(t, t.fg)
  PROVE  LET u == vgacon_switch(set_origin(t, t.fg), t.fg) IN
         ViewInv(L, u) /\ Moving(t, u, t.fg)
<1> DEFINE c == t.fg
           v == set_origin(t, c)
           u == vgacon_switch(v, c)
<1>1. c \in Cons
  BY DEF Formed
<1>2. /\ Moving(t, v, c) /\ Formed(v) /\ v.con[c].buf = t.con[c].buf
      /\ v.con[c].end = v.con[c].origin + Rows
      /\ MaySetOrigin(t) =>
           v.con[c].origin = 0 /\ v.con[c].visible = 0 /\ v.top = 0 /\ v.rolled = 0
      /\ ~ MaySetOrigin(t) => v.con[c].origin = BUF
  BY <1>1, PlaceFacts
<1>3. v.fg = c /\ v.text = t.text /\ v.gfx = t.gfx /\ \A d \in Cons : d # c => v.con[d] = t.con[d]
  BY <1>2 DEF Moving, Frame, ConFrame
<1>4. FlagsSound(v) /\ MaySetOrigin(v) = MaySetOrigin(t)
  BY <1>1, <1>2, FlagsStay
<1>5. BufferedIn(L, v)
  BY <1>1, <1>2, <1>3 DEF BufferedIn
<1>6. OnlyOn(v, c)
  BY <1>3 DEF OnlyOn
<1>7. CASE t.gfx
  <2>1. u = v
    BY <1>3, <1>7 DEF vgacon_switch
  <2>2. ~ MaySetOrigin(v)
    BY <1>3, <1>7 DEF MaySetOrigin
  <2>3. \A d \in Cons : v.con[d].origin = BUF /\ v.con[d].end = BUF + Rows
    BY <1>2, <1>4, <1>6, <2>2 DEF OnlyOn
  <2> QED BY <1>2, <1>4, <1>5, <2>1, <2>2, <2>3, AllBuffered
<1>8. CASE ~ t.gfx
  <2>1. u = Put(v, c, v.con[c].buf)
    BY <1>3, <1>8 DEF vgacon_switch
  <2>2. v.con[c].origin \in Origins \cup {BUF}
    BY <1>2, OriginFacts
  <2>3. \A d \in Cons : d # c => v.con[d].origin = BUF \/ v.con[c].origin = BUF
    BY <1>6 DEF OnlyOn
  <2>4. LET w == Put(v, c, v.con[c].buf) IN
        /\ Moving(v, w, c) /\ Formed(w)
        /\ w.con[c].origin = v.con[c].origin /\ w.con[c].visible = v.con[c].visible
        /\ w.con[c].end = v.con[c].end /\ w.top = v.top /\ w.rolled = v.rolled
        /\ \A y \in Screen : Row(w, c, y) = v.con[c].buf[y]
        /\ \A d \in Cons : d # c => \A y \in Screen : Row(w, d, y) = Row(v, d, y)
    BY <1>1, <1>2, <2>2, <2>3, PutFacts
  <2>5. /\ Moving(v, u, c) /\ Formed(u)
        /\ u.con[c].origin = v.con[c].origin /\ u.con[c].visible = v.con[c].visible
        /\ u.con[c].end = v.con[c].end /\ u.top = v.top /\ u.rolled = v.rolled
        /\ \A y \in Screen : Row(u, c, y) = v.con[c].buf[y]
        /\ \A d \in Cons : d # c => \A y \in Screen : Row(u, d, y) = Row(v, d, y)
    BY <2>1, <2>4
  <2> HIDE DEF u, v
  <2>6. u.fg = c /\ u.text = t.text /\ \A d \in Cons : d # c => u.con[d] = v.con[d]
    BY <1>3, <2>5 DEF Moving, Frame, ConFrame
  <2>7. FlagsSound(u) /\ MaySetOrigin(u) = MaySetOrigin(t)
    BY <1>1, <1>3, <1>4, <2>5, FlagsStay
  <2>8. KeptIn(L, u)
    <3>1. c \notin L => \A y \in Screen : Row(u, c, y) = u.text[c][y]
      BY <1>1, <1>3, <1>5, <2>5, <2>6 DEF BufferedIn
    <3>2. \A d \in Cons \ L, y \in Screen : d # c => Row(u, d, y) = u.text[d][y]
      BY <1>2, <1>3, <1>5, <1>6, <2>5, <2>6, RowAt DEF BufferedIn, OnlyOn
    <3> QED BY <3>1, <3>2 DEF KeptIn
  <2>9. PlacedIn(u)
    BY <1>2, <1>6, <2>5, <2>6 DEF PlacedIn, OnlyOn
  <2>10. OriginSound(L, u)
    BY <1>2, <2>5, <2>6, <2>7, OriginFacts DEF OriginSound, PlacedAt
  <2>11. Moving(t, u, c)
    BY <1>2, <2>5 DEF Moving, Frame, ConFrame
  <2> QED BY <2>5, <2>7, <2>8, <2>9, <2>10, <2>11 DEF ViewInv, u, v
<1> QED BY <1>7, <1>8

-----------------------------------------------------------------------------
(* No text and no place of one changes from t to u.                         *)
SameText(t, u) ==
  /\ DOMAIN u = VgaFields /\ u.fg = t.fg /\ u.text = t.text
  /\ u.vram = t.vram /\ u.top = t.top /\ u.rolled = t.rolled
  /\ DOMAIN u.con = Cons
  /\ \A c \in Cons :
       /\ DOMAIN u.con[c] = ConFields /\ u.con[c].mode \in Modes
       /\ u.con[c].origin = t.con[c].origin /\ u.con[c].visible = t.con[c].visible
       /\ u.con[c].end = t.con[c].end /\ u.con[c].buf = t.con[c].buf

(* Then only the flags matter.                                              *)
LEMMA TextStays ==
  ASSUME NEW L, NEW t, NEW u, ViewInv(L, t), SameText(t, u), FlagsSound(u),
         MaySetOrigin(u) = MaySetOrigin(t)
  PROVE  ViewInv(L, u)
<1>1. Formed(u)
  BY DEF SameText, ViewInv, Formed
<1>2. \A c \in Cons, y \in Screen : Row(u, c, y) = Row(t, c, y)
  BY DEF SameText, Row, At
<1>3. KeptIn(L, u)
  BY <1>2 DEF KeptIn, ViewInv, SameText
<1>4. PlacedIn(u)
  BY DEF PlacedIn, ViewInv, SameText
<1>5. OriginSound(L, u)
  BY DEF OriginSound, PlacedAt, ViewInv, SameText, Formed
<1> QED BY <1>1, <1>3, <1>4, <1>5 DEF ViewInv

(* set_palette loads the colours of a text console in the foreground.       *)
LEMMA PaletteKept ==
  ASSUME NEW L, NEW t, ViewInv(L, t), NEW c \in Cons
  PROVE  LET u == set_palette(t, c) IN
         /\ ViewInv(L, u) /\ u.fg = t.fg /\ u.con = t.con /\ u.blanked = t.blanked
         /\ c = t.fg \/ ColoursSound(L, t) => ColoursSound(L, u)
<1> DEFINE u == set_palette(t, c)
<1>1. CASE c = t.fg /\ t.con[c].mode = "TEXT" /\ ~ (t.type # "VGAC" \/ t.pal)
  <2>1. u = [t EXCEPT !.dac = t.con[c].palette]
    BY <1>1 DEF set_palette, vgacon_set_palette, Visible
  <2>2. /\ SameText(t, u) /\ u.con = t.con /\ u.dac = t.con[c].palette
        /\ u.blanked = t.blanked /\ u.gfx = t.gfx /\ u.pal = t.pal /\ u.vesa = t.vesa
        /\ u.reg = t.reg /\ u.saved = t.saved /\ u.blank_mode = t.blank_mode
    BY <2>1 DEF SameText, ViewInv, Formed, VgaFields
  <2> HIDE DEF u
  <2>3. FlagsSound(u) /\ MaySetOrigin(u) = MaySetOrigin(t)
    BY <2>2 DEF ViewInv, FlagsSound, MaySetOrigin
  <2>4. ViewInv(L, u)
    BY <2>2, <2>3, TextStays
  <2>5. ColoursSound(L, u)
    BY <1>1, <2>2 DEF ColoursSound, SameText
  <2> QED BY <2>2, <2>4, <2>5 DEF SameText, u
<1>2. CASE ~ (c = t.fg /\ t.con[c].mode = "TEXT" /\ ~ (t.type # "VGAC" \/ t.pal))
  <2>1. u = t
    BY <1>2 DEF set_palette, vgacon_set_palette, Visible
  <2>2. c = t.fg => ColoursSound(L, t)
    BY <1>2 DEF ColoursSound, ViewInv, FlagsSound
  <2> QED BY <2>1, <2>2
<1> QED BY <1>1, <1>2

(* The last steps of every redrawing: the colours, then the cursor.         *)
LEMMA Redrawn ==
  ASSUME NEW L, NEW t, ViewInv(L, t)
  PROVE  VgaInv(L, set_cursor(set_palette(t, t.fg), t.fg))
<1> DEFINE u == set_palette(t, t.fg)
<1>1. t.fg \in Cons
  BY DEF ViewInv, Formed
<1>2. ViewInv(L, u) /\ ColoursSound(L, u)
  BY <1>1, PaletteKept
<1> QED BY <1>1, <1>2, SetCursorKept DEF VgaInv

(* update_screen redraws a screen whose text is in the buffers.             *)
LEMMA UpdateScreen ==
  ASSUME NEW L, NEW t, Formed(t), FlagsSound(t), BufferedIn(L, t), OnlyOn(t, t.fg)
  PROVE  VgaInv(L, update_screen(t, t.fg)) /\ update_screen(t, t.fg).fg = t.fg
<1> DEFINE c == t.fg
           h == hide_cursor(t, c)
           v == vgacon_switch(set_origin(h, c), c)
           p == set_palette(v, c)
<1>1. c \in Cons
  BY DEF Formed
<1>2. Moving(t, h, c) /\ SamePlace(t, h, c) /\ Formed(h)
  BY <1>1, CursorFacts DEF hide_cursor
<1>3. h.fg = c /\ FlagsSound(h)
  BY <1>1, <1>2, FlagsStay DEF Moving, Frame
<1>4. BufferedIn(L, h) /\ OnlyOn(h, c)
  BY <1>2 DEF Moving, Frame, ConFrame, SamePlace, BufferedIn, OnlyOn
<1>5. LET w == vgacon_switch(set_origin(h, h.fg), h.fg) IN ViewInv(L, w) /\ Moving(h, w, h.fg)
  BY <1>2, <1>3, <1>4, Restored
<1>6. ViewInv(L, v) /\ v.fg = c
  BY <1>3, <1>5 DEF Moving, Frame
<1>7. ViewInv(L, p) /\ p.fg = c /\ ColoursSound(L, p)
  BY <1>1, <1>6, PaletteKept
<1>8. LET w == set_cursor(p, c) IN
      ViewInv(L, w) /\ (ColoursSound(L, p) => ColoursSound(L, w)) /\ Moving(p, w, p.fg)
  BY <1>1, <1>7, SetCursorKept
<1>9. update_screen(t, c) = set_cursor(p, c)
  BY DEF update_screen
<1> QED BY <1>7, <1>8, <1>9 DEF VgaInv, Moving, Frame

-----------------------------------------------------------------------------
(* The state of the blank timer has no part in the invariant.               *)
LEMMA StateFree ==
  ASSUME NEW L, NEW t, ViewInv(L, t), NEW x
  PROVE  LET u == [t EXCEPT !.state = x] IN
         /\ ViewInv(L, u) /\ (ColoursSound(L, t) => ColoursSound(L, u))
         /\ u.fg = t.fg /\ u.con = t.con /\ u.blanked = t.blanked /\ u.gfx = t.gfx
         /\ u.pal = t.pal /\ u.blank_mode = t.blank_mode /\ u.type = t.type
<1> DEFINE u == [t EXCEPT !.state = x]
<1>1. /\ SameText(t, u) /\ u.con = t.con /\ u.dac = t.dac /\ u.type = t.type
      /\ u.blanked = t.blanked /\ u.gfx = t.gfx /\ u.pal = t.pal /\ u.vesa = t.vesa
      /\ u.reg = t.reg /\ u.saved = t.saved /\ u.blank_mode = t.blank_mode
  BY DEF SameText, ViewInv, Formed, VgaFields
<1> HIDE DEF u
<1>2. FlagsSound(u) /\ MaySetOrigin(u) = MaySetOrigin(t)
  BY <1>1 DEF ViewInv, FlagsSound, MaySetOrigin
<1>3. ViewInv(L, u)
  BY <1>1, <1>2, TextStays
<1>4. ColoursSound(L, t) => ColoursSound(L, u)
  BY <1>1 DEF ColoursSound, SameText
<1> QED BY <1>1, <1>3, <1>4 DEF SameText, u

(* Saving the screen of the foreground console leaves it where it is.       *)
LEMMA SaveKept ==
  ASSUME NEW L, NEW t, ViewInv(L, t)
  PROVE  LET u == vgacon_save_screen(t, t.fg) IN
         ViewInv(L, u) /\ BufferedIn(L, u) /\ Moving(t, u, t.fg) /\ OnlyOn(u, t.fg)
<1> DEFINE c == t.fg
           u == vgacon_save_screen(t, c)
<1>1. Formed(t) /\ c \in Cons
  BY DEF ViewInv, Formed
<1>2. /\ Moving(t, u, c) /\ Formed(u)
      /\ u.con[c].origin = t.con[c].origin /\ u.con[c].visible = t.con[c].visible
      /\ u.con[c].end = t.con[c].end /\ u.top = t.top /\ u.vram = t.vram
      /\ u.rolled = t.rolled
      /\ t.gfx => u = t
      /\ ~ t.gfx => \A y \in Screen : u.con[c].buf[y] = Row(t, c, y)
  BY <1>1, SaveFacts
<1>3. OnlyOn(t, c) /\ (t.gfx => t.con[c].origin = BUF \/ c \in L)
  BY <1>1 DEF ViewInv, PlacedIn, OriginSound, MaySetOrigin, OnlyOn
<1>4. BufferedIn(L, u)
  BY <1>1, <1>3, SavedIsBuffered DEF ViewInv
<1> HIDE DEF u
<1>5. /\ u.fg = c /\ u.text = t.text /\ \A d \in Cons : d # c => u.con[d] = t.con[d]
  BY <1>2 DEF Moving, Frame, ConFrame
<1>6. FlagsSound(u) /\ MaySetOrigin(u) = MaySetOrigin(t)
  BY <1>1, <1>2, FlagsStay DEF ViewInv
<1>7. KeptIn(L, u)
  <2>1. c \notin L => \A y \in Screen : Row(u, c, y) = u.text[c][y]
    <3>1. CASE u.con[c].origin = BUF
      BY <1>1, <1>2, <1>4, <3>1, RowAt DEF BufferedIn
    <3>2. CASE u.con[c].origin # BUF /\ c \notin L
      <4>1. u.con[c].origin \in Origins
        BY <1>2, <3>2 DEF ViewInv, OriginSound, PlacedAt
      <4> QED BY <1>1, <1>2, <1>5, <3>2, <4>1, RowAt DEF ViewInv, KeptIn
    <3> QED BY <3>1, <3>2
  <2>2. \A d \in Cons \ L, y \in Screen : d # c => Row(u, d, y) = u.text[d][y]
    BY <1>1, <1>2, <1>3, <1>5, RowAt DEF ViewInv, KeptIn, OnlyOn
  <2> QED BY <2>1, <2>2 DEF KeptIn
<1>8. PlacedIn(u) /\ OriginSound(L, u)
  <2>1. PlacedIn(u)
    BY <1>2, <1>5 DEF ViewInv, PlacedIn
  <2> QED BY <1>2, <1>5, <1>6, <2>1 DEF ViewInv, OriginSound, PlacedAt
<1>9. OnlyOn(u, c)
  BY <1>3, <1>5 DEF OnlyOn
<1> QED BY <1>2, <1>4, <1>6, <1>7, <1>8, <1>9 DEF ViewInv, u

(* A display whose colours are blanked keeps its text where it is.          *)
LEMMA PaletteBlanked ==
  ASSUME NEW L, NEW t, ViewInv(L, t), ~ t.blanked, NEW c \in Cons, PaletteBlanks(t, FALSE)
  PROVE  LET u == [Blanked(t, c, FALSE) EXCEPT !.blanked = TRUE] IN
         ViewInv(L, u) /\ u.blanked /\ u.fg = t.fg
<1> DEFINE u == [Blanked(t, c, FALSE) EXCEPT !.blanked = TRUE]
<1>1. u = [[t EXCEPT !.dac = "black", !.pal = TRUE] EXCEPT !.blanked = TRUE]
  BY DEF Blanked
<1>2. /\ SameText(t, u) /\ u.blanked = TRUE /\ u.gfx = t.gfx /\ u.pal = TRUE /\ u.vesa = t.vesa
      /\ u.reg = t.reg /\ u.saved = t.saved /\ u.blank_mode = t.blank_mode
  BY <1>1 DEF SameText, ViewInv, Formed, VgaFields
<1> HIDE DEF u
<1>3. FlagsSound(u) /\ MaySetOrigin(u) = MaySetOrigin(t)
  BY <1>2 DEF ViewInv, FlagsSound, MaySetOrigin
<1> QED BY <1>2, <1>3, TextStays DEF SameText, u

(* One that is blanked in memory has all texts in their buffers.            *)
LEMMA MemoryBlanked ==
  ASSUME NEW L, NEW t, ViewInv(L, t), BufferedIn(L, t), OnlyOn(t, t.fg), ~ t.blanked,
         NEW ms \in BOOLEAN, ~ PaletteBlanks(t, ms)
  PROVE  LET u == set_origin([Blanked(t, t.fg, ms) EXCEPT !.blanked = TRUE], t.fg) IN
         ViewInv(L, u) /\ u.blanked /\ u.fg = t.fg
<1> DEFINE c == t.fg
           v == vgacon_set_origin(t, c)
           z == [r \in DOMAIN v.vram |-> IF r \in Screen THEN BLANK ELSE v.vram[r]]
           g == IF ms THEN TRUE ELSE v.gfx
           w == [Blanked(t, c, ms) EXCEPT !.blanked = TRUE]
           u == set_origin(w, c)
<1>1. Formed(t) /\ c \in Cons /\ t.gfx = FALSE /\ t.pal = FALSE /\ MaySetOrigin(t)
  BY DEF ViewInv, Formed, FlagsSound, MaySetOrigin
<1>2. Moving(t, v, c) /\ Formed(v) /\ v.con[c].buf = t.con[c].buf
  BY <1>1, SetOriginFacts
<1>3. w = [[v EXCEPT !.vram = z, !.gfx = g] EXCEPT !.blanked = TRUE]
  BY DEF Blanked
<1> HIDE DEF v, z, g
<1>4. g \in BOOLEAN /\ DOMAIN z = 0 .. VramRows - 1
  BY <1>1, <1>2 DEF g, z, Moving, Frame, Formed
<1>5. /\ DOMAIN w = VgaFields /\ w.fg = c /\ w.con = v.con /\ w.text = t.text /\ w.rolled = v.rolled
      /\ w.vram = z /\ w.blanked = TRUE /\ w.gfx = g /\ w.pal = FALSE /\ w.vesa = t.vesa
      /\ w.reg = t.reg /\ w.saved = t.saved /\ w.blank_mode = t.blank_mode
  BY <1>1, <1>2, <1>3 DEF Moving, Frame, VgaFields
<1> HIDE DEF w
<1>6. Formed(w)
  BY <1>1, <1>2, <1>4, <1>5 DEF Formed
<1>7. FlagsSound(w) /\ ~ MaySetOrigin(w)
  BY <1>1, <1>4, <1>5 DEF FlagsSound, MaySetOrigin, ViewInv
<1>8. BufferedIn(L, w)
  BY <1>1, <1>2, <1>5 DEF BufferedIn, Moving, ConFrame
<1>9. /\ Moving(w, u, c) /\ Formed(u) /\ u.con[c].buf = w.con[c].buf
      /\ u.con[c].origin = BUF /\ u.con[c].end = BUF + Rows
  BY <1>1, <1>6, <1>7, PlaceFacts
<1> HIDE DEF u
<1>10. FlagsSound(u) /\ ~ MaySetOrigin(u)
  BY <1>1, <1>5, <1>7, <1>9, FlagsStay
<1>11. BufferedIn(L, u)
  BY <1>1, <1>8, <1>9 DEF BufferedIn, Moving, Frame, ConFrame
<1>12. \A d \in Cons : u.con[d].origin = BUF /\ u.con[d].end = BUF + Rows
  BY <1>1, <1>2, <1>5, <1>9 DEF Moving, ConFrame, OnlyOn
<1>13. ViewInv(L, u)
  BY <1>9, <1>10, <1>11, <1>12, AllBuffered
<1> QED BY <1>5, <1>9, <1>13 DEF Moving, Frame, u, w

(* Suspending a blanked display keeps the registers it will be woken with.  *)
LEMMA Suspended ==
  ASSUME NEW L, NEW t, ViewInv(L, t), t.blanked, NEW n \in Nat \ {0}
  PROVE  LET u == VesaBlanked(t, n) IN ViewInv(L, u) /\ u.blanked /\ u.fg = t.fg
<1> DEFINE m == n - 1
           b == vga_vesa_blank(t, m)
           r == [clock |-> "on", vsync |-> IF m \in {1, 3} THEN "off" ELSE t.reg.vsync,
                 hsync |-> IF m \in {2, 3} THEN "off" ELSE t.reg.hsync]
           k == IF t.vesa = 0 THEN t.reg ELSE t.saved
           u == VesaBlanked(t, n)
<1>1. CASE t.type # "VGAC"
  BY <1>1 DEF VesaBlanked
<1>2. CASE t.type = "VGAC"
  <2>1. b = [t EXCEPT !.saved = k, !.reg = r]
    BY DEF vga_vesa_blank, ViewInv, Formed, VgaFields
  <2>2. u = [b EXCEPT !.vesa = n]
    BY <1>2 DEF VesaBlanked
  <2> HIDE DEF b, r
  <2>3. /\ SameText(t, u) /\ u.blanked = t.blanked /\ u.gfx = t.gfx /\ u.pal = t.pal
        /\ u.vesa = n /\ u.saved = k /\ u.blank_mode = t.blank_mode
    BY <2>1, <2>2 DEF SameText, ViewInv, Formed, VgaFields
  <2> HIDE DEF u
  <2>4. k = Normal
    BY DEF ViewInv, FlagsSound
  <2>5. FlagsSound(u) /\ MaySetOrigin(u) = MaySetOrigin(t)
    BY <2>3, <2>4 DEF ViewInv, FlagsSound, MaySetOrigin
  <2> QED BY <2>3, <2>5, TextStays DEF SameText, u
<1> QED BY <1>1, <1>2

-----------------------------------------------------------------------------
(* The steps before either blanking: the present view, and the text saved.  *)
LEMMA ReadyToBlank ==
  ASSUME NEW L, NEW t, ViewInv(L, t)
  PROVE  LET u == vgacon_save_screen(hide_cursor(t, t.fg), t.fg) IN
         /\ ViewInv(L, u) /\ BufferedIn(L, u) /\ OnlyOn(u, t.fg)
         /\ u.fg = t.fg /\ u.blanked = t.blanked /\ u.type = t.type
<1> DEFINE h == hide_cursor(t, t.fg)
           u == vgacon_save_screen(h, t.fg)
<1>1. ViewInv(L, h) /\ Moving(t, h, t.fg)
  BY CursorKept DEF hide_cursor
<1>2. h.fg = t.fg /\ h.blanked = t.blanked /\ h.type = t.type
  BY <1>1 DEF Moving, Frame
<1>3. ViewInv(L, u) /\ BufferedIn(L, u) /\ Moving(h, u, t.fg) /\ OnlyOn(u, t.fg)
  BY <1>1, <1>2, SaveKept
<1> QED BY <1>2, <1>3 DEF Moving, Frame

(* A program enters graphics: the text is in the buffers.                   *)
LEMMA GraphicsEntered ==
  ASSUME NEW L, NEW t, ViewInv(L, t), ~ t.blanked
  PROVE  VgaInv(L, EnterGraphics(t, t.fg))
<1> DEFINE s == vgacon_save_screen(hide_cursor(t, t.fg), t.fg)
           u == EnterGraphics(t, t.fg)
<1>1. /\ ViewInv(L, s) /\ BufferedIn(L, s) /\ OnlyOn(s, t.fg)
      /\ s.fg = t.fg /\ s.blanked = t.blanked
  BY ReadyToBlank
<1>2. u = set_origin([Blanked(s, s.fg, TRUE) EXCEPT !.blanked = TRUE], s.fg)
  BY <1>1 DEF EnterGraphics
<1>3. ~ PaletteBlanks(s, TRUE)
  BY DEF PaletteBlanks
<1> HIDE DEF s, u
<1>4. LET w == set_origin([Blanked(s, s.fg, TRUE) EXCEPT !.blanked = TRUE], s.fg) IN
      ViewInv(L, w) /\ w.blanked /\ w.fg = s.fg
  BY <1>1, <1>3, MemoryBlanked
<1>5. ViewInv(L, u) /\ u.blanked
  BY <1>2, <1>4
<1> QED BY <1>5 DEF VgaInv, ColoursSound, u

(* The timer blanks a text console, by its colours or by its memory.        *)
LEMMA TextBlanked ==
  ASSUME NEW L, NEW t, ViewInv(L, t), ~ t.blanked
  PROVE  VgaInv(L, BlankText(t, t.fg))
<1> DEFINE c == t.fg
           s == vgacon_save_screen(hide_cursor(t, c), c)
           u == [Blanked(s, c, FALSE) EXCEPT !.blanked = TRUE]
           v == IF PaletteBlanks(t, FALSE) THEN u ELSE set_origin(u, c)
           x == IF v.off THEN "vesa_wait" ELSE v.state
           w == [v EXCEPT !.state = x]
           z == BlankText(t, c)
<1>1. /\ ViewInv(L, s) /\ BufferedIn(L, s) /\ OnlyOn(s, c)
      /\ s.fg = c /\ s.blanked = t.blanked /\ s.type = t.type
  BY ReadyToBlank
<1>2. PaletteBlanks(s, FALSE) = PaletteBlanks(t, FALSE) /\ c \in Cons
  BY <1>1 DEF PaletteBlanks, ViewInv, Formed
<1>3. z = IF w.blank_mode # 0 THEN VesaBlanked(w, w.blank_mode + 1) ELSE w
  BY DEF BlankText
<1> HIDE DEF s
<1>4. ViewInv(L, v) /\ v.blanked
  <2>1. CASE PaletteBlanks(t, FALSE)
    <3>1. ViewInv(L, u) /\ u.blanked
      BY <1>1, <1>2, <2>1, PaletteBlanked
    <3> QED BY <2>1, <3>1
  <2>2. CASE ~ PaletteBlanks(t, FALSE)
    <3>1. LET y == set_origin([Blanked(s, s.fg, FALSE) EXCEPT !.blanked = TRUE], s.fg) IN
          ViewInv(L, y) /\ y.blanked /\ y.fg = s.fg
      BY <1>1, <1>2, <2>2, MemoryBlanked
    <3>2. v = set_origin([Blanked(s, s.fg, FALSE) EXCEPT !.blanked = TRUE], s.fg)
      BY <1>1, <2>2
    <3> QED BY <3>1, <3>2
  <2> QED BY <2>1, <2>2
<1> HIDE DEF v, x
<1>5. ViewInv(L, w) /\ w.blanked
  BY <1>4, StateFree
<1>6. w.blank_mode \in 0 .. 3
  BY <1>5 DEF ViewInv, FlagsSound
<1> HIDE DEF w, z
<1>7. ViewInv(L, z) /\ z.blanked
  <2>1. CASE w.blank_mode = 0
    BY <1>3, <1>5, <2>1
  <2>2. CASE w.blank_mode # 0
    <3>1. w.blank_mode + 1 \in Nat \ {0}
      BY <1>6
    <3> QED BY <1>3, <1>5, <2>2, <3>1, Suspended
  <2> QED BY <2>1, <2>2
<1> QED BY <1>7 DEF VgaInv, ColoursSound, z

(* do_blank_screen; graphics that run over a text are exposed before.       *)
LEMMA BlankScreen ==
  ASSUME NEW L, NEW t, VgaInv(L, t), NEW e \in BOOLEAN, e \/ Exposed(t) \subseteq L
  PROVE  VgaInv(L, do_blank_screen(t, e))
<1> DEFINE u == [t EXCEPT !.state = "off"]
           p == powerdown_screen(u)
<1>1. /\ ViewInv(L, u) /\ ColoursSound(L, u) /\ u.fg = t.fg /\ u.con = t.con
      /\ u.blanked = t.blanked /\ u.gfx = t.gfx /\ u.pal = t.pal
  BY StateFree DEF VgaInv
<1> HIDE DEF u
<1>2. CASE t.blanked
  <2>1. CASE t.state = "vesa_wait"
    <3>1. do_blank_screen(t, e) = p
      BY <1>2, <2>1 DEF do_blank_screen, u
    <3>2. ViewInv(L, p) /\ p.blanked
      <4>1. CASE u.blank_mode = 0
        <5>1. p = VesaBlanked(u, 2)
          BY <4>1 DEF powerdown_screen
        <5>2. LET w == VesaBlanked(u, 2) IN ViewInv(L, w) /\ w.blanked /\ w.fg = u.fg
          <6>1. 2 \in Nat \ {0}
            OBVIOUS
          <6> QED BY <1>1, <1>2, <6>1, Suspended
        <5> QED BY <5>1, <5>2
      <4>2. CASE u.blank_mode \in {1, 2}
        <5>1. p = VesaBlanked(u, 4)
          BY <4>2 DEF powerdown_screen
        <5>2. LET w == VesaBlanked(u, 4) IN ViewInv(L, w) /\ w.blanked /\ w.fg = u.fg
          <6>1. 4 \in Nat \ {0}
            OBVIOUS
          <6> QED BY <1>1, <1>2, <6>1, Suspended
        <5> QED BY <5>1, <5>2
      <4>3. CASE u.blank_mode \notin {0, 1, 2}
        <5>1. p = u
          BY <4>3 DEF powerdown_screen
        <5> QED BY <1>1, <1>2, <5>1
      <4> QED BY <4>1, <4>2, <4>3
    <3> QED BY <3>1, <3>2 DEF VgaInv, ColoursSound
  <2>2. CASE t.state # "vesa_wait"
    BY <1>2, <2>2 DEF do_blank_screen
  <2> QED BY <2>1, <2>2
<1>3. CASE ~ t.blanked
  <2>1. CASE t.state # "normal_wait"
    BY <1>3, <2>1 DEF do_blank_screen
  <2>2. CASE t.state = "normal_wait" /\ e
    <3>1. do_blank_screen(t, e) = EnterGraphics(u, u.fg)
      BY <1>1, <1>3, <2>2 DEF do_blank_screen, u
    <3> QED BY <1>1, <1>3, <3>1, GraphicsEntered
  <2>3. CASE t.state = "normal_wait" /\ ~ e /\ t.con[t.fg].mode = "TEXT"
    <3>1. do_blank_screen(t, e) = BlankText(u, u.fg)
      BY <1>1, <1>3, <2>3 DEF do_blank_screen, u
    <3> QED BY <1>1, <1>3, <3>1, TextBlanked
  <2>4. CASE t.state = "normal_wait" /\ ~ e /\ t.con[t.fg].mode # "TEXT"
    <3> DEFINE w == [u EXCEPT !.blanked = TRUE]
    <3>1. do_blank_screen(t, e) = w
      BY <1>3, <2>4 DEF do_blank_screen, u
    <3>2. t.con[t.fg].mode = "GRAPHICS" /\ t.fg \in Cons
      BY <2>4 DEF VgaInv, ViewInv, Formed, Modes
    <3>3. t.con[t.fg].origin = BUF \/ t.fg \in L
      BY <2>4, <3>2 DEF Exposed
    <3>4. /\ SameText(u, w) /\ w.blanked = TRUE /\ w.con = t.con /\ w.gfx = u.gfx
          /\ w.pal = u.pal /\ w.vesa = u.vesa /\ w.reg = u.reg /\ w.saved = u.saved
          /\ w.blank_mode = u.blank_mode
      BY <1>1 DEF SameText, ViewInv, Formed, VgaFields
    <3> HIDE DEF w
    <3>5. FlagsSound(w) /\ ~ MaySetOrigin(w)
      <4>1. FlagsSound(u) /\ ~ u.blanked
        BY <1>1, <1>3 DEF ViewInv
      <4> HIDE DEF w
      <4> QED BY <3>4, <4>1 DEF FlagsSound, MaySetOrigin
    <3>6. Formed(w) /\ PlacedIn(w)
      BY <1>1, <3>4 DEF SameText, ViewInv, Formed, PlacedIn
    <3>7. KeptIn(L, w)
      BY <1>1, <3>4 DEF SameText, ViewInv, KeptIn, Row, At
    <3>8. OriginSound(L, w)
      BY <1>1, <3>3, <3>4, <3>5 DEF SameText, OriginSound
    <3> QED BY <3>1, <3>4, <3>5, <3>6, <3>7, <3>8 DEF VgaInv, ViewInv, ColoursSound
  <2> QED BY <2>1, <2>2, <2>3, <2>4
<1> QED BY <1>2, <1>3

(* unblank_vt brings back the registers, the colours and the text.          *)
LEMMA UnblankScreen ==
  ASSUME NEW L, NEW t, VgaInv(L, t)
  PROVE  VgaInv(L, unblank_vt(t))
<1>1. CASE ~ t.blanked \/ t.con[t.fg].mode # "TEXT"
  BY <1>1 DEF unblank_vt
<1>2. CASE t.blanked /\ t.con[t.fg].mode = "TEXT"
  <2> DEFINE c == t.fg
             x == IF t.interval THEN "normal_wait" ELSE t.state
             u == [t EXCEPT !.state = x, !.blanked = FALSE]
             k == IF u.vesa # 0 THEN [vga_vesa_unblank(u) EXCEPT !.vesa = 0] ELSE u
             v == Unblanked(u, c)
             w == IF Redraws(t) THEN update_screen(v, c) ELSE v
  <2>1. unblank_vt(t) = set_cursor(set_palette(w, c), c)
    BY <1>2 DEF unblank_vt
  <2>2. /\ SameText(t, u) /\ u.con = t.con /\ u.blanked = FALSE /\ u.gfx = t.gfx /\ u.pal = t.pal
        /\ u.vesa = t.vesa /\ u.reg = t.reg /\ u.saved = t.saved /\ u.blank_mode = t.blank_mode
    BY DEF SameText, VgaInv, ViewInv, Formed, VgaFields
  <2>3. v = IF k.pal THEN [k EXCEPT !.dac = k.con[c].palette, !.pal = FALSE]
            ELSE [k EXCEPT !.gfx = FALSE]
    BY DEF Unblanked
  <2> HIDE DEF x, u, v
  <2>4. /\ SameText(t, k) /\ k.con = t.con /\ k.blanked = FALSE /\ k.gfx = t.gfx /\ k.pal = t.pal
        /\ k.vesa = 0 /\ k.reg = Normal /\ k.blank_mode = t.blank_mode
    <3>1. CASE u.vesa # 0
      <4>1. k = [[u EXCEPT !.reg = u.saved] EXCEPT !.vesa = 0]
        BY <3>1 DEF vga_vesa_unblank
      <4>2. u.saved = Normal
        BY <2>2, <3>1 DEF VgaInv, ViewInv, FlagsSound
      <4> QED BY <2>2, <4>1, <4>2 DEF SameText, VgaFields
    <3>2. CASE u.vesa = 0
      BY <2>2, <3>2 DEF VgaInv, ViewInv, FlagsSound
    <3> QED BY <3>1, <3>2
  <2> HIDE DEF k
  <2>5. ViewInv(L, w) /\ w.fg = c
    <3>1. CASE t.pal
      <4>1. v = [k EXCEPT !.dac = k.con[c].palette, !.pal = FALSE]
        BY <2>3, <2>4, <3>1
      <4>2. /\ SameText(t, v) /\ v.con = t.con /\ v.blanked = FALSE /\ v.gfx = t.gfx
            /\ v.pal = FALSE /\ v.vesa = 0 /\ v.reg = Normal /\ v.blank_mode = t.blank_mode
        BY <2>4, <4>1 DEF SameText, VgaFields
      <4>3. FlagsSound(v) /\ MaySetOrigin(v) = MaySetOrigin(t)
        BY <3>1, <4>2 DEF VgaInv, ViewInv, FlagsSound, MaySetOrigin
      <4>4. w = v
        BY <3>1 DEF Redraws
      <4> QED BY <4>2, <4>3, <4>4, TextStays DEF VgaInv, SameText
    <3>2. CASE ~ t.pal
      <4>1. v = [k EXCEPT !.gfx = FALSE]
        BY <2>3, <2>4, <3>2
      <4>2. /\ SameText(t, v) /\ v.con = t.con /\ v.blanked = FALSE /\ v.gfx = FALSE
            /\ v.pal = t.pal /\ v.vesa = 0 /\ v.reg = Normal /\ v.blank_mode = t.blank_mode
        BY <2>4, <4>1 DEF SameText, VgaFields
      <4>3. FlagsSound(v)
        BY <3>2, <4>2 DEF VgaInv, ViewInv, FlagsSound
      <4>4. t.con[t.fg].origin = BUF \/ t.fg \in L
        BY <1>2, <3>2 DEF VgaInv, ViewInv, OriginSound, MaySetOrigin
      <4>5. Formed(v) /\ v.fg = c
        BY <4>2 DEF VgaInv, ViewInv, Formed, SameText
      <4>6. BufferedIn(L, v)
        <5>1. \A d \in Cons \ L : t.con[d].origin = BUF
          BY <4>4 DEF VgaInv, ViewInv, PlacedIn
        <5> QED BY <4>2, <5>1, RowAt DEF VgaInv, ViewInv, KeptIn, BufferedIn, SameText
      <4>7. OnlyOn(v, v.fg)
        BY <4>2, <4>5 DEF OnlyOn, VgaInv, ViewInv, PlacedIn
      <4>8. w = update_screen(v, v.fg)
        BY <3>2, <4>5 DEF Redraws
      <4> QED BY <4>3, <4>5, <4>6, <4>7, <4>8, UpdateScreen DEF VgaInv
    <3> QED BY <3>1, <3>2
  <2> HIDE DEF w
  <2> QED BY <2>1, <2>5, Redrawn
<1> QED BY <1>1, <1>2

(* A change between text and graphics in the foreground.                    *)
LEMMA ModeKept ==
  ASSUME NEW L, NEW t, VgaInv(L, t)
  PROVE  VgaInv(L, ModeChanged(t, t.fg))
BY BlankScreen, UnblankScreen DEF ModeChanged

(* A key was pressed.                                                       *)
LEMMA PokeKept ==
  ASSUME NEW L, NEW t, VgaInv(L, t)
  PROVE  VgaInv(L, poke_blanked_console(t))
<1> DEFINE x == IF t.interval THEN "normal_wait" ELSE t.state
<1>1. poke_blanked_console(t) \in {t, unblank_vt(t), [t EXCEPT !.state = x]}
  BY DEF poke_blanked_console
<1>2. VgaInv(L, [t EXCEPT !.state = x])
  <2> HIDE DEF x
  <2> QED BY StateFree DEF VgaInv
<1> QED BY <1>1, <1>2, UnblankScreen

-----------------------------------------------------------------------------
(* Another console comes to the foreground: the text of the old one is in   *)
(* its buffer by then, and that of the new one on the screen.               *)
LEMMA SwitchKept ==
  ASSUME NEW L, NEW t, VgaInv(L, t), NEW new \in Cons, new # t.fg
  PROVE  VgaInv(L, switch_screen(t, new)) /\ switch_screen(t, new).fg = new
<1> DEFINE old == t.fg
           h == hide_cursor(t, old)
           g == [h EXCEPT !.fg = new]
           s == vgacon_save_screen(g, old)
           a == set_origin(s, old)
           v == vgacon_switch(set_origin(a, new), new)
           p == set_palette(v, new)
<1>1. switch_screen(t, new) = set_cursor(p, new)
  BY DEF switch_screen
<1>2. ViewInv(L, h) /\ Moving(t, h, old) /\ h.fg = old /\ old \in Cons
  BY CursorKept DEF hide_cursor, VgaInv, Moving, Frame, ViewInv, Formed
<1> HIDE DEF h
<1>3. /\ DOMAIN g = VgaFields /\ g.fg = new /\ g.con = h.con /\ g.vram = h.vram
      /\ g.text = h.text /\ g.rolled = h.rolled /\ g.blanked = h.blanked /\ g.gfx = h.gfx
      /\ g.pal = h.pal /\ g.vesa = h.vesa /\ g.reg = h.reg /\ g.saved = h.saved
      /\ g.blank_mode = h.blank_mode
  BY <1>2 DEF ViewInv, Formed, VgaFields
<1> HIDE DEF g
<1>4. Formed(g) /\ FlagsSound(g) /\ KeptIn(L, g)
  <2>1. Formed(g) /\ FlagsSound(g)
    BY <1>2, <1>3 DEF ViewInv, Formed, FlagsSound
  <2>2. \A d \in Cons, y \in Screen : Row(g, d, y) = Row(h, d, y)
    BY <1>3 DEF Row, At
  <2> QED BY <1>2, <1>3, <2>1, <2>2 DEF ViewInv, KeptIn
<1>5. OnlyOn(g, old) /\ (g.gfx => g.con[old].origin = BUF \/ old \in L)
  BY <1>2, <1>3 DEF OnlyOn, ViewInv, PlacedIn, OriginSound, MaySetOrigin
<1>6. BufferedIn(L, s)
  BY <1>2, <1>4, <1>5, SavedIsBuffered
<1>7. Moving(g, s, old) /\ Formed(s)
  BY <1>2, <1>4, SaveFacts
<1> HIDE DEF s
<1>8. FlagsSound(s) /\ s.fg = new
  BY <1>2, <1>3, <1>4, <1>7, FlagsStay DEF Moving, Frame
<1>9. /\ Moving(s, a, old) /\ Formed(a) /\ a.con[old].buf = s.con[old].buf
      /\ a.con[old].origin = BUF /\ a.con[old].end = BUF + Rows
  BY <1>2, <1>7, <1>8, PlaceFacts
<1> HIDE DEF a
<1>10. FlagsSound(a) /\ a.fg = new
  BY <1>2, <1>8, <1>9, FlagsStay DEF Moving, Frame
<1>11. BufferedIn(L, a)
  BY <1>6, <1>9 DEF BufferedIn, Moving, Frame, ConFrame
<1>12. OnlyOn(a, new)
  BY <1>5, <1>7, <1>9 DEF OnlyOn, Moving, ConFrame
<1>13. LET w == vgacon_switch(set_origin(a, a.fg), a.fg) IN ViewInv(L, w) /\ Moving(a, w, a.fg)
  BY <1>9, <1>10, <1>11, <1>12, Restored
<1>14. ViewInv(L, v) /\ v.fg = new
  BY <1>10, <1>13 DEF Moving, Frame
<1> HIDE DEF v
<1>15. ViewInv(L, p) /\ ColoursSound(L, p) /\ p.fg = new
  BY <1>14, PaletteKept
<1>16. LET w == set_cursor(p, new) IN
       ViewInv(L, w) /\ (ColoursSound(L, p) => ColoursSound(L, w)) /\ Moving(p, w, p.fg)
  BY <1>15, SetCursorKept
<1> QED BY <1>1, <1>15, <1>16 DEF VgaInv, Moving, Frame

-----------------------------------------------------------------------------
(* A number below the modulus comes back after one turn.                    *)
LEMMA WrapAround ==
  ASSUME NEW m \in Nat \ {0}, NEW o \in 0 .. m - 1
  PROVE  (o + m) % m = o
<1>1. (o + m) % m \in 0 .. m - 1 /\ o + m = m * ((o + m) \div m) + ((o + m) % m)
  OBVIOUS
<1> DEFINE k == (o + m) \div m
           r == (o + m) % m
<1>2. k \in Int
  OBVIOUS
<1> HIDE DEF k, r
<1>3. r \in 0 .. m - 1 /\ o + m = m * k + r
  BY <1>1 DEF k, r
<1>4. CASE k <= 0
  BY <1>2, <1>3, <1>4
<1>5. CASE k = 1
  BY <1>3, <1>5 DEF r
<1>6. CASE k >= 2
  <2>1. m * k >= 2 * m
    BY <1>2, <1>6
  <2> QED BY <1>3, <2>1
<1> QED BY <1>2, <1>4, <1>5, <1>6

(* A view scrolled to the past or back stays in the memory that has text:   *)
(* before the origin, or anywhere in the ring (vgacon_scrolldelta).         *)
LEMMA ViewRowInside ==
  ASSUME NEW L, NEW t, ViewInv(L, t), MaySetOrigin(t), NEW lines \in Int
  PROVE  ViewRow(t, t.fg, lines) \in Origins
<1> DEFINE c == t.fg
           origin == t.con[c].origin
           ring == t.rolled > t.con[c].end + Margin
           ul == IF ring THEN t.con[c].end ELSE 0
           we == IF ring THEN t.rolled + 1 ELSE VramRows
           st == (origin - ul + we) % we
           margin == IF st < 2 * Margin THEN 0 ELSE Margin
           p == ((t.con[c].visible - ul + we) % we) + lines
           q == IF p < margin THEN 0 ELSE p
           r == IF q > st - margin THEN st ELSE q
<1>1. ViewRow(t, c, lines) = (r + ul) % we
  BY DEF ViewRow
<1>2. /\ origin \in Nat /\ origin <= VramRows - Rows /\ t.con[c].visible \in Nat
      /\ t.con[c].end = origin + Rows /\ t.rolled \in Nat /\ t.rolled <= VramRows - Rows
      /\ Rows \in Nat /\ Rows > 0 /\ VramRows \in Nat /\ Rows <= VramRows /\ Margin \in Nat
  <2>1. c \in Cons /\ t.rolled \in Origins /\ PlacedAt(t, c)
    BY DEF ViewInv, Formed, OriginSound
  <2>2. t.con[c].end = t.con[c].origin + Rows
    BY <2>1 DEF ViewInv, PlacedIn
  <2> QED BY <2>1, <2>2, VgaAssumption DEF PlacedAt, Origins
<1>3. we \in Nat /\ we > 0 /\ ul \in Nat
  BY <1>2
<1>4. CASE ring
  <2>1. we = t.rolled + 1
    BY <1>4
  <2>2. st \in Nat /\ margin \in Nat /\ p \in Int
    <3> HIDE DEF ul, we
    <3> QED BY <1>2, <1>3
  <2> HIDE DEF st, margin, p, ul
  <2>3. r + ul \in Int
    BY <1>3, <2>2
  <2> HIDE DEF r, we
  <2>4. (r + ul) % we \in 0 .. we - 1
    BY <1>3, <2>3
  <2> HIDE DEF ring
  <2> QED BY <1>1, <1>2, <2>1, <2>4 DEF Origins
<1>5. CASE ~ ring
  <2>1. we = VramRows /\ ul = 0
    BY <1>5
  <2>2. st = origin
    <3>1. st = (origin + VramRows) % VramRows
      BY <1>2, <2>1
    <3>2. origin \in 0 .. VramRows - 1
      BY <1>2
    <3>3. VramRows \in Nat \ {0}
      BY <1>2
    <3> HIDE DEF st, origin
    <3>4. (origin + VramRows) % VramRows = origin
      BY <3>2, <3>3, WrapAround
    <3> QED BY <3>1, <3>4
  <2>3. margin \in Nat /\ p \in Int
    <3>1. (t.con[c].visible - ul + we) % we \in Int
      <4> HIDE DEF ul, we
      <4> QED BY <1>2, <1>3
    <3> QED BY <1>2, <2>2, <3>1
  <2> HIDE DEF st, margin, p, ul, we, ring
  <2>4. r \in 0 .. origin
    BY <1>2, <2>2, <2>3
  <2> HIDE DEF r
  <2>5. (r + ul) % we = r
    BY <1>2, <2>1, <2>4
  <2> QED BY <1>1, <1>2, <2>4, <2>5 DEF Origins
<1> QED BY <1>4, <1>5

-----------------------------------------------------------------------------
(* From t to u, the rows f were written to console c and nothing else.      *)
NowShows(L, t, u, c, f) ==
  /\ Moving(t, u, c) /\ Formed(u) /\ PlacedIn(u) /\ OriginSound(L, u)
  /\ c \notin L => \A y \in Screen : Row(u, c, y) = f[y]
  /\ \A d \in Cons, y \in Screen : d # c => Row(u, d, y) = Row(t, d, y)

(* Rows put in place are written.                                           *)
LEMMA PutShows ==
  ASSUME NEW L, NEW t, ViewInv(L, t), NEW c \in Cons, NEW f
  PROVE  NowShows(L, t, Put(t, c, f), c, f)
<1> DEFINE u == Put(t, c, f)
<1>1. /\ Formed(t) /\ t.fg \in Cons
      /\ \A d \in Cons : d # c => t.con[d].origin = BUF \/ t.con[c].origin = BUF
      /\ c \notin L => t.con[c].origin \in Origins \cup {BUF}
  BY DEF ViewInv, Formed, PlacedIn, OriginSound, PlacedAt
<1>2. /\ Moving(t, u, c) /\ Formed(u)
      /\ u.con[c].origin = t.con[c].origin /\ u.con[c].visible = t.con[c].visible
      /\ u.con[c].end = t.con[c].end /\ u.top = t.top /\ u.rolled = t.rolled
      /\ c \notin L => \A y \in Screen : Row(u, c, y) = f[y]
      /\ \A d \in Cons : d # c => \A y \in Screen : Row(u, d, y) = Row(t, d, y)
  BY <1>1, PutFacts
<1> HIDE DEF u
<1>3. \A d \in Cons : /\ u.con[d].origin = t.con[d].origin /\ u.con[d].end = t.con[d].end
                      /\ u.con[d].visible = t.con[d].visible
  BY <1>2 DEF Moving, ConFrame
<1>4. u.fg = t.fg /\ MaySetOrigin(u) = MaySetOrigin(t)
  BY <1>1, <1>2, FlagsStay DEF Moving, Frame
<1>5. PlacedIn(u)
  BY <1>3, <1>4 DEF ViewInv, PlacedIn
<1>6. OriginSound(L, u)
  BY <1>1, <1>2, <1>3, <1>4 DEF ViewInv, OriginSound, PlacedAt
<1> QED BY <1>2, <1>5, <1>6 DEF NowShows, u

(* set_cursor at the end of a write leaves what was written.                *)
LEMMA CursorShows ==
  ASSUME NEW L, NEW t, NEW c \in Cons, NEW f, NEW p, NowShows(L, t, p, c, f)
  PROVE  NowShows(L, t, set_cursor(p, c), c, f)
<1> DEFINE u == set_cursor(p, c)
<1>1. CASE u = p
  BY <1>1
<1>2. CASE u # p
  <2>1. u = vgacon_cursor(p, c) /\ c = p.fg
    BY <1>2 DEF set_cursor, Visible
  <2>2. /\ Moving(p, u, c) /\ SamePlace(p, u, c) /\ Formed(u)
        /\ u.con[c].visible = u.con[c].origin /\ u.top = u.con[c].visible
    BY <1>2, <2>1, CursorFacts DEF NowShows
  <2> HIDE DEF u
  <2>3. Moving(t, u, c)
    BY <2>2 DEF NowShows, Moving, Frame, ConFrame
  <2>4. \A d \in Cons, y \in Screen : Row(u, d, y) = Row(p, d, y)
    BY <2>2, RowsStay
  <2>5. u.fg = p.fg /\ MaySetOrigin(u) = MaySetOrigin(p)
    BY <2>1, <2>2, FlagsStay DEF Moving, Frame
  <2>6. PlacedIn(u)
    BY <2>1, <2>2, <2>5 DEF SamePlace, Moving, ConFrame, NowShows, PlacedIn
  <2>7. OriginSound(L, u)
    BY <2>1, <2>2, <2>5 DEF OriginSound, PlacedAt, NowShows, SamePlace
  <2> QED BY <2>2, <2>3, <2>4, <2>6, <2>7 DEF NowShows, u
<1> QED BY <1>1, <1>2

(* Only the history differs.                                                *)
SameButHistory(u, w) ==
  /\ DOMAIN w = VgaFields /\ w.fg = u.fg /\ w.con = u.con /\ w.type = u.type
  /\ w.vram = u.vram /\ w.top = u.top /\ w.rolled = u.rolled /\ w.dac = u.dac
  /\ w.blanked = u.blanked /\ w.gfx = u.gfx /\ w.pal = u.pal /\ w.blank_mode = u.blank_mode
  /\ w.vesa = u.vesa /\ w.reg = u.reg /\ w.saved = u.saved

(* A write is complete when the history has the same rows.                  *)
LEMMA WriteKept ==
  ASSUME NEW L, NEW t, VgaInv(L, t), NEW c \in Cons, NEW f, NEW u, NowShows(L, t, u, c, f),
         NEW w, SameButHistory(u, w),
         DOMAIN w.text = Cons, \A d \in Cons : d # c => w.text[d] = t.text[d],
         DOMAIN w.text[c] = Screen, c \notin L => \A y \in Screen : w.text[c][y] = f[y]
  PROVE  VgaInv(L, w)
<1>1. Formed(w)
  BY DEF SameButHistory, NowShows, ViewInv, Formed, VgaInv
<1>2. \A d \in Cons, y \in Screen : Row(w, d, y) = Row(u, d, y)
  BY DEF SameButHistory, Row, At
<1>3. KeptIn(L, w)
  BY <1>2 DEF KeptIn, NowShows, VgaInv, ViewInv
<1>4. PlacedIn(w)
  BY DEF SameButHistory, PlacedIn, NowShows
<1>5. OriginSound(L, w)
  BY DEF SameButHistory, OriginSound, PlacedAt, NowShows, MaySetOrigin
<1>6. FlagsSound(u) /\ ColoursSound(L, u)
  BY FlagsStay DEF NowShows, VgaInv, ViewInv, Formed
<1>7. FlagsSound(w) /\ ColoursSound(L, w)
  BY <1>6 DEF SameButHistory, FlagsSound, ColoursSound
<1> QED BY <1>1, <1>3, <1>4, <1>5, <1>7 DEF VgaInv, ViewInv

(* A program writes a row.                                                  *)
LEMMA WriteRowKept ==
  ASSUME NEW L, VgaInv(L, vga), NEW c \in Cons, NEW y \in Screen, WriteRow(c, y)
  PROVE  VgaInv(L, vga')
<1> DEFINE t == Unhidden(vga, c)
           f == [[z \in Screen |-> Row(t, c, z)] EXCEPT ![y] = c]
           u == set_cursor(Put(t, c, f), c)
           x == [vga.text[c] EXCEPT ![y] = c]
           w == vga'
<1>1. w = [u EXCEPT !.text[c][y] = c, !.writes = @ + 1]
  BY DEF WriteRow
<1>2. VgaInv(L, t) /\ t.text = vga.text
  <2>1. CASE c = vga.fg
    BY <2>1, CursorKept DEF VgaInv, Unhidden, Visible, hide_cursor, Moving, Frame
  <2>2. CASE c # vga.fg
    BY <2>2 DEF Unhidden, Visible
  <2> QED BY <2>1, <2>2
<1>3. c \notin L => \A z \in Screen : f[z] = IF z = y THEN c ELSE t.text[c][z]
  BY <1>2 DEF VgaInv, ViewInv, KeptIn
<1> HIDE DEF t, f
<1>4. NowShows(L, t, u, c, f)
  BY <1>2, PutShows, CursorShows DEF VgaInv
<1> HIDE DEF u
<1>5. u.text = vga.text /\ DOMAIN u = VgaFields
  BY <1>2, <1>4 DEF NowShows, Moving, Frame
<1>6. SameButHistory(u, w) /\ w.text = [vga.text EXCEPT ![c] = x]
  BY <1>1, <1>5 DEF SameButHistory, VgaFields
<1>7. /\ DOMAIN vga.text = Cons /\ DOMAIN vga.text[c] = Screen
  BY DEF VgaInv, ViewInv, Formed
<1>8. /\ DOMAIN w.text = Cons /\ \A d \in Cons : d # c => w.text[d] = t.text[d]
      /\ DOMAIN w.text[c] = Screen /\ (c \notin L => \A z \in Screen : w.text[c][z] = f[z])
  BY <1>2, <1>3, <1>6, <1>7
<1> HIDE DEF w
<1> QED BY <1>2, <1>4, <1>6, <1>8, WriteKept DEF w

Alike(f, g) == \A y \in Screen : f[y] = g[y]

(* Rows that are the same move to the same rows.                            *)
LEMMA MovedAlike ==
  ASSUME NEW f, NEW g, Alike(f, g), NEW t0 \in 0 .. 1, NEW up \in BOOLEAN, NEW n \in Nat
  PROVE  Alike(MovedRows(f, t0, up, n), MovedRows(g, t0, up, n))
<1>1. ASSUME NEW y \in Screen PROVE MovedRows(f, t0, up, n)[y] = MovedRows(g, t0, up, n)[y]
  <2>1. /\ y + n < Rows => y + n \in Screen
        /\ y - n >= t0 => y - n \in Screen
    BY VgaAssumption DEF Screen
  <2> QED BY <2>1 DEF MovedRows, Alike
<1> QED BY <1>1 DEF Alike

(* Where vgacon_scroll_region puts the origin of the foreground console.    *)
Over(t, up, n) ==
  IF up THEN t.con[t.fg].end + n >= VramRows ELSE t.con[t.fg].origin - n < 0
NewOrigin(t, up, n) ==
  IF up THEN (IF Over(t, up, n) THEN 0 ELSE t.con[t.fg].origin + n)
  ELSE (IF Over(t, up, n) THEN VramRows - Rows ELSE t.con[t.fg].origin - n)
NewRolled(t, up, n) ==
  IF ~ Over(t, up, n) THEN t.rolled ELSE IF up THEN t.con[t.fg].origin ELSE 0

(* The origin moves, or the text to the other end of the memory.            *)
LEMMA HardFacts ==
  ASSUME NEW t, Formed(t), PlacedIn(t), NEW up \in BOOLEAN, NEW n \in Nat
  PROVE  LET w == HardScroll(t, t.fg, up, n)
             new == NewOrigin(t, up, n)
             g == [y \in Screen |-> Row(t, t.fg, y)]
         IN /\ Moving(t, w, t.fg) /\ Formed(w)
            /\ w.con[t.fg].origin = new /\ w.con[t.fg].visible = new /\ w.top = new
            /\ w.con[t.fg].end = new + Rows /\ w.rolled = NewRolled(t, up, n)
            /\ new \in Origins =>
                 \A y \in Screen : Row(w, t.fg, y) = MovedRows(g, 0, up, n)[y]
            /\ \A d \in Cons, y \in Screen : d # t.fg => Row(w, d, y) = Row(t, d, y)
<1> DEFINE c == t.fg
           u == vgacon_cursor(t, c)
           o == u.con[c].origin
           over == IF up THEN u.con[c].end + n >= VramRows ELSE o - n < 0
           new == IF up THEN (IF over THEN 0 ELSE o + n) ELSE (IF over THEN VramRows - Rows ELSE o - n)
           g == [y \in Screen |-> Row(u, c, y)]
           f == MovedRows(g, 0, up, n)
           rolled == IF ~ over THEN u.rolled ELSE IF up THEN o ELSE 0
           at == [u EXCEPT !.con[c].origin = new, !.con[c].end = new + Rows, !.rolled = rolled]
           p == Put(at, c, f)
           w == ViewAt(p, c, new)
<1>1. HardScroll(t, c, up, n) = w
  BY DEF HardScroll
<1>2. Moving(t, u, c) /\ SamePlace(t, u, c) /\ Formed(u) /\ c \in Cons
  BY CursorFacts DEF Formed
<1>3. /\ u.fg = c /\ \A d \in Cons : d # c => u.con[d] = t.con[d]
      /\ \A d \in Cons, y \in Screen : Row(u, d, y) = Row(t, d, y)
  BY <1>2, RowsStay DEF Moving, Frame, ConFrame
<1>4. new = NewOrigin(t, up, n) /\ rolled = NewRolled(t, up, n)
  BY <1>2 DEF SamePlace, NewOrigin, NewRolled, Over
<1>5. g = [y \in Screen |-> Row(t, c, y)]
  BY <1>2, <1>3
<1> HIDE DEF g, u
<1>6. f = MovedRows([y \in Screen |-> Row(t, c, y)], 0, up, n)
  BY <1>5
<1> HIDE DEF f, new, rolled
<1>7. Frame(u, at) /\ at.vram = u.vram /\ at.rolled = rolled
  BY <1>2 DEF Frame, Formed, VgaFields
<1>8. /\ ConFrame(u, at, c) /\ at.con[c].origin = new /\ at.con[c].end = new + Rows
      /\ at.con[c].buf = u.con[c].buf
  BY <1>2 DEF ConFrame, Formed, VgaFields, ConFields
<1> HIDE DEF at
<1>9. Formed(at)
  BY <1>2, <1>7, <1>8 DEF Formed, Frame, ConFrame
<1>10. \A d \in Cons : d # c => u.con[d].origin = BUF /\ at.con[d] = u.con[d]
  BY <1>3, <1>8 DEF PlacedIn, ConFrame
<1>11. /\ Moving(at, p, c) /\ Formed(p)
       /\ p.con[c].origin = new /\ p.con[c].end = new + Rows /\ p.rolled = rolled
       /\ new \in Origins => \A y \in Screen : Row(p, c, y) = f[y]
       /\ \A d \in Cons : d # c => \A y \in Screen : Row(p, d, y) = Row(at, d, y)
  <2>1. \A d \in Cons : d # c => at.con[d].origin = BUF \/ at.con[c].origin = BUF
    BY <1>10
  <2> QED BY <1>2, <1>7, <1>8, <1>9, <2>1, PutFacts
<1> HIDE DEF p
<1>12. /\ Moving(p, w, c) /\ SamePlace(p, w, c) /\ Formed(w)
       /\ w.con[c].visible = new /\ w.top = new
  BY <1>2, <1>11, ViewAtFacts
<1>13. \A d \in Cons, y \in Screen : Row(w, d, y) = Row(p, d, y)
  BY <1>2, <1>12, RowsStay
<1> HIDE DEF w
<1>14. Moving(t, w, c)
  BY <1>2, <1>7, <1>8, <1>11, <1>12 DEF Moving, Frame, ConFrame
<1>15. \A d \in Cons, y \in Screen : d # c => Row(at, d, y) = Row(u, d, y)
  BY <1>7, <1>10 DEF Row, At
<1>16. \A d \in Cons, y \in Screen : d # c => Row(w, d, y) = Row(t, d, y)
  BY <1>3, <1>11, <1>13, <1>15
<1>17. new \in Origins => \A y \in Screen : Row(w, c, y) = f[y]
  BY <1>2, <1>11, <1>13
<1>18. /\ w.con[c].origin = new /\ w.con[c].end = new + Rows /\ w.rolled = rolled
  BY <1>11, <1>12 DEF SamePlace
<1> QED BY <1>1, <1>4, <1>6, <1>12, <1>14, <1>16, <1>17, <1>18

(* In memory, the origin stays where a screen fits.                         *)
LEMMA HardInside ==
  ASSUME NEW L, NEW t, ViewInv(L, t), MaySetOrigin(t), NEW up \in BOOLEAN, NEW n \in Nat
  PROVE  NewOrigin(t, up, n) \in Origins /\ NewRolled(t, up, n) \in Origins
<1> DEFINE o == t.con[t.fg].origin
<1>1. o \in Origins /\ t.con[t.fg].end = o + Rows /\ t.rolled \in Origins
  BY DEF ViewInv, Formed, PlacedIn, OriginSound, PlacedAt
<1> HIDE DEF o
<1>2. CASE up
  BY <1>1, <1>2, VgaAssumption DEF Origins, NewOrigin, NewRolled, Over, o
<1>3. CASE ~ up
  BY <1>1, <1>3, VgaAssumption DEF Origins, NewOrigin, NewRolled, Over, o
<1> QED BY <1>2, <1>3

(* From the buffer, above the memory, the origin leaves the buffer.         *)
LEMMA HardLeaves ==
  ASSUME NEW t, t.con[t.fg].origin = BUF, t.con[t.fg].end = BUF + Rows,
         NEW up \in BOOLEAN, NEW n \in Nat \ {0}
  PROVE  NewOrigin(t, up, n) # BUF
BY VgaAssumption DEF NewOrigin, Over, BUF

(* Either way the rows of a text that is not exposed are those of a screen  *)
(* that was scrolled.                                                       *)
LEMMA HardShows ==
  ASSUME NEW L, NEW t, ViewInv(L, t), MaySetOrigin(t) \/ t.fg \in L,
         NEW up \in BOOLEAN, NEW n \in Nat
  PROVE  \E f : /\ NowShows(L, t, HardScroll(t, t.fg, up, n), t.fg, f)
                /\ t.fg \notin L => Alike(f, MovedRows(t.text[t.fg], 0, up, n))
<1> DEFINE c == t.fg
           w == HardScroll(t, c, up, n)
           new == NewOrigin(t, up, n)
           rolled == NewRolled(t, up, n)
           g == [y \in Screen |-> Row(t, c, y)]
           f == MovedRows(g, 0, up, n)
<1>1. Formed(t) /\ PlacedIn(t) /\ c \in Cons
  BY DEF ViewInv, Formed
<1>2. c \notin L => Alike(g, t.text[c])
  BY <1>1 DEF ViewInv, KeptIn, Alike
<1>3. /\ Moving(t, w, c) /\ Formed(w)
      /\ w.con[c].origin = new /\ w.con[c].visible = new /\ w.top = new
      /\ w.con[c].end = new + Rows /\ w.rolled = rolled
      /\ new \in Origins => \A y \in Screen : Row(w, c, y) = f[y]
      /\ \A d \in Cons, y \in Screen : d # c => Row(w, d, y) = Row(t, d, y)
  BY <1>1, HardFacts
<1>4. MaySetOrigin(t) => new \in Origins /\ rolled \in Origins
  BY HardInside
<1> HIDE DEF g, w, new, rolled
<1>5. c \notin L => Alike(f, MovedRows(t.text[c], 0, up, n))
  <2>1. 0 \in 0 .. 1
    OBVIOUS
  <2> QED BY <1>2, <2>1, MovedAlike
<1> HIDE DEF f
<1>6. w.fg = c /\ MaySetOrigin(w) = MaySetOrigin(t) /\ \A d \in Cons : d # c => w.con[d] = t.con[d]
  BY <1>1, <1>3, FlagsStay DEF Moving, Frame, ConFrame
<1>7. PlacedIn(w)
  BY <1>1, <1>3, <1>6 DEF PlacedIn
<1>8. OriginSound(L, w)
  BY <1>3, <1>4, <1>6 DEF OriginSound, PlacedAt
<1>9. NowShows(L, t, w, c, f)
  BY <1>3, <1>4, <1>7, <1>8 DEF NowShows
<1> QED BY <1>5, <1>9 DEF w

(* The screen or a part of it is scrolled.                                  *)
LEMMA ScrollKept ==
  ASSUME NEW L, VgaInv(L, vga), Exposed(vga') \subseteq L, NEW c \in Cons,
         NEW t0 \in 0 .. 1, NEW up \in BOOLEAN, NEW n \in Nat \ {0},
         ScrollRegion(c, t0, up, n)
  PROVE  VgaInv(L, vga')
<1> DEFINE t == Unhidden(vga, c)
           soft == IF Visible(t, c) /\ t0 = 0 /\ ~ t.gfx THEN vgacon_cursor(t, c) ELSE t
           g == [y \in Screen |-> Row(soft, c, y)]
           u == IF Hard(t, c, t0, n) THEN HardScroll(t, c, up, n)
                ELSE Put(soft, c, MovedRows(g, t0, up, n))
           m == set_cursor(u, c)
           x == MovedRows(m.text[c], t0, up, n)
           w == vga'
<1>1. w = [m EXCEPT !.text[c] = x]
  BY DEF ScrollRegion
<1>2. VgaInv(L, t) /\ t.text = vga.text /\ t.fg = vga.fg
  <2>1. CASE c = vga.fg
    BY <2>1, CursorKept DEF VgaInv, Unhidden, Visible, hide_cursor, Moving, Frame
  <2>2. CASE c # vga.fg
    BY <2>2 DEF Unhidden, Visible
  <2> QED BY <2>1, <2>2
<1> HIDE DEF t
<1>3. ASSUME Hard(t, c, t0, n) PROVE MaySetOrigin(t) \/ c \in L
  <2> SUFFICES ASSUME ~ MaySetOrigin(t), c \notin L PROVE FALSE
    OBVIOUS
  <2>1. c = t.fg /\ u = HardScroll(t, c, up, n)
    BY <1>3 DEF Hard, Visible
  <2>2. t.con[c].origin = BUF /\ t.con[c].end = BUF + Rows /\ t.blanked
    BY <1>2, <2>1 DEF VgaInv, ViewInv, OriginSound, PlacedIn, FlagsSound, MaySetOrigin
  <2>3. Formed(t) /\ PlacedIn(t)
    BY <1>2 DEF VgaInv, ViewInv
  <2> HIDE DEF u
  <2>4. Moving(t, u, c) /\ u.con[c].origin = NewOrigin(t, up, n)
    BY <2>1, <2>3, HardFacts
  <2>5. m = u
    BY <2>2, <2>4 DEF set_cursor, Moving, Frame
  <2> HIDE DEF m, x
  <2>6. w.fg = c /\ w.con = u.con /\ MaySetOrigin(w) = MaySetOrigin(u)
    BY <1>1, <2>1, <2>4, <2>5 DEF Moving, Frame, VgaFields, MaySetOrigin
  <2>7. MaySetOrigin(u) = MaySetOrigin(t)
    BY <2>3, <2>4, FlagsStay DEF Formed
  <2>8. w.con[c].origin # BUF
    BY <2>1, <2>2, <2>4, <2>6, HardLeaves
  <2>9. c \in Exposed(w)
    BY <2>6, <2>7, <2>8 DEF Exposed
  <2> QED BY <2>9
<1>4. PICK f : /\ NowShows(L, t, u, c, f)
               /\ c \notin L => Alike(f, MovedRows(t.text[c], t0, up, n))
  <2>1. CASE Hard(t, c, t0, n)
    <3>1. c = t.fg /\ t0 = 0 /\ u = HardScroll(t, t.fg, up, n)
      BY <2>1 DEF Hard, Visible
    <3>2. \E f : /\ NowShows(L, t, HardScroll(t, t.fg, up, n), t.fg, f)
                 /\ t.fg \notin L => Alike(f, MovedRows(t.text[t.fg], 0, up, n))
      BY <1>2, <1>3, <2>1, <3>1, HardShows DEF VgaInv
    <3> HIDE DEF u
    <3> QED BY <3>1, <3>2
  <2>2. CASE ~ Hard(t, c, t0, n)
    <3>1. ViewInv(L, soft) /\ Moving(t, soft, c) /\ SamePlace(t, soft, c)
      <4>1. CASE c = t.fg /\ t0 = 0 /\ ~ t.gfx
        BY <1>2, <4>1, CursorKept DEF VgaInv, Visible
      <4>2. CASE ~ (c = t.fg /\ t0 = 0 /\ ~ t.gfx)
        <5>1. soft = t
          BY <4>2 DEF Visible
        <5> QED BY <1>2, <5>1 DEF VgaInv, ViewInv, Formed, Moving, Frame, ConFrame, SamePlace
      <4> QED BY <4>1, <4>2
    <3>2. c \notin L => Alike(g, t.text[c])
      BY <3>1 DEF ViewInv, KeptIn, Moving, Frame, Alike
    <3> HIDE DEF g, soft
    <3> DEFINE f == MovedRows(g, t0, up, n)
    <3>3. c \notin L => Alike(f, MovedRows(t.text[c], t0, up, n))
      BY <3>2, MovedAlike
    <3>4. u = Put(soft, c, f)
      BY <2>2
    <3> HIDE DEF f, u
    <3>5. NowShows(L, soft, u, c, f)
      BY <3>1, <3>4, PutShows
    <3>6. Moving(t, u, c)
      BY <3>1, <3>5 DEF NowShows, Moving, Frame, ConFrame
    <3>7. \A d \in Cons, y \in Screen : Row(soft, d, y) = Row(t, d, y)
      BY <3>1, RowsStay
    <3>8. NowShows(L, t, u, c, f)
      BY <3>5, <3>6, <3>7 DEF NowShows
    <3> QED BY <3>3, <3>8
  <2> QED BY <2>1, <2>2
<1> HIDE DEF u
<1>5. NowShows(L, t, m, c, f)
  BY <1>4, CursorShows
<1> HIDE DEF m
<1>6. m.text = t.text /\ DOMAIN m = VgaFields
  BY <1>5 DEF NowShows, Moving, Frame
<1>7. SameButHistory(m, w) /\ w.text = [t.text EXCEPT ![c] = x]
  BY <1>1, <1>6 DEF SameButHistory, VgaFields
<1>8. x = MovedRows(t.text[c], t0, up, n) /\ DOMAIN x = Screen
  BY <1>6 DEF MovedRows
<1> HIDE DEF x
<1>9. DOMAIN t.text = Cons
  BY <1>2 DEF VgaInv, ViewInv, Formed
<1>10. /\ DOMAIN w.text = Cons /\ \A d \in Cons : d # c => w.text[d] = t.text[d]
       /\ DOMAIN w.text[c] = Screen /\ (c \notin L => \A y \in Screen : w.text[c][y] = f[y])
  BY <1>4, <1>7, <1>8, <1>9 DEF Alike
<1> HIDE DEF w
<1> QED BY <1>2, <1>5, <1>7, <1>10, WriteKept DEF w

-----------------------------------------------------------------------------
(* Another virtual terminal comes to the foreground.                        *)
LEMMA ChangeKept ==
  ASSUME NEW L, VgaInv(L, vga), NEW c \in Cons, complete_change_console(c)
  PROVE  VgaInv(L, vga')
<1> DEFINE t == switch_screen(vga, c)
<1>1. VgaInv(L, t) /\ t.fg = c
  BY SwitchKept DEF complete_change_console
<1>2. vga' = t \/ vga' = ModeChanged(t, c)
  BY DEF complete_change_console
<1> HIDE DEF t
<1> QED BY <1>1, <1>2, ModeKept

(* KDSETMODE; a console that is made a text console again has been blanked  *)
(* for the graphics.                                                        *)
LEMMA SetModeKept ==
  ASSUME NEW L, VgaInv(L, vga), Exposed(vga) \subseteq L, NEW c \in Cons, KDSETMODE(c)
  PROVE  VgaInv(L, vga')
<1> DEFINE m == IF vga.con[c].mode = "TEXT" THEN "GRAPHICS" ELSE "TEXT"
           t == [vga EXCEPT !.con[c].mode = m]
<1>1. vga' = IF Visible(vga, c) THEN ModeChanged(t, c) ELSE t
  BY DEF KDSETMODE
<1>2. /\ SameText(vga, t) /\ t.con[c].mode = m /\ t.con[c].palette = vga.con[c].palette
      /\ \A d \in Cons : d # c => t.con[d] = vga.con[d]
  BY DEF VgaInv, ViewInv, Formed, SameText, VgaFields, ConFields, Modes, m
<1>3. /\ t.type = vga.type /\ t.dac = vga.dac
      /\ t.blanked = vga.blanked /\ t.gfx = vga.gfx /\ t.pal = vga.pal /\ t.vesa = vga.vesa
      /\ t.reg = vga.reg /\ t.saved = vga.saved /\ t.blank_mode = vga.blank_mode
  BY DEF VgaInv, ViewInv, Formed, VgaFields
<1> HIDE DEF t, m
<1>4. FlagsSound(t) /\ MaySetOrigin(t) = MaySetOrigin(vga)
  BY <1>3 DEF VgaInv, ViewInv, FlagsSound, MaySetOrigin
<1>5. ViewInv(L, t) /\ t.fg = vga.fg
  BY <1>2, <1>4, TextStays DEF VgaInv, SameText
<1>6. ColoursSound(L, t)
  <2>1. CASE c # vga.fg
    <3>1. t.con[t.fg] = vga.con[vga.fg]
      BY <1>2, <1>5, <2>1 DEF VgaInv, ViewInv, Formed
    <3> QED BY <1>3, <1>5, <3>1 DEF VgaInv, ColoursSound
  <2>2. CASE c = vga.fg /\ vga.con[c].mode = "TEXT"
    BY <1>2, <1>5, <2>2 DEF ColoursSound, m
  <2>3. CASE c = vga.fg /\ vga.con[c].mode # "TEXT"
    <3>1. CASE vga.con[c].mode = "GRAPHICS"
      <4>1. CASE vga.blanked
        BY <1>3, <4>1 DEF ColoursSound
      <4>2. CASE ~ vga.blanked
        <5>1. MaySetOrigin(vga)
          BY <4>2 DEF MaySetOrigin, VgaInv, ViewInv, FlagsSound
        <5>2. vga.con[c].origin # BUF
          BY <2>3, <5>1, OriginFacts DEF VgaInv, ViewInv, OriginSound, PlacedAt
        <5>3. vga.fg \in L
          BY <2>3, <3>1, <5>2 DEF Exposed
        <5> QED BY <1>5, <5>3 DEF ColoursSound
      <4> QED BY <4>1, <4>2
    <3>2. CASE vga.con[c].mode # "GRAPHICS"
      BY <2>3, <3>2 DEF VgaInv, ViewInv, Formed, Modes
    <3> QED BY <3>1, <3>2
  <2> QED BY <2>1, <2>2, <2>3
<1>7. CASE Visible(vga, c)
  BY <1>1, <1>5, <1>6, <1>7, ModeKept DEF VgaInv, Visible
<1>8. CASE ~ Visible(vga, c)
  BY <1>1, <1>5, <1>6, <1>8 DEF VgaInv
<1> QED BY <1>7, <1>8

(* A graphics program draws over memory that holds no text, but that of an  *)
(* exposed console.                                                         *)
LEMMA DrawKept ==
  ASSUME NEW L, VgaInv(L, vga), Exposed(vga) \subseteq L, DrawGraphics
  PROVE  VgaInv(L, vga')
<1> DEFINE t == vga'
           z == [r \in DOMAIN vga.vram |-> GFX]
<1>1. t = [vga EXCEPT !.vram = z, !.dac = "picture"]
  BY DEF DrawGraphics
<1>2. DOMAIN z = 0 .. VramRows - 1
  BY DEF VgaInv, ViewInv, Formed
<1> HIDE DEF z
<1>3. /\ DOMAIN t = VgaFields /\ t.fg = vga.fg /\ t.con = vga.con /\ t.text = vga.text
      /\ t.rolled = vga.rolled /\ t.top = vga.top /\ t.vram = z
      /\ t.blanked = vga.blanked /\ t.gfx = vga.gfx /\ t.pal = vga.pal /\ t.vesa = vga.vesa
      /\ t.reg = vga.reg /\ t.saved = vga.saved /\ t.blank_mode = vga.blank_mode
  BY <1>1 DEF VgaInv, ViewInv, Formed, VgaFields
<1> HIDE DEF t
<1>4. /\ Formed(t) /\ FlagsSound(t) /\ PlacedIn(t) /\ OriginSound(L, t)
  BY <1>2, <1>3 DEF VgaInv, ViewInv, Formed, FlagsSound, PlacedIn, OriginSound, PlacedAt,
                    MaySetOrigin
<1>5. vga.con[vga.fg].mode = "GRAPHICS"
  BY DEF DrawGraphics
<1>6. \A d \in Cons \ L : vga.con[d].origin = BUF
  BY <1>5 DEF VgaInv, ViewInv, PlacedIn, Exposed
<1>7. KeptIn(L, t)
  <2> SUFFICES ASSUME NEW d \in Cons \ L, NEW y \in Screen PROVE Row(t, d, y) = t.text[d][y]
    BY DEF KeptIn
  <2>1. Row(vga, d, y) = vga.con[d].buf[y] /\ Row(t, d, y) = t.con[d].buf[y]
    BY <1>3, <1>4, <1>6, RowAt DEF VgaInv, ViewInv
  <2> QED BY <1>3, <2>1 DEF VgaInv, ViewInv, KeptIn
<1>8. ColoursSound(L, t)
  BY <1>3, <1>5 DEF ColoursSound
<1> QED BY <1>4, <1>7, <1>8 DEF VgaInv, ViewInv, t

(* The view of the past, and back.                                          *)
LEMMA ScrollbackKept ==
  ASSUME NEW L, VgaInv(L, vga), NEW lines \in Int \ {0}, Scrollback(lines)
  PROVE  VgaInv(L, vga')
<1>1. PICK v : /\ vga' = ViewAt(vga, vga.fg, v)
               /\ MaySetOrigin(vga) => v \in Origins
  <2>1. CASE MaySetOrigin(vga)
    <3>1. InMemory(vga)
      BY <2>1, VgaAssumption DEF InMemory, VgaInv, ViewInv, OriginSound, PlacedAt, Origins
    <3>2. vga' = ViewAt(vga, vga.fg, ViewRow(vga, vga.fg, lines))
      BY <3>1 DEF Scrollback, vgacon_scroll
    <3>3. ViewRow(vga, vga.fg, lines) \in Origins
      BY <2>1, ViewRowInside DEF VgaInv
    <3> QED BY <3>2, <3>3
  <2>2. CASE ~ MaySetOrigin(vga)
    <3>1. \E v : vga' = ViewAt(vga, vga.fg, v)
      BY DEF Scrollback, vgacon_scroll
    <3> QED BY <2>2, <3>1
  <2> QED BY <2>1, <2>2
<1>2. ViewInv(L, ViewAt(vga, vga.fg, v))
  BY <1>1, ViewKept DEF VgaInv
<1>3. Formed(vga) /\ vga.fg \in Cons
  BY DEF VgaInv, ViewInv, Formed
<1>4. Moving(vga, ViewAt(vga, vga.fg, v), vga.fg)
  BY <1>3, ViewAtFacts
<1>5. ColoursSound(L, ViewAt(vga, vga.fg, v))
  BY <1>3, <1>4, FlagsStay DEF VgaInv
<1> QED BY <1>1, <1>2, <1>5 DEF VgaInv

(* Neither the timer nor a key, nor the level it blanks to.                 *)
LEMMA BlankingKept ==
  ASSUME NEW L, VgaInv(L, vga), Exposed(vga) \subseteq L,
         BlankTimer \/ Poke \/ \E mode \in 0 .. 3 : SETVESABLANK(mode)
  PROVE  VgaInv(L, vga')
<1>1. CASE BlankTimer
  <2>1. vga' = do_blank_screen(vga, FALSE)
    BY <1>1 DEF BlankTimer
  <2> QED BY <2>1, BlankScreen
<1>2. CASE Poke
  BY <1>2, PokeKept DEF Poke
<1>3. CASE \E mode \in 0 .. 3 : SETVESABLANK(mode)
  <2>1. PICK mode \in 0 .. 3 : vga' = [vga EXCEPT !.blank_mode = mode]
    BY <1>3 DEF SETVESABLANK
  <2> DEFINE t == vga'
  <2>2. /\ SameText(vga, t) /\ t.con = vga.con /\ t.dac = vga.dac /\ t.type = vga.type
        /\ t.blanked = vga.blanked /\ t.gfx = vga.gfx /\ t.pal = vga.pal /\ t.vesa = vga.vesa
        /\ t.reg = vga.reg /\ t.saved = vga.saved /\ t.blank_mode = mode
    BY <2>1 DEF SameText, VgaInv, ViewInv, Formed, VgaFields
  <2> HIDE DEF t
  <2>3. FlagsSound(t) /\ MaySetOrigin(t) = MaySetOrigin(vga)
    BY <2>2 DEF VgaInv, ViewInv, FlagsSound, MaySetOrigin
  <2>4. ViewInv(L, t) /\ ColoursSound(L, t)
    BY <2>2, <2>3, TextStays DEF VgaInv, ColoursSound, SameText
  <2> QED BY <2>4 DEF VgaInv, t
<1> QED BY <1>1, <1>2, <1>3

(* Colours are loaded for one console or for all.                           *)
LEMMA ColoursKept ==
  ASSUME NEW L, VgaInv(L, vga), NEW p \in Palettes,
         con_set_cmap(p) \/ \E c \in Cons : EscPalette(c, p)
  PROVE  VgaInv(L, vga')
<1> DEFINE Loaded(c, k) ==
             /\ vga' = set_palette([vga EXCEPT !.con = k], c)
             /\ DOMAIN k = Cons
             /\ \A d \in Cons : k[d] = vga.con[d] \/ k[d] = [vga.con[d] EXCEPT !.palette = p]
             /\ c = vga.fg \/ k[vga.fg] = vga.con[vga.fg]
<1>0. PICK c \in Cons : \E k : Loaded(c, k)
  <2>1. DOMAIN vga = VgaFields /\ DOMAIN vga.con = Cons /\ vga.fg \in Cons
    BY DEF VgaInv, ViewInv, Formed
  <2>2. CASE con_set_cmap(p)
    <3> DEFINE k == [c \in Cons |-> [vga.con[c] EXCEPT !.palette = p]]
    <3>1. vga' = set_palette([vga EXCEPT !.con = k], vga.fg)
      BY <2>2 DEF con_set_cmap
    <3>2. DOMAIN k = Cons /\ \A d \in Cons : k[d] = [vga.con[d] EXCEPT !.palette = p]
      OBVIOUS
    <3> QED BY <2>1, <3>1, <3>2
  <2>3. CASE \E c \in Cons : EscPalette(c, p)
    <3>1. PICK c \in Cons : vga' = set_palette([vga EXCEPT !.con[c].palette = p], c)
      BY <2>3 DEF EscPalette
    <3> DEFINE k == [vga.con EXCEPT ![c] = [vga.con[c] EXCEPT !.palette = p]]
    <3>2. [vga EXCEPT !.con[c].palette = p] = [vga EXCEPT !.con = k]
      OBVIOUS
    <3>3. /\ DOMAIN k = Cons /\ k[c] = [vga.con[c] EXCEPT !.palette = p]
          /\ \A d \in Cons : d # c => k[d] = vga.con[d]
      BY <2>1
    <3> QED BY <2>1, <3>1, <3>2, <3>3
  <2> QED BY <2>2, <2>3
<1>1. PICK k : Loaded(c, k)
  BY <1>0
<1> DEFINE t == [vga EXCEPT !.con = k]
<1>2. /\ SameText(vga, t) /\ t.con = k /\ t.dac = vga.dac /\ t.type = vga.type
      /\ t.blanked = vga.blanked /\ t.gfx = vga.gfx /\ t.pal = vga.pal /\ t.vesa = vga.vesa
      /\ t.reg = vga.reg /\ t.saved = vga.saved /\ t.blank_mode = vga.blank_mode
  <2>1. /\ DOMAIN t = VgaFields /\ t.con = k /\ t.dac = vga.dac /\ t.type = vga.type
        /\ t.fg = vga.fg /\ t.text = vga.text /\ t.vram = vga.vram /\ t.top = vga.top
        /\ t.rolled = vga.rolled
        /\ t.blanked = vga.blanked /\ t.gfx = vga.gfx /\ t.pal = vga.pal /\ t.vesa = vga.vesa
        /\ t.reg = vga.reg /\ t.saved = vga.saved /\ t.blank_mode = vga.blank_mode
    BY DEF VgaInv, ViewInv, Formed, VgaFields
  <2>2. ASSUME NEW d \in Cons
        PROVE  /\ DOMAIN k[d] = ConFields /\ k[d].mode \in Modes
               /\ k[d].origin = vga.con[d].origin /\ k[d].visible = vga.con[d].visible
               /\ k[d].end = vga.con[d].end /\ k[d].buf = vga.con[d].buf
    <3>1. DOMAIN vga.con[d] = ConFields /\ vga.con[d].mode \in Modes
      BY DEF VgaInv, ViewInv, Formed
    <3>2. CASE k[d] = vga.con[d]
      BY <3>1, <3>2
    <3>3. CASE k[d] = [vga.con[d] EXCEPT !.palette = p]
      BY <3>1, <3>3 DEF ConFields
    <3> QED BY <1>1, <3>2, <3>3
  <2> HIDE DEF t
  <2> QED BY <1>1, <2>1, <2>2 DEF SameText
<1> HIDE DEF t
<1>3. FlagsSound(t) /\ MaySetOrigin(t) = MaySetOrigin(vga)
  BY <1>2 DEF VgaInv, ViewInv, FlagsSound, MaySetOrigin
<1>4. ViewInv(L, t) /\ t.fg = vga.fg
  BY <1>2, <1>3, TextStays DEF VgaInv, SameText
<1>5. c = t.fg \/ ColoursSound(L, t)
  BY <1>1, <1>2, <1>4 DEF VgaInv, ColoursSound
<1>6. ViewInv(L, set_palette(t, c)) /\ ColoursSound(L, set_palette(t, c))
  BY <1>4, <1>5, PaletteKept
<1> QED BY <1>1, <1>6 DEF VgaInv, t

-----------------------------------------------------------------------------
(* The text screen at boot is sound.                                        *)
LEMMA VgaInitSound ==
  ASSUME NEW L, VgaInit
  PROVE  VgaInv(L, vga) /\ Exposed(vga) = {}
<1> DEFINE pal == CHOOSE p \in Palettes : TRUE
<1>0. PICK use \in Uses : vga = BootScreen(use, pal)
  BY DEF VgaInit
<1> HIDE DEF pal
<1>1. /\ DOMAIN vga = VgaFields /\ vga.fg = FgCons /\ vga.dac = pal
      /\ vga.blanked = FALSE /\ vga.gfx = FALSE /\ vga.pal = FALSE /\ vga.vesa = 0
      /\ vga.reg = Normal /\ vga.blank_mode = 0 /\ vga.rolled = 0 /\ vga.top = 0
      /\ vga.vram = [r \in 0 .. VramRows - 1 |-> BLANK]
      /\ vga.text = [c \in Cons |-> [y \in Screen |-> BLANK]]
  BY <1>0 DEF BootScreen, VgaFields
<1>2. /\ DOMAIN vga.con = Cons
      /\ \A c \in Cons :
           /\ DOMAIN vga.con[c] = ConFields /\ vga.con[c].mode = "TEXT"
           /\ vga.con[c].palette = pal
           /\ vga.con[c].buf = [y \in Screen |-> BLANK]
           /\ vga.con[c].origin = (IF c = FgCons THEN 0 ELSE BUF)
           /\ vga.con[c].visible = (IF c = FgCons THEN 0 ELSE BUF)
           /\ vga.con[c].end = (IF c = FgCons THEN Rows ELSE BUF + Rows)
  BY <1>0 DEF BootScreen, ConFields
<1>3. Formed(vga)
  BY <1>1, <1>2, FirstConsole, OriginFacts DEF Formed, Modes
<1>4. FlagsSound(vga) /\ ColoursSound(L, vga) /\ MaySetOrigin(vga)
  <2>1. /\ vga.blanked = FALSE /\ vga.gfx = FALSE /\ vga.pal = FALSE /\ vga.vesa = 0
        /\ vga.reg = Normal /\ vga.blank_mode = 0
    BY <1>1
  <2>2. 0 \in 0 .. 3
    OBVIOUS
  <2>3. FlagsSound(vga) /\ MaySetOrigin(vga)
    BY <2>1, <2>2 DEF FlagsSound, MaySetOrigin
  <2>4. vga.dac = vga.con[vga.fg].palette
    BY <1>1, <1>2, FirstConsole
  <2> QED BY <2>3, <2>4 DEF ColoursSound
<1>5. KeptIn(L, vga)
  <2> SUFFICES ASSUME NEW c \in Cons, NEW y \in Screen PROVE Row(vga, c, y) = BLANK
    BY <1>1 DEF KeptIn
  <2>1. 0 + y \in 0 .. VramRows - 1 /\ vga.con[c].origin \in {0, BUF} /\ 0 \in Origins
    BY <1>2, OriginFacts
  <2>2. CASE vga.con[c].origin = BUF
    <3>1. Row(vga, c, y) = vga.con[c].buf[y]
      BY <1>3, <2>2, RowAt
    <3>2. vga.con[c].buf = [z \in Screen |-> BLANK]
      BY <1>2
    <3> QED BY <3>1, <3>2
  <2>3. CASE vga.con[c].origin = 0
    <3>1. Row(vga, c, y) = vga.vram[0 + y]
      BY <1>3, <2>1, <2>3, RowAt
    <3> QED BY <1>1, <2>1, <3>1
  <2> QED BY <2>1, <2>2, <2>3
<1>6. PlacedIn(vga)
  <2>1. 0 + Rows = Rows
    BY VgaAssumption
  <2> QED BY <1>1, <1>2, <2>1 DEF PlacedIn
<1>7. OriginSound(L, vga)
  BY <1>1, <1>2, <1>4, FirstConsole, OriginFacts DEF OriginSound, PlacedAt
<1>8. Exposed(vga) = {}
  BY <1>1, <1>2, <1>4, FirstConsole DEF Exposed
<1> QED BY <1>3, <1>4, <1>5, <1>6, <1>7, <1>8 DEF VgaInv, ViewInv

(* With more consoles exposed, less is claimed.                             *)
LEMMA MoreExposed ==
  ASSUME NEW L, NEW M, L \subseteq M, NEW t, VgaInv(L, t)
  PROVE  VgaInv(M, t)
BY DEF VgaInv, ViewInv, KeptIn, OriginSound, ColoursSound

VgaInvOfState == VgaInv(lost, vga) /\ Exposed(vga) \subseteq lost

(* Every request keeps the state sound.                                     *)
LEMMA VgaNextSound == VgaInvOfState /\ [VgaNext]_vgaVars => VgaInvOfState'
<1> SUFFICES ASSUME VgaInvOfState, VgaNext PROVE VgaInvOfState'
  BY DEF VgaInvOfState, vgaVars
<1> DEFINE L == lost'
<1>1. lost \subseteq L /\ Exposed(vga') \subseteq L /\ Exposed(vga) \subseteq L
  BY DEF VgaNext, VgaInvOfState
<1>2. VgaInv(L, vga)
  BY <1>1, MoreExposed DEF VgaInvOfState
<1> HIDE DEF L
<1>3. CASE \E c \in Cons : complete_change_console(c) \/ KDSETMODE(c)
  BY <1>1, <1>2, <1>3, ChangeKept, SetModeKept DEF VgaInvOfState, L
<1>4. CASE \E c \in Cons : \E y \in Screen : WriteRow(c, y)
  BY <1>1, <1>2, <1>4, WriteRowKept DEF VgaInvOfState, L
<1>5. CASE \E c \in Cons : \E t0 \in 0 .. 1, up \in BOOLEAN, n \in 1 .. Rows - 2 :
             ScrollRegion(c, t0, up, n)
  <2>1. PICK c \in Cons : \E t0 \in 0 .. 1, up \in BOOLEAN, n \in 1 .. Rows - 2 :
               ScrollRegion(c, t0, up, n)
    BY <1>5
  <2>2. PICK t0 \in 0 .. 1, up \in BOOLEAN, n \in 1 .. Rows - 2 : ScrollRegion(c, t0, up, n)
    BY <2>1
  <2>3. n \in Nat \ {0}
    BY VgaAssumption
  <2> QED BY <1>1, <1>2, <2>2, <2>3, ScrollKept DEF VgaInvOfState, L
<1>6. CASE \E p \in Palettes : con_set_cmap(p) \/ \E c \in Cons : EscPalette(c, p)
  BY <1>1, <1>2, <1>6, ColoursKept DEF VgaInvOfState, L
<1>7. CASE \E lines \in {-2, -1, 1} : Scrollback(lines)
  BY <1>1, <1>2, <1>7, ScrollbackKept DEF VgaInvOfState, L
<1>8. CASE DrawGraphics
  BY <1>1, <1>2, <1>8, DrawKept DEF VgaInvOfState, L
<1>9. CASE BlankTimer \/ Poke \/ \E mode \in 0 .. 3 : SETVESABLANK(mode)
  BY <1>1, <1>2, <1>9, BlankingKept DEF VgaInvOfState, L
<1> QED BY <1>3, <1>4, <1>5, <1>6, <1>7, <1>8, <1>9 DEF VgaNext

(* At every moment the place of every text is known: a buffer, or, for the  *)
(* foreground console while the driver may use it, the memory at an origin  *)
(* where a screen fits; and the text found there is the one written, unless *)
(* it was once exposed, that is left in the memory of a graphics program or *)
(* of a blanked screen, as the code does when graphics or a scroll come to  *)
(* a screen that is blanked (vgacon_set_origin, set_origin, do_blank_screen,*)
(* vgacon_scroll_region).                                                   *)
THEOREM VgaSound == VgaSpec => []VgaInvOfState
<1>1. VgaInit => VgaInvOfState
  BY VgaInitSound DEF VgaInvOfState
<1> QED BY <1>1, VgaNextSound, PTL DEF VgaSpec

(* Neither switching nor scrolling in hardware, neither blanking nor        *)
(* graphics lose a row of text or give it to another console, in any order, *)
(* but for the text of consoles that were exposed, which the code does lose *)
(* (vgacon_save_screen, vgacon_switch, vgacon_scroll_region, vgacon_blank). *)
THEOREM TextKeptHolds == VgaSpec => []TextKept
<1>1. VgaInvOfState => TextKept
  BY DEF VgaInvOfState, VgaInv, ViewInv, KeptIn, TextKept
<1> QED BY <1>1, VgaSound, PTL

(* A text console in the foreground that is not blanked is what the monitor *)
(* shows, with its sync signals on; its rows and its colours too, unless    *)
(* its text was exposed before, when a picture may stay (vgacon_blank,      *)
(* vga_vesa_blank, vgacon_set_palette, vgacon_scroll).                      *)
THEOREM MonitorShowsHolds == VgaSpec => []MonitorShows
<1>1. VgaInvOfState => MonitorShows
  <2> SUFFICES ASSUME VgaInv(lost, vga) PROVE MonitorShows
    BY DEF VgaInvOfState
  <2>1. InsideVram
    <3> SUFFICES ASSUME NEW c \in Cons, vga.con[c].origin # BUF
                 PROVE  /\ c = vga.fg /\ vga.con[c].end = vga.con[c].origin + Rows
                        /\ c \notin lost \/ MaySetOrigin(vga) => PlacedAt(vga, c)
      BY DEF InsideVram, PlacedAt, Origins
    <3> QED BY DEF VgaInv, ViewInv, PlacedIn, OriginSound
  <2>2. ASSUME vga.con[vga.fg].mode = "TEXT", ~ vga.blanked
        PROVE  /\ vga.top = vga.con[vga.fg].visible /\ vga.top # BUF /\ vga.reg = Normal
               /\ vga.fg \notin lost =>
                    /\ vga.top = vga.con[vga.fg].origin =>
                         \A y \in Screen : vga.vram[vga.top + y] = vga.text[vga.fg][y]
                    /\ vga.type = "VGAC" => vga.dac = vga.con[vga.fg].palette
    <3>1. MaySetOrigin(vga) /\ vga.reg = Normal
      BY <2>2 DEF MaySetOrigin, VgaInv, ViewInv, FlagsSound
    <3>2. PlacedAt(vga, vga.fg) /\ vga.top = vga.con[vga.fg].visible /\ vga.fg \in Cons
      BY <3>1 DEF VgaInv, ViewInv, OriginSound, Formed
    <3>3. vga.top # BUF
      BY <3>2, OriginFacts DEF PlacedAt
    <3>4. vga.fg \notin lost =>
            \A y \in Screen : vga.vram[vga.con[vga.fg].origin + y] = vga.text[vga.fg][y]
      BY <3>2, RowAt DEF VgaInv, ViewInv, KeptIn, PlacedAt
    <3>5. vga.fg \notin lost /\ vga.type = "VGAC" => vga.dac = vga.con[vga.fg].palette
      BY <2>2 DEF VgaInv, ColoursSound
    <3> QED BY <3>1, <3>2, <3>3, <3>4, <3>5
  <2> QED BY <2>1, <2>2 DEF MonitorShows
<1> QED BY <1>1, VgaSound, PTL
=============================================================================
