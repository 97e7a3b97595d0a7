---------------------------- MODULE MCKeyboard -----------------------------
(***************************************************************************)
(* Instances of the two ends of a console for one run of TLC: Keyboard,    *)
(* what a user types, and Emulator, what a program writes.  They share     *)
(* nothing; a behaviour is one of one of them.                             *)
(***************************************************************************)
EXTENDS Keyboard, Emulator

VARIABLE part    \* the module of this behaviour

(***************************************************************************)
(* Keyboard: two VTs, four keyboards (one with a speaker), a speaker and a *)
(* game pad; each scenario is a set of devices and requests with the key   *)
(* maps that make them interesting.                                        *)
(***************************************************************************)

AllDevices == {"kb1", "kb2", "kb3", "kb4", "speaker", "pad"}
BothHandlers == {"kbd", "evdev"}
AllMatches == {<<d, "kbd">> : d \in AllDevices} \cup {<<"kb1", "evdev">>, <<"kb2", "evdev">>}

FourKeys == {"1", "2", "3", "4"}
AllKeys == FourKeys \cup {"alt", "sysrq"}
BitsOf == [kb1 |-> FourKeys, kb2 |-> {"1", "2"}, kb4 |-> {"1", "3"}, kb3 |-> {"alt", "sysrq", "2", "3", "4"}, speaker |-> {}, pad |-> {}]
EvOf == [kb1 |-> {"EV_KEY", "EV_LED"}, kb2 |-> {"EV_KEY", "EV_LED", "EV_SND", "EV_MSC"},
         kb4 |-> {"EV_KEY"},
         kb3 |-> {"EV_KEY", "EV_REP"}, speaker |-> {"EV_SND"}, pad |-> {"EV_KEY", "EV_ABS", "EV_REL", "EV_FF"}]
FuzzOf == [d \in AllDevices |-> IF d = "pad" THEN 4 ELSE 0]
AxisPositions == -10 .. 10

TwoVts == <<"v1", "v2">>
ThreeConsoles == {"c1", "c2", "c3"}
VtOfConsole == [c1 |-> "v1", c2 |-> "v1", c3 |-> "v2"]
OpenConsoles == {"c1", "c2"}
TwoMods == {"shift", "alt"}
SomeLights == {{}, {"caps"}}
SomeAccents == {<<"^", "a", "acirc">>, <<"^", "^", "circ">>}
OpOfKey == [k \in AllKeys |-> CASE k = "3" -> "unraw" [] k = "4" -> "SAK" [] OTHER -> NULL]

(* The same symbols in all four tables, or another table in one place.      *)
Everywhere(a, b, c, d) ==
  LET t == [k \in AllKeys |-> CASE k = "1" -> a [] k = "2" -> b [] k = "3" -> c [] k = "4" -> d
                                  [] k = "alt" -> Sym("KT_SHIFT", "alt") [] OTHER -> Sym("KT_LATIN", "s")]
  IN [m \in SUBSET TwoMods |-> t]
But(maps, m, t) == [maps EXCEPT ![m] = t]

ShiftKey == Sym("KT_SHIFT", "shift")
AltKey == Sym("KT_SHIFT", "alt")
Letter(x) == Sym("KT_LETTER", x)
Spec_(f) == Sym("KT_SPEC", f)

Scenario(o, maps) == [ops |-> o, loaded |-> <<"kbd">>, maps |-> maps]

Letters == Everywhere(Letter("a"), Letter("b"), Letter("c"), Letter("d"))
ShiftMaps == But(Everywhere(ShiftKey, ShiftKey, AltKey, Letter("a")), {"alt"}, NULLMAP)

Pressing == {"kb1", "c1"} \cup FourKeys

Listed == <<
    \* registration; binding and sound
    [ops |-> {"kb1", "kbd", "evdev", "UNPLUG"}, loaded |-> <<>>, maps |-> Letters],
    [ops |-> {"kb1", "kb2", "kbd", "UNPLUG"}, loaded |-> <<>>, maps |-> Letters],
    Scenario({"kb2", "kb3", "REBIND", "UNPLUG", "RATE"}, Letters),
    Scenario({"kb2", "speaker", "UNPLUG", "SOUND"}, Letters),
    \* modifiers: two keyboards, grabs, unplugging, sticky and raw keys
    Scenario({"kb2", "kb4", "c1", "c2", "1", "3", "SWITCH"}, ShiftMaps),
    [ops |-> {"kb2", "c1", "c2", "1", "2", "SWITCH", "GRAB"}, loaded |-> <<"kbd", "evdev">>,
     maps |-> ShiftMaps],
    Scenario({"kb1", "c1", "1", "UNPLUG", "LEDS"}, ShiftMaps),
    Scenario({"kb1", "c1", "c2", "1", "2", "VC_MEDIUMRAW", "VC_XLATE", "SWITCH"},
             But(Everywhere(Sym("KT_SLOCK", "shift"), Sym("KT_SHIFT", "capsshift"),
                            Letter("a"), Letter("b")), {"shift", "alt"}, NULLMAP)),
    Scenario({"kb1", "c1", "1", "3", "4", "VC_UNICODE", "VC_RAW"},
             But(Everywhere(Sym("KT_SLOCK", "shift"), Sym("KT_SLOCK", "alt"),
                            Sym("KT_LOCK", "alt"), Spec_("SAK")), {"shift", "alt"}, NULLMAP)),
    \* composition, codes, the keypad, functions
    Scenario(Pressing, Everywhere(Sym("KT_DEAD2", "^"), Letter("a"), Spec_("compose"),
                                  Sym("KT_LATIN", " "))),
    Scenario({"kb4", "c1", "1", "3", "VC_UNICODE", "VC_CRLF", "VC_META"},
             Everywhere(AltKey, Letter("a"), Sym("KT_ASCII", <<10, 6>>), Spec_("enter"))),
    Scenario(Pressing \cup {"VC_APPLIC"},
             Everywhere(Sym("KT_PAD", "P8"), Sym("KT_PAD", "PENTER"),
                        Spec_("num"), Sym("KT_PAD", "P5"))),
    Scenario(Pressing \cup {"VC_CKMODE"},
             Everywhere(Spec_("hold"), Spec_("caps_toggle"),
                        Sym("KT_META", "x"), Sym("KT_PAD", "P1"))),
    Scenario({"kb3", "c1", "2", "3", "VC_REPEAT"}, Everywhere(ShiftKey, ShiftKey, Spec_("hold"), ShiftKey)),
    Scenario(Pressing, Everywhere(Spec_("caps_on"), Spec_("bare_num"), Spec_("null"),
                                  Spec_("send_intr"))),
    Scenario(Pressing, Everywhere(Sym("KT_CONS", 2), Sym("KT_FN", 1), Sym("unicode", "e"),
                                  Spec_("lastcons"))),
    \* SysRq, other events
    Scenario({"kb3", "c1", "2", "3", "alt", "sysrq", "VC_RAW"}, Everywhere(ShiftKey, ShiftKey, Letter("r"), Letter("k"))),
    Scenario({"kb3", "c3", "4", "alt", "sysrq", "REBIND"}, Everywhere(ShiftKey, ShiftKey, Letter("r"), Letter("k"))),
    Scenario({"pad", "EVENT"}, Letters),
    Scenario({"kb2", "c1", "EVENT", "VC_RAW", "VC_XLATE"}, Letters) >>
AllScenarios == {[id |-> n, ops |-> Listed[n].ops, loaded |-> Listed[n].loaded, maps |-> Listed[n].maps] :
                 n \in DOMAIN Listed}

(***************************************************************************)
(* Emulator: each alphabet exercises one group of functions through whole  *)
(* sequences, byte by byte.                                                *)
(***************************************************************************)
Csi7 == {"ESC", "["}

SmallAlphabets ==
  { \* rendition: SGR and the reverse screen; the colours of setterm; colours of SGR
    Csi7 \cup {"2", "4", "7", "m", "?", "5", "h", "l"},
    Csi7 \cup {"1", "2", ";", "]", "m"},
    Csi7 \cup {"1", "4", "8", ";", "]", "m"},
    Csi7 \cup {"3", "4", "7", "9", "m"},
    \* character sets, saving and restoring, the fonts of SGR
    {"ESC", "(", ")", "0", "U", "SO", "SI", "7", "8"},
    Csi7 \cup {"1", "0", "2", "m", "SO", "SI", "c", "DEL"},
    Csi7 \cup {"4", "7", "8", "m"},
    \* coding and levels
    {"ESC", "%", "G", "@", "lead1", "lead2", "cont", "c", "SUB", "A", "0xff"},
    Csi7 \cup {"6", "1", "2", ";", "quote", "p", " ", "F", "G", "CSI", "SCI", "x"},
    \* modes, requests, the palette
    Csi7 \cup {"?", "6", "8", "h", "l", "$", "p", "=", ">", "ENQ", "LF"},
    Csi7 \cup {"=", ">", "?", "<", "0", "5", "c", "m", "n", "Z", "b", "K"},
    Csi7 \cup {"!", "p", "#", "]", "P", "R", "1", "f", "g", "CAN"} }

(* Parameters have one digit, or two where a function knows the number.     *)
TwoDigits ==
  CASE "9" \in alphabet -> {34, 37, 39, 44, 47, 49}
    [] {"0", "1", "2"} \subseteq alphabet -> {10, 11, 12}
    [] "6" \in alphabet -> {61, 62, 66}
    [] OTHER -> {}

(* One or two parameters, or empty ones up to the limit.                    *)
BoundedSequence ==
  /\ \A i \in 0 .. 7 : par[i] \in (0 .. 9) \cup TwoDigits \/ "P" \in alphabet
  /\ \/ npar <= 1
     \/ "P" \in alphabet
     \/ "quote" \in alphabet /\ \A i \in 1 .. 7 : par[i] = 0

(***************************************************************************)
(* The run.                                                                *)
(***************************************************************************)
BothInit ==
  /\ part \in {"keyboard", "emulator"}
  /\ Init
  /\ part = "emulator" => sc.id = 1
  /\ alphabet \in IF part = "emulator" THEN Alphabets ELSE {CHOOSE a \in Alphabets : TRUE}
  /\ EmulatorInit

BothNext ==
  \/ part = "keyboard" /\ Next /\ UNCHANGED <<part, emulatorVars>>
  \/ part = "emulator" /\ EmulatorNext /\ UNCHANGED <<part, vars>>

BothSpec == BothInit /\ [][BothNext]_<<part, vars, emulatorVars>>

(* Bounds: the number typed, the keys lost, and a modifier counted twice.    *)
Bounded ==
  IF part = "emulator" THEN BoundedSequence
  ELSE /\ kb.npadch < 100
       /\ Cardinality(lost) <= 1
       /\ \A m \in Mods : kb.shift_down[m] <= 3

(* The effects of the last event are output only: no action reads them.     *)
View ==
  IF part = "emulator" THEN <<emulatorVars>>
  ELSE <<coreVars, vt, private, kb, table, tasklet, lost, oops, sc.id>>
=============================================================================
