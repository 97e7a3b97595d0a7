------------------------------ MODULE MCTables ------------------------------
(***************************************************************************)
(* Instances of the modules about what programs load into a console and    *)
(* its devices, for one run of TLC: Keymap, Unimap and Attach, and of the  *)
(* hardware a console is shown on, Vga.  They share nothing; a behaviour   *)
(* is one of one of them.                                                  *)
(***************************************************************************)
EXTENDS Keymap, Vga

VARIABLES
  part,                                   \* the module of this behaviour
  driver, st, user, failed, misfreed,     \* of Unimap
  stage, mode, opt, s, got, noise, errno, disc            \* of Attach

mapsVars == <<driver, st, user, failed, misfreed>>
attachVars == <<stage, mode, opt, s, got, noise, errno, disc>>

(* Keymap: strings that make the buffer grow twice.                         *)
OneToOne == [x \in Scancodes |-> x]
SomeTexts == {<<>>, <<"x">>, <<"y">>, <<"x", "y">>}

(* Unimap: two consoles that stay and one that comes and goes, memory for   *)
(* as many maps, and characters in two pages.                               *)
U == INSTANCE Unimap WITH
       Cons <- {1, 2, 3}, Kept <- {1, 2}, Dirs <- {1, 2, 3}, NPages <- 2, NOffsets <- 1,
       DefaultPairs <- {<<1, 1>>}, Lists <- {{}, {<<0, 2>>}}, UserTables <- {0, 1},
       Shortages <- {{}, {0}, {-1}}, MaxRefs <- 3, Word <- 2, MaxFailed <- 1,
       MaxMisfreed <- 1

(* Attach: short packets, and as many tries as make a difference.           *)
Plain == [always |-> FALSE, noinit |-> FALSE, baud |-> -1]
A == INSTANCE Attach WITH
       Packet <- 3, Lines <- 2, Tries <- 2, MaxNoise <- 3,
       Options <- {Plain, [Plain EXCEPT !.always = TRUE, !.baud = 4800],
                   [Plain EXCEPT !.noinit = TRUE], [Plain EXCEPT !.baud = 1200]}

(* Vga: eleven rows of memory are two screens of four and a part of one,    *)
(* so that the text rolls over; the uses are the requests that share state. *)
Use(ops, type, interval, off) == [ops |-> ops, type |-> type, interval |-> interval, off |-> off]
SomeUses ==
  {Use({"switch", "scroll"}, "VGAC", TRUE, FALSE),
   Use({"scroll", "view"}, "VGAC", TRUE, FALSE),
   Use({"switch", "mode"}, "VGAC", FALSE, FALSE),
   Use({"mode", "scroll"}, "VGAC", FALSE, FALSE),
   Use({"scroll", "blank"}, "EGAC", TRUE, FALSE),
   Use({"switch", "mode", "colours", "blank"}, "VGAC", TRUE, FALSE)} \cup
  {Use({"mode", "blank", "view"}, type, interval, TRUE) :
     type \in {"VGAC", "EGAC"}, interval \in BOOLEAN} \cup
  {Use({"mode", "blank", "view"}, type, TRUE, FALSE) : type \in {"VGAC", "EGAC"}}

TablesInit ==
  /\ part \in {"keymap", "unimap", "attach", "vga"}
  /\ Init
  /\ part # "keymap" => task = "maps"
  /\ VgaInit
  /\ part # "vga" => vga.use = {"switch", "scroll"}
  /\ IF part = "attach" THEN A!Init
     ELSE /\ stage = NULL /\ mode = NULL /\ opt = NULL /\ s = NULL
          /\ got = NULL /\ noise = NULL /\ errno = NULL /\ disc = NULL
  /\ IF part = "unimap" THEN U!Init
     ELSE driver = NULL /\ st = NULL /\ user = NULL /\ failed = NULL /\ misfreed = NULL

TablesNext ==
  \/ part = "keymap" /\ Next /\ UNCHANGED <<part, mapsVars, attachVars, vgaVars>>
  \/ part = "unimap" /\ U!Next /\ UNCHANGED <<part, vars, attachVars, vgaVars>>
  \/ part = "attach" /\ A!Next /\ UNCHANGED <<part, vars, mapsVars, vgaVars>>
  \/ part = "vga" /\ VgaNext /\ UNCHANGED <<part, vars, mapsVars, attachVars>>

TablesSpec == TablesInit /\ [][TablesNext]_<<part, vars, mapsVars, attachVars, vgaVars>>

(* Nothing reads a unicode map that no pointer leads to; inverse tables are *)
(* computed from the map that is there, or InverseFresh fails; and nothing  *)
(* depends on the user table once the VGA driver is gone.                   *)
Tables(dir) ==
  CASE dir.inv = NULL -> NULL
    [] driver = "own" -> dir.inv[1] = dir.map
    [] OTHER -> <<dir.inv[1] = dir.map, dir.inv[2]>>
ReachedMaps ==
  LET reached == U!Reached IN
  [st EXCEPT !.dir = [d \in DOMAIN st.dir |->
     IF d \in reached THEN [st.dir[d] EXCEPT !.inv = Tables(st.dir[d])] ELSE st.dir[d].free]]
UserTable == IF driver = "own" THEN NULL ELSE user
(* Nothing depends on the rows of a console whose text was exposed, which  *)
(* it stays for ever.                                                      *)
Shown ==
  [vga EXCEPT !.text = [c \in Cons |-> IF c \in lost THEN "lost" ELSE @[c]],
              !.con = [c \in Cons |-> IF c \in lost THEN [@[c] EXCEPT !.buf = "lost"] ELSE @[c]],
              !.vram = IF vga.fg \in lost THEN "lost" ELSE @]
(* Nothing depends on what a device said once its line has a type.          *)
Answers == IF stage \in {"type", "read"} THEN NULL ELSE <<got, noise>>
(* The comparisons have TLC evaluate what is left out, which it could not   *)
(* write to its queue otherwise.                                           *)
View ==
  CASE part = "keymap" -> <<vars>>
    [] part = "unimap" -> <<driver, UserTable, failed, misfreed, ReachedMaps, st = st>>
    [] part = "attach" -> <<stage, mode, opt, s, Answers, errno, disc>>
    [] part = "vga" -> <<lost, Shown, vga = vga>>

(* No unicode map is freed while a console leads to it, but by the inverted *)
(* test of con_set_default_unimap, and the users of the common pointer are  *)
(* counted exactly (con_free_unimap, con_clear_unimap, con_unify_unimap,    *)
(* vgacon_deinit): Unimap!RefsCover and UsersExact.                         *)
MapsCounted == part = "unimap" => U!RefsCover /\ U!UsersExact

(* The tables selection reads are those of the map and of the user's table  *)
(* (set_inverse_transl, update_user_maps): Unimap!InverseFresh.             *)
InverseFresh == part = "unimap" => U!InverseFresh

(* inputattach accepts a device exactly when the device has shown what it   *)
(* is, whatever came late or in between (t213_init, spaceball_init,         *)
(* twiddler_init, main): Attach!VerdictExact.                               *)
VerdictExact == part = "attach" => A!VerdictExact
=============================================================================
