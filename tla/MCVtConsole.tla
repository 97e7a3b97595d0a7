---------------------------- MODULE MCVtConsole ----------------------------
(***************************************************************************)
(* Instances of VtConsole for TLC: which consoles are open, and which      *)
(* operations userland and the keyboard issue in each run.                 *)
(***************************************************************************)
EXTENDS VtConsole, TLC

CONSTANTS p1, p2

(* Two X servers, each with a console of its own; or root on any console.   *)
ServerFds == [p \in Proc |-> IF p = p1 THEN {<<0, 1>>} ELSE {<<0, 2>>}]
AllFds == [p \in Proc |-> Slot]

AllSlots == Slot
NoSlots == {}
FirstSlots == {First(t) : t \in VT}
LaterSlots == Slot \ FirstSlots
ThirdSlot == {<<0, 2>>}
FirstTwo == Slot \ ThirdSlot

SwitchingOps == {"VT_SETMODE", "VT_RELDISP", "VT_WAITACTIVE", "KDSETMODE_GRAPHICS",
                 "KDSETMODE_TEXT", "EXIT", "K_CONS"}

PoolOps == {"VT_DISALLOCATE", "VT_ACTIVATE", "VT_SETMODE", "VT_RELDISP", "EXIT", "K_SAK",
            "K_DECR"}

SeatOps == {"VT_ACTIVATE", "K_CONS", "K_INCR", "K_DECR", "K_LASTCONS"}

BlankOps == {"KDSETMODE_GRAPHICS", "KDSETMODE_TEXT", "BLANKSCREEN", "UNBLANKSCREEN",
             "SETTERM", "PRINTK", "K_KEY", "K_SCROLL", "TIMER"}

LiveSwitchOps == {"VT_SETMODE", "VT_RELDISP", "VT_WAITACTIVE", "VT_LOCKSWITCH", "SIGNAL",
                  "EXIT", "K_INCR"}

DeadlockOps == {"KDSETMODE_GRAPHICS", "K_CONS"}

FreeingOps == {"VT_DISALLOCATE", "K_CONS"}

ObjSymm == Permutations(Obj)
====
