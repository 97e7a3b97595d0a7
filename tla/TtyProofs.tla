------------------------------ MODULE TtyProofs ------------------------------
(***************************************************************************)
(* Theorems about the tty layer: the places of the processes, the          *)
(* discipline that comes back, the counts of open files, the controlling   *)
(* ttys, what a freed tty leaves behind, and the promise of Ldisc.         *)
(***************************************************************************)
EXTENDS Tty, FiniteSetTheorems, TLAPS

-----------------------------------------------------------------------------
(* Types.                                                                   *)

Flag == {"LDISC", "DONT_FLIP", "CLOSING", "EXCLUSIVE", "HUPPED"}

TtyStruct ==
  [live : BOOLEAN, count : Int, flags : SUBSET Flag, disc : Ldisc, refs : Nat,
   session : Nat, pgrp : Proc \cup {NULL}, stopped : BOOLEAN, flip : Nat, inq : Nat,
   writer : Proc \cup {NULL}]

File == [t : Line \cup {NULL}, fops : {"none", "tty", "console", "hung"}]

Locals ==
  [t : Line \cup {NULL}, d : Ldisc, o : Ldisc, closing : BOOLEAN, o_closing : BOOLEAN,
   ref : BOOLEAN, work : BOOLEAN, exit : BOOLEAN, via : Proc \cup {NULL}, left : Nat]

Place == {"user", "open", "close", "count", "flush", "free", "setd", "switch", "swflush",
          "read", "copy", "write", "use", "hangup", "hangup_end", "exit", "dead"}

TypeOK ==
  /\ tty \in [Line -> TtyStruct] /\ file \in [Proc -> File]
  /\ ctty \in [Proc -> Line \cup {NULL}] /\ killed \subseteq Proc
  /\ pc \in [Proc -> Place] /\ loc \in [Proc -> Locals]
  /\ work \subseteq {"flip", "hangup", "SAK"} \X Line /\ timer \subseteq Line
  /\ wk \in [pc : {"idle", "flip", "hangup", "BUG"}, t : Line \cup {NULL}, ld : BOOLEAN]
  /\ wk.pc \in {"flip", "hangup"} => wk.t # NULL
  /\ defined \subseteq Ldisc /\ ldrefs \in [Ldisc \ {N_TTY} -> Int]
  /\ redirect \in Proc \cup {NULL} /\ bkl \in Proc \cup {NULL, Worker} /\ env \in Envs

-----------------------------------------------------------------------------
(* Who owes a tty its discipline.                                           *)

Owed(t) ==
  \/ wk.pc = "hangup" /\ wk.t = t /\ wk.ld
  \/ \E p \in Proc : \/ pc[p] = "swflush" /\ file[p].t = t
                     \/ pc[p] \in {"flush", "free"} /\ loc[p].t = t
                     \/ pc[p] = "hangup_end" /\ loc[p].t = t /\ loc[p].ref

OwedInv == \A t \in Line : tty[t].live /\ "LDISC" \notin tty[t].flags => Owed(t)

-----------------------------------------------------------------------------
(* Where a process is says what it holds.                                   *)

OnFile == {"open", "close", "count", "setd", "switch", "swflush", "read", "copy", "write", "use"}

Holding == {"user", "setd", "switch", "swflush", "read", "copy", "write", "use"}

(* A redirection or a write to it keeps the file of q open.                 *)
Held(q) == redirect = q \/ \E p \in Proc : loc[p].via = q

Spot(p) ==
  /\ pc[p] \in OnFile => file[p].t # NULL
  /\ pc[p] \in {"flush", "free", "exit", "dead"} => file[p].t = NULL
  /\ pc[p] \in {"user", "open", "close", "count", "setd", "switch", "swflush", "dead"} =>
       loc[p].t = NULL
  /\ pc[p] \in {"read", "copy", "use"} => loc[p].t = file[p].t
  /\ pc[p] # "write" => loc[p].via = NULL
  /\ pc[p] = "write" => loc[p].via # NULL /\ file[loc[p].via].t = loc[p].t
  /\ pc[p] \in {"flush", "free", "hangup", "hangup_end", "exit"} => loc[p].t # NULL
  /\ pc[p] \in {"hangup", "hangup_end"} /\ ~loc[p].exit =>
       file[p].t \in Master /\ loc[p].t = Link[file[p].t]
  /\ pc[p] = "exit" => loc[p].exit
  /\ loc[p].exit => pc[p] \in {"hangup", "hangup_end", "exit"} /\ file[p].t = NULL

Placed(p) == Spot(p) /\ (Held(p) => file[p].t # NULL /\ pc[p] \in Holding)

PlacedInv == \A p \in Proc : Placed(p)

-----------------------------------------------------------------------------
(* The type invariant.                                                      *)

(* The operations on a tty keep its type and touch only their own field.    *)
LEMMA LdiscOps ==
  ASSUME NEW r \in TtyStruct
  PROVE  /\ tty_ldisc_try(r) \in TtyStruct
         /\ tty_ldisc_deref(r) \in TtyStruct
         /\ tty_ldisc_enable(r) \in TtyStruct
BY DEF TtyStruct, Flag, tty_ldisc_try, tty_ldisc_deref, tty_ldisc_enable

(* An assignment to a field of a tty keeps its type.                        *)
LEMMA SetField ==
  ASSUME NEW r \in TtyStruct
  PROVE  /\ \A n \in Int : [r EXCEPT !.count = n] \in TtyStruct
         /\ \A f \in SUBSET Flag : [r EXCEPT !.flags = f] \in TtyStruct
         /\ \A d \in Ldisc : [r EXCEPT !.disc = d] \in TtyStruct
         /\ \A s \in Nat, g \in Proc \cup {NULL} :
              [r EXCEPT !.session = s, !.pgrp = g] \in TtyStruct
         /\ \A b \in BOOLEAN : [r EXCEPT !.stopped = b] \in TtyStruct
         /\ \A n \in Nat : [r EXCEPT !.flip = n] \in TtyStruct
         /\ \A n \in Nat : [r EXCEPT !.inq = n] \in TtyStruct
         /\ \A g \in Proc \cup {NULL} : [r EXCEPT !.writer = g] \in TtyStruct
BY DEF TtyStruct

(* A new tty and a freed one have the type.                                 *)
LEMMA NewTty ==
  /\ Free \in TtyStruct /\ initialize_tty_struct \in TtyStruct
  /\ \A n \in Int : tty_ldisc_enable([initialize_tty_struct EXCEPT !.count = n]) \in TtyStruct
<1>1. N_TTY \in Ldisc
  BY TtyAssumption
<1>2. Free \in TtyStruct
  BY <1>1 DEF Free, TtyStruct
<1>3. \A r \in TtyStruct : [r EXCEPT !.live = TRUE] \in TtyStruct
  BY DEF TtyStruct
<1>4. initialize_tty_struct \in TtyStruct
  BY <1>2, <1>3 DEF initialize_tty_struct
<1>5. \A n \in Int : [initialize_tty_struct EXCEPT !.count = n] \in TtyStruct
  BY <1>4, SetField
<1> QED BY <1>2, <1>4, <1>5, LdiscOps

(* An assignment to locals keeps their type.                                *)
LEMMA SetLocal ==
  ASSUME NEW l \in Locals
  PROVE  /\ \A t \in Line \cup {NULL} : [l EXCEPT !.t = t] \in Locals
         /\ \A t \in Line \cup {NULL} : [l EXCEPT !.t = t, !.exit = TRUE] \in Locals
         /\ \A t \in Line \cup {NULL}, q \in Proc \cup {NULL}, n \in Nat :
              [l EXCEPT !.t = t, !.via = q, !.left = n] \in Locals
         /\ \A a, b \in BOOLEAN : [l EXCEPT !.closing = a, !.o_closing = b] \in Locals
         /\ \A d, o \in Ldisc : [l EXCEPT !.d = d, !.o = o] \in Locals
         /\ \A b \in BOOLEAN : [l EXCEPT !.work = b] \in Locals
         /\ \A b \in BOOLEAN : [l EXCEPT !.ref = b] \in Locals
         /\ \A n \in Nat : [l EXCEPT !.left = n] \in Locals
BY DEF Locals

(* Every step keeps the types.                                              *)
LEMMA TypeStep ==
  ASSUME TypeOK, PlacedInv, [Next]_vars
  PROVE  TypeOK'
<1> USE DEF TypeOK, Go, Back
<1>l. NoLoc \in Locals /\ NoFile \in File
  BY TtyAssumption DEF NoLoc, NoFile, Locals, File
<1>p. \A p \in Proc : /\ file[p].t \in Line \cup {NULL} /\ loc[p].t \in Line \cup {NULL}
                      /\ file[p] \in File /\ loc[p] \in Locals
  BY DEF File, Locals
<1>o. \A p \in Proc : pc[p] \in OnFile => file[p].t \in Line
  BY <1>p DEF PlacedInv, Placed, Spot
<1>q. \A p \in Proc : /\ pc[p] \in {"read", "copy", "write", "use", "hangup", "hangup_end", "exit",
                                    "flush", "free"} => loc[p].t \in Line
                      /\ loc[p].exit => loc[p].t \in Line
  <2> SUFFICES ASSUME NEW p \in Proc
      PROVE /\ pc[p] \in {"read", "copy", "write", "use", "hangup", "hangup_end", "exit",
                          "flush", "free"} => loc[p].t \in Line
            /\ loc[p].exit => loc[p].t \in Line
    OBVIOUS
  <2>1. Placed(p)
    BY DEF PlacedInv
  <2>2. pc[p] = "write" => loc[p].via \in Proc /\ Held(loc[p].via) /\ Placed(loc[p].via)
    BY <2>1 DEF Placed, Spot, Held, Locals, PlacedInv
  <2>3. pc[p] = "write" => loc[p].t \in Line
    BY <2>1, <2>2, <1>p DEF Placed, Spot
  <2> QED BY <2>1, <2>3, <1>p DEF Placed, Spot, OnFile
<1>k. Master \subseteq Line /\ \A t \in Line : Link[t] \in Line \cup {NULL}
  BY TtyAssumption
<1>f. \A t \in Line : tty[t] \in TtyStruct
                      /\ \A r \in TtyStruct : [tty EXCEPT ![t] = r] \in [Line -> TtyStruct]
  OBVIOUS
<1>g. \A p \in Proc : \A l \in Locals : [loc EXCEPT ![p] = l] \in [Proc -> Locals]
  OBVIOUS
<1>1. ASSUME NEW p \in Proc, NEW t \in Line, tty_open(p, t) \/ ptmx_open(p, t) PROVE TypeOK'
  <2>1. init_dev(t)
    BY <1>1 DEF tty_open, ptmx_open, OpenFile
  <2>2. fast_track(t) \in [Line -> TtyStruct]
    <3>1. \A x \in Line : tty[x].count + 1 \in Int
      BY DEF TtyStruct
    <3> QED BY <3>1, SetField DEF fast_track
  <2>3. install(t) \in [Line -> TtyStruct]
    <3> SUFFICES ASSUME NEW x \in Line PROVE install(t)[x] \in TtyStruct
      BY DEF install
    <3>1. 1 \in Int /\ 0 \in Int
      OBVIOUS
    <3> QED BY <3>1, NewTty DEF install
  <2>4. tty' \in [Line -> TtyStruct]
    BY <2>1, <2>2, <2>3 DEF init_dev
  <2>5. file' \in [Proc -> File]
    <3>1. \A f \in {"tty", "console"} : [t |-> t, fops |-> f] \in File
      BY DEF File
    <3>2. \E f \in {"tty", "console"} : file' = [file EXCEPT ![p] = [t |-> t, fops |-> f]]
      BY <1>1 DEF tty_open, ptmx_open, OpenFile
    <3> QED BY <3>1, <3>2
  <2> QED BY <1>1, <2>4, <2>5 DEF tty_open, ptmx_open, OpenFile, Place
<1>2. ASSUME NEW p \in Proc, tty_open_end(p) PROVE TypeOK'
  <2>t. file[p].t \in Line
    BY <1>2, <1>o DEF tty_open_end, OnFile
  <2>1. tty' \in [Line -> TtyStruct]
    <3>1. [tty[file[p].t] EXCEPT !.session = Session[p], !.pgrp = p] \in TtyStruct
      BY <2>t, SetField, TtyAssumption
    <3> QED BY <1>2, <2>t, <1>f, <3>1 DEF tty_open_end
  <2>2. loc' \in [Proc -> Locals]
    <3>1. [loc[p] EXCEPT !.t = Link[file[p].t]] \in Locals
      BY <2>t, <1>p, <1>k, SetLocal
    <3> QED BY <1>2, <1>g, <3>1 DEF tty_open_end, driver_close
  <2>3. pc' \in [Proc -> Place]
    BY <1>2 DEF tty_open_end, driver_close, Place
  <2>4. ctty' \in [Proc -> Line \cup {NULL}]
    BY <1>2, <2>t DEF tty_open_end
  <2> QED BY <1>2, <2>1, <2>2, <2>3, <2>4 DEF tty_open_end
<1>3. ASSUME NEW p \in Proc, tty_release(p) PROVE TypeOK'
  <2>t. file[p].t \in Line
    BY <1>3, <1>p DEF tty_release
  <2>2. loc' \in [Proc -> Locals]
    <3>1. [loc[p] EXCEPT !.t = Link[file[p].t]] \in Locals
      BY <2>t, <1>p, <1>k, SetLocal
    <3> QED BY <1>3, <1>g, <3>1 DEF tty_release, driver_close
  <2>3. pc' \in [Proc -> Place]
    BY <1>3 DEF tty_release, driver_close, Place
  <2> QED BY <1>3, <2>2, <2>3 DEF tty_release
<1>4. ASSUME NEW p \in Proc, release_dev_closing(p) PROVE TypeOK'
  <2> DEFINE a == tty[file[p].t].count <= 1
             b == Link[file[p].t] # NULL
                  /\ tty[Link[file[p].t]].count <= IF file[p].t \in Master THEN 1 ELSE 0
  <2>1. [loc[p] EXCEPT !.closing = a, !.o_closing = b] \in Locals
    <3>1. a \in BOOLEAN /\ b \in BOOLEAN
      OBVIOUS
    <3> HIDE DEF a, b
    <3> QED BY <3>1, <1>p, SetLocal
  <2>2. loc' = [loc EXCEPT ![p] = [loc[p] EXCEPT !.closing = a, !.o_closing = b]]
    BY <1>4 DEF release_dev_closing
  <2> HIDE DEF a, b
  <2> QED BY <1>4, <1>g, <2>1, <2>2 DEF release_dev_closing, Place
<1>5. ASSUME NEW p \in Proc, release_dev_count(p) PROVE TypeOK'
  <2> DEFINE t == file[p].t
             last == loc[p].closing /\ (Link[t] = NULL \/ loc[p].o_closing)
             new(x) == (tty[x].flags \cup (IF (x = t /\ loc[p].closing) \/ (x = Link[t] /\ loc[p].o_closing)
                                           THEN {"CLOSING"} ELSE {}))
                       \ (IF last /\ x = t THEN {"LDISC", "DONT_FLIP"} ELSE {})
  <2>1. tty' \in [Line -> TtyStruct]
    <3>1. tty' = [x \in Line |-> [tty[x] EXCEPT !.count = uncount(t, tty[x], x), !.flags = new(x)]]
      BY <1>5 DEF release_dev_count
    <3>2. \A x \in Line : uncount(t, tty[x], x) \in Int /\ new(x) \in SUBSET Flag
      BY DEF uncount, TtyStruct, Flag
    <3> HIDE DEF new
    <3>3. \A r \in TtyStruct, n \in Int, f \in SUBSET Flag :
            [r EXCEPT !.count = n, !.flags = f] \in TtyStruct
      BY DEF TtyStruct
    <3> QED BY <3>1, <3>2, <3>3
  <2>2. loc' \in [Proc -> Locals]
    <3>1. [loc[p] EXCEPT !.t = t] \in Locals
      BY <1>p, SetLocal
    <3> QED BY <1>5, <1>g, <1>l, <3>1 DEF release_dev_count
  <2>3. pc' \in [Proc -> Place]
    BY <1>5 DEF release_dev_count, Place
  <2>4. ctty' \in [Proc -> Line \cup {NULL}]
    BY <1>5 DEF release_dev_count, forget_ctty
  <2> QED BY <1>5, <1>l, <2>1, <2>2, <2>3, <2>4 DEF release_dev_count
<1>6. ASSUME NEW p \in Proc, release_dev_flush(p) PROVE TypeOK'
  BY <1>6 DEF release_dev_flush, Place
<1>7. ASSUME NEW p \in Proc, release_mem(p) PROVE TypeOK'
  <2> DEFINE sides == {loc[p].t} \cup ({Link[loc[p].t]} \ {NULL})
  <2>1. \A d : Cardinality({x \in sides : tty[x].disc = d}) \in Int
    <3> SUFFICES ASSUME NEW d PROVE Cardinality({x \in sides : tty[x].disc = d}) \in Int
      OBVIOUS
    <3>1. IsFiniteSet({loc[p].t})
      BY FS_Singleton
    <3>2. IsFiniteSet({loc[p].t} \cup {Link[loc[p].t]})
      BY <3>1, FS_AddElement
    <3>3. {x \in sides : tty[x].disc = d} \in SUBSET ({loc[p].t} \cup {Link[loc[p].t]})
      OBVIOUS
    <3>4. IsFiniteSet({x \in sides : tty[x].disc = d})
      BY <3>2, <3>3, FS_Subset
    <3> QED BY <3>4, FS_CardinalityType
  <2>2. tty' \in [Line -> TtyStruct]
    BY <1>7, NewTty DEF release_mem
  <2>3. ldrefs' \in [Ldisc \ {N_TTY} -> Int]
    <3> DEFINE used(d) == Cardinality({x \in sides : tty[x].disc = d})
    <3>1. ldrefs' = [d \in DOMAIN ldrefs |-> ldrefs[d] - used(d)]
      BY <1>7 DEF release_mem
    <3>2. \A d : used(d) \in Int
      BY <2>1
    <3> HIDE DEF used
    <3> QED BY <3>1, <3>2
  <2> QED BY <1>7, <1>l, <2>2, <2>3 DEF release_mem, Place
<1>8. ASSUME NEW p \in Proc, NEW d \in Ldisc, tty_set_ldisc(p, d) PROVE TypeOK'
  <2>1. ldrefs' \in [Ldisc \ {N_TTY} -> Int]
    BY <1>8 DEF tty_set_ldisc, tty_ldisc_get
  <2>2. loc' \in [Proc -> Locals]
    <3>1. tty[file[p].t].disc \in Ldisc
      BY <1>8, <1>p DEF tty_set_ldisc, TtyStruct
    <3>2. [loc[p] EXCEPT !.d = d, !.o = tty[file[p].t].disc] \in Locals
      BY <3>1, <1>p, SetLocal
    <3> QED BY <1>8, <1>l, <1>g, <3>2 DEF tty_set_ldisc
  <2>3. bkl' \in Proc \cup {NULL, Worker} /\ pc' \in [Proc -> Place]
    BY <1>8 DEF tty_set_ldisc, Place
  <2> QED BY <1>8, <2>1, <2>2, <2>3 DEF tty_set_ldisc
<1>9. ASSUME NEW p \in Proc, tty_set_ldisc_lock(p) PROVE TypeOK'
  <2>t. file[p].t \in Line
    BY <1>9, <1>o DEF tty_set_ldisc_lock, OnFile
  <2>1. tty' \in [Line -> TtyStruct]
    <3>1. tty[file[p].t].flags \ {"LDISC", "DONT_FLIP"} \in SUBSET Flag
      BY <2>t DEF TtyStruct
    <3>2. [tty[file[p].t] EXCEPT !.flags = tty[file[p].t].flags \ {"LDISC", "DONT_FLIP"}] \in TtyStruct
      BY <2>t, <3>1, SetField
    <3> QED BY <1>9, <2>t, <1>f, <3>2 DEF tty_set_ldisc_lock
  <2>2. loc' \in [Proc -> Locals]
    <3> DEFINE b == file[p].t \in timer
    <3>1. [loc[p] EXCEPT !.work = b] \in Locals
      <4> b \in BOOLEAN
        OBVIOUS
      <4> HIDE DEF b
      <4> QED BY <1>p, SetLocal
    <3>2. loc' = loc \/ loc' = [loc EXCEPT ![p] = [loc[p] EXCEPT !.work = b]]
      BY <1>9 DEF tty_set_ldisc_lock
    <3> QED BY <1>g, <3>1, <3>2
  <2>3. ldrefs' \in [Ldisc \ {N_TTY} -> Int]
    BY <1>9 DEF tty_set_ldisc_lock, tty_ldisc_put
  <2> QED BY <1>9, <2>1, <2>2, <2>3 DEF tty_set_ldisc_lock, Place
<1>10. ASSUME NEW p \in Proc, tty_set_ldisc_signal(p) PROVE TypeOK'
  BY <1>10, <1>l DEF tty_set_ldisc_signal, Place
<1>11. ASSUME NEW p \in Proc, tty_set_ldisc_open(p) PROVE TypeOK'
  <2>t. file[p].t \in Line
    BY <1>11, <1>o DEF tty_set_ldisc_open, OnFile
  <2>1. PICK d \in {loc[p].d} \cup {loc[p].o, N_TTY} :
          /\ tty' = [tty EXCEPT ![file[p].t] =
                       tty_ldisc_enable([tty[file[p].t] EXCEPT !.disc = d])]
          /\ ldrefs' = [x \in DOMAIN ldrefs |-> ldrefs[x]
                          - (IF x = loc[p].d /\ d # loc[p].d THEN 1 ELSE 0)
                          + (IF x = d /\ d # loc[p].d THEN 1 ELSE 0)
                          - (IF x = loc[p].o THEN 1 ELSE 0)]
    BY <1>11 DEF tty_set_ldisc_open
  <2>2. d \in Ldisc
    BY <2>1, <1>p, TtyAssumption DEF Locals
  <2>3. tty' \in [Line -> TtyStruct]
    BY <2>1, <2>2, <2>t, <1>f, SetField, LdiscOps
  <2>4. ldrefs' \in [Ldisc \ {N_TTY} -> Int]
    BY <2>1
  <2>5. timer' \subseteq Line
    BY <1>11, <2>t DEF tty_set_ldisc_open
  <2> QED BY <1>11, <1>l, <2>3, <2>4, <2>5 DEF tty_set_ldisc_open, Place
<1>12. ASSUME NEW p \in Proc, tty_read(p) \/ tty_poll(p) PROVE TypeOK'
  <2>t. file[p].t \in Line
    BY <1>12, <1>p DEF tty_read, tty_poll, tty_ldisc_ref_wait
  <2>1. tty' \in [Line -> TtyStruct]
    BY <1>12, <2>t, <1>f, LdiscOps DEF tty_read, tty_poll, tty_ldisc_ref_wait
  <2>2. loc' \in [Proc -> Locals]
    <3>1. [loc[p] EXCEPT !.t = file[p].t] \in Locals
      BY <2>t, <1>p, SetLocal
    <3> QED BY <1>12, <1>g, <3>1 DEF tty_read, tty_poll
  <2> QED BY <1>12, <2>1, <2>2 DEF tty_read, tty_poll, tty_ldisc_ref_wait, Place
<1>13. ASSUME NEW p \in Proc, n_tty_read(p) PROVE TypeOK'
  <2>t. loc[p].t \in Line
    BY <1>13, <1>q DEF n_tty_read
  <2>1. tty' \in [Line -> TtyStruct]
    <3>1. tty[loc[p].t].flags \cup {"DONT_FLIP"} \in SUBSET Flag
      BY <2>t DEF TtyStruct, Flag
    <3>2. \A r \in TtyStruct, f \in SUBSET Flag : [r EXCEPT !.flags = f, !.inq = 0] \in TtyStruct
      BY DEF TtyStruct
    <3>3. tty' = [tty EXCEPT ![loc[p].t] = [tty[loc[p].t] EXCEPT
                    !.flags = tty[loc[p].t].flags \cup {"DONT_FLIP"}, !.inq = 0]]
      BY <1>13 DEF n_tty_read
    <3> QED BY <2>t, <1>f, <3>1, <3>2, <3>3
  <2> QED BY <1>13, <2>1 DEF n_tty_read, Place
<1>14. ASSUME NEW p \in Proc, tty_read_end(p) PROVE TypeOK'
  <2>t. loc[p].t \in Line
    BY <1>14, <1>q DEF tty_read_end
  <2>1. tty' \in [Line -> TtyStruct]
    <3>1. tty[loc[p].t].flags \ {"DONT_FLIP"} \in SUBSET Flag
      BY <2>t DEF TtyStruct, Flag
    <3>2. [tty[loc[p].t] EXCEPT !.flags = tty[loc[p].t].flags \ {"DONT_FLIP"}] \in TtyStruct
      BY <2>t, <1>f, <3>1, SetField
    <3> QED BY <1>14, <2>t, <1>f, <3>2, LdiscOps DEF tty_read_end
  <2> QED BY <1>14, <2>1, <1>l DEF tty_read_end, Place
<1>15. ASSUME NEW p \in Proc, tty_write(p) PROVE TypeOK'
  <2> DEFINE q == redirected_tty_write(p)
  <2>q. q \in Proc
    BY DEF redirected_tty_write
  <2>t. file[q].t \in Line
    <3>1. redirect # NULL => redirect \in Proc /\ Held(redirect) /\ Placed(redirect)
      BY DEF Held, PlacedInv
    <3> QED BY <1>15, <1>p, <3>1 DEF tty_write, tty_ldisc_ref_wait, Placed, redirected_tty_write
  <2> HIDE DEF q
  <2>1. tty' \in [Line -> TtyStruct]
    BY <1>15, <2>t, <1>f, LdiscOps DEF tty_write, tty_ldisc_ref_wait, q
  <2>2. loc' \in [Proc -> Locals]
    <3>1. [loc[p] EXCEPT !.t = file[q].t, !.via = q, !.left = Chunks] \in Locals
      BY <2>t, <2>q, <1>p, SetLocal, TtyAssumption
    <3> QED BY <1>15, <1>g, <3>1 DEF tty_write, q
  <2> QED BY <1>15, <2>1, <2>2 DEF tty_write, tty_ldisc_ref_wait, Place
<1>16. ASSUME NEW p \in Proc, do_tty_write(p) PROVE TypeOK'
  <2>t. loc[p].t \in Line
    BY <1>16, <1>q DEF do_tty_write
  <2>1. tty' \in [Line -> TtyStruct]
    <3>1. [tty[loc[p].t] EXCEPT !.writer = p] \in TtyStruct
      BY <2>t, <1>f, SetField
    <3> QED BY <1>16, <2>t, <1>f, <3>1 DEF do_tty_write
  <2>2. loc' \in [Proc -> Locals]
    <3>1. loc[p].left - 1 \in Nat
      BY <1>16 DEF do_tty_write, Locals
    <3>2. [loc[p] EXCEPT !.left = loc[p].left - 1] \in Locals
      BY <1>p, <3>1, SetLocal
    <3> QED BY <1>16, <1>g, <3>2 DEF do_tty_write
  <2> QED BY <1>16, <2>1, <2>2 DEF do_tty_write, Place
<1>17. ASSUME NEW p \in Proc, do_tty_write_end(p) PROVE TypeOK'
  <2>t. loc[p].t \in Line
    BY <1>17, <1>q DEF do_tty_write_end
  <2> DEFINE w == IF tty[loc[p].t].writer = p THEN NULL ELSE tty[loc[p].t].writer
  <2>1. tty' \in [Line -> TtyStruct]
    <3>1. w \in Proc \cup {NULL}
      BY <2>t DEF TtyStruct
    <3>2. tty' = [tty EXCEPT ![loc[p].t] = tty_ldisc_deref([tty[loc[p].t] EXCEPT !.writer = w])]
      BY <1>17 DEF do_tty_write_end
    <3> HIDE DEF w
    <3>3. [tty[loc[p].t] EXCEPT !.writer = w] \in TtyStruct
      BY <2>t, <1>f, <3>1, SetField
    <3> QED BY <2>t, <1>f, <3>2, <3>3, LdiscOps
  <2> QED BY <1>17, <2>1, <1>l DEF do_tty_write_end, Place
<1>18. ASSUME NEW p \in Proc, tiocsti(p) PROVE TypeOK'
  <2>t. loc[p].t \in Line
    BY <1>18, <1>q DEF tiocsti
  <2>1. PICK n \in {0, 1} : tty' = [tty EXCEPT ![loc[p].t] = tty_ldisc_deref(
                                      [tty[loc[p].t] EXCEPT !.inq = tty[loc[p].t].inq + n])]
    BY <1>18 DEF tiocsti
  <2>2. tty[loc[p].t].inq + n \in Nat
    BY <2>t DEF TtyStruct
  <2>3. [tty[loc[p].t] EXCEPT !.inq = tty[loc[p].t].inq + n] \in TtyStruct
    BY <2>t, <1>f, <2>2, SetField
  <2>4. tty' \in [Line -> TtyStruct]
    BY <2>t, <1>f, <2>1, <2>3, LdiscOps
  <2> QED BY <1>18, <2>4, <1>l DEF tiocsti, Place
<1>19. ASSUME NEW p \in Proc, tiocsctty(p) PROVE TypeOK'
  <2>t. file[p].t \in Line
    BY <1>19, <1>p DEF tiocsctty, InIoctl
  <2>1. [tty[file[p].t] EXCEPT !.session = Session[p], !.pgrp = p] \in TtyStruct
    BY <2>t, <1>f, SetField, TtyAssumption
  <2>2. tty' \in [Line -> TtyStruct]
    BY <1>19, <2>t, <1>f, <2>1 DEF tiocsctty
  <2> QED BY <1>19, <2>t, <2>2 DEF tiocsctty, stolen
<1>20. ASSUME NEW p \in Proc, NEW g \in Proc, tiocspgrp(p, g) PROVE TypeOK'
  <2>t. real_tty(file[p].t) \in Line
    BY <1>20, <1>p, <1>k, TtyAssumption DEF tiocspgrp, InIoctl, real_tty
  <2>1. \A r \in TtyStruct : [r EXCEPT !.pgrp = g] \in TtyStruct
    BY DEF TtyStruct
  <2>2. tty' \in [Line -> TtyStruct]
    BY <1>20, <2>t, <1>f, <2>1 DEF tiocspgrp
  <2> QED BY <1>20, <2>2 DEF tiocspgrp
<1>d. \A p \in Proc, t \in Line : disown(p, t) => /\ tty' \in [Line -> TtyStruct]
                                                  /\ ctty' \in [Proc -> Line \cup {NULL}]
  <2> SUFFICES ASSUME NEW p \in Proc, NEW t \in Line, disown(p, t)
               PROVE  tty' \in [Line -> TtyStruct] /\ ctty' \in [Proc -> Line \cup {NULL}]
    OBVIOUS
  <2>1. [tty[t] EXCEPT !.session = 0, !.pgrp = NULL] \in TtyStruct
    BY <1>f, SetField
  <2> QED BY <1>f, <2>1 DEF disown
<1>21. ASSUME NEW p \in Proc, tiocnotty(p) PROVE TypeOK'
  <2>t. file[p].t \in Line
    BY <1>21, <1>p DEF tiocnotty, InIoctl
  <2>1. tty' \in [Line -> TtyStruct] /\ ctty' \in [Proc -> Line \cup {NULL}]
    BY <1>21, <2>t, <1>d DEF tiocnotty
  <2> QED BY <1>21, <2>1 DEF tiocnotty
<1>22. ASSUME NEW p \in Proc, tiocexcl(p) PROVE TypeOK'
  <2>t. file[p].t \in Line
    BY <1>22, <1>p DEF tiocexcl, InIoctl
  <2> DEFINE f == IF "EXCLUSIVE" \in tty[file[p].t].flags
                  THEN tty[file[p].t].flags \ {"EXCLUSIVE"}
                  ELSE tty[file[p].t].flags \cup {"EXCLUSIVE"}
  <2>1. f \in SUBSET Flag
    BY <2>t DEF TtyStruct, Flag
  <2>2. tty' = [tty EXCEPT ![file[p].t] = [tty[file[p].t] EXCEPT !.flags = f]]
    BY <1>22 DEF tiocexcl
  <2> HIDE DEF f
  <2>3. tty' \in [Line -> TtyStruct]
    BY <2>1, <2>2, <2>t, <1>f, SetField
  <2> QED BY <1>22, <2>3 DEF tiocexcl
<1>23. ASSUME NEW p \in Proc, tioccons(p) PROVE TypeOK'
  BY <1>23 DEF tioccons
<1>24. ASSUME NEW p \in Proc, disassociate_ctty(p) PROVE TypeOK'
  <2>1. [loc[p] EXCEPT !.t = ctty[p], !.exit = TRUE] \in Locals
    BY <1>p, SetLocal
  <2> QED BY <1>24, <1>g, <2>1 DEF disassociate_ctty, Place
<1>25. ASSUME NEW p \in Proc, disassociate_ctty_end(p) PROVE TypeOK'
  <2>1. tty' \in [Line -> TtyStruct] /\ ctty' \in [Proc -> Line \cup {NULL}]
    BY <1>25, <1>q, <1>d DEF disassociate_ctty_end
  <2> QED BY <1>25, <2>1, <1>l DEF disassociate_ctty_end, Place
<1>h. \A t \in Line : hangup(t) =>
        /\ tty' \in [Line -> TtyStruct] /\ ctty' \in [Proc -> Line \cup {NULL}]
        /\ file' \in [Proc -> File] /\ redirect' \in Proc \cup {NULL}
  <2> SUFFICES ASSUME NEW t \in Line, hangup(t)
               PROVE  /\ tty' \in [Line -> TtyStruct] /\ ctty' \in [Proc -> Line \cup {NULL}]
                      /\ file' \in [Proc -> File] /\ redirect' \in Proc \cup {NULL}
    OBVIOUS
  <2> DEFINE ld == "LDISC" \in tty[t].flags
             r == IF ld THEN tty_ldisc_try(tty[t]) ELSE tty[t]
             n == IF ld THEN 0 ELSE tty[t].inq
  <2>1. r \in TtyStruct /\ n \in Nat
    <3>1. tty[t].inq \in Nat
      BY DEF TtyStruct
    <3> QED BY <3>1, LdiscOps
  <2>2. tty' = [tty EXCEPT ![t] = [r EXCEPT !.inq = n, !.flags = {}, !.session = 0, !.pgrp = NULL]]
    BY DEF hangup
  <2>3. \A s \in TtyStruct, m \in Nat :
          [s EXCEPT !.inq = m, !.flags = {}, !.session = 0, !.pgrp = NULL] \in TtyStruct
    BY DEF TtyStruct
  <2>4. file' \in [Proc -> File]
    BY DEF hangup, File
  <2>5. ctty' \in [Proc -> Line \cup {NULL}] /\ redirect' \in Proc \cup {NULL}
    BY DEF hangup
  <2> HIDE DEF r, n
  <2>6. tty' \in [Line -> TtyStruct]
    BY <2>1, <2>2, <2>3, <1>f
  <2> QED BY <2>4, <2>5, <2>6
<1>e. \A t \in Line, ld \in BOOLEAN : hangup_end(t, ld) => tty' \in [Line -> TtyStruct]
  <2> SUFFICES ASSUME NEW t \in Line, NEW ld \in BOOLEAN, hangup_end(t, ld)
               PROVE  tty' \in [Line -> TtyStruct]
    OBVIOUS
  <2> DEFINE r == [tty[t] EXCEPT !.flags = tty[t].flags \cup {"HUPPED"}]
  <2>1. r \in TtyStruct
    BY <1>f DEF TtyStruct, Flag
  <2>2. tty' = [tty EXCEPT ![t] = IF ld THEN tty_ldisc_deref(tty_ldisc_enable(r)) ELSE r]
    BY DEF hangup_end
  <2> HIDE DEF r
  <2> QED BY <2>1, <2>2, <1>f, LdiscOps
<1>26. ASSUME NEW p \in Proc, tty_vhangup(p) PROVE TypeOK'
  <2>1. /\ tty' \in [Line -> TtyStruct] /\ ctty' \in [Proc -> Line \cup {NULL}]
        /\ file' \in [Proc -> File] /\ redirect' \in Proc \cup {NULL}
    BY <1>26, <1>q, <1>h DEF tty_vhangup
  <2> DEFINE ld == "LDISC" \in tty[loc[p].t].flags
  <2>2. loc' = [loc EXCEPT ![p] = [loc[p] EXCEPT !.ref = ld]] /\ ld \in BOOLEAN
    BY <1>26 DEF tty_vhangup
  <2>3. bkl' \in {p, NULL} /\ pc' \in [Proc -> Place]
    BY <1>26 DEF tty_vhangup, Place
  <2> HIDE DEF ld
  <2>4. loc' \in [Proc -> Locals]
    BY <2>2, <1>p, <1>g, SetLocal
  <2> QED BY <1>26, <2>1, <2>3, <2>4 DEF tty_vhangup
<1>27. ASSUME NEW p \in Proc, tty_vhangup_end(p) PROVE TypeOK'
  <2>0. loc[p].ref \in BOOLEAN
    BY <1>p DEF Locals
  <2>1. tty' \in [Line -> TtyStruct]
    BY <1>27, <1>q, <1>e, <2>0 DEF tty_vhangup_end
  <2>2. [loc[p] EXCEPT !.ref = FALSE] \in Locals
    BY <1>p DEF Locals
  <2>3. loc' \in [Proc -> Locals]
    BY <1>27, <2>2, <1>g, <1>l DEF tty_vhangup_end
  <2>4. bkl' \in {p, NULL} /\ pc' \in [Proc -> Place]
    BY <1>27 DEF tty_vhangup_end, Place
  <2> QED BY <1>27, <2>1, <2>3, <2>4 DEF tty_vhangup_end
<1>28. ASSUME NEW t \in Line, do_tty_hangup(t) PROVE TypeOK'
  <2>1. /\ tty' \in [Line -> TtyStruct] /\ ctty' \in [Proc -> Line \cup {NULL}]
        /\ file' \in [Proc -> File] /\ redirect' \in Proc \cup {NULL}
    BY <1>28, <1>h DEF do_tty_hangup
  <2>2. /\ wk' \in [pc : {"idle", "flip", "hangup", "BUG"}, t : Line \cup {NULL}, ld : BOOLEAN]
        /\ wk'.t = t /\ t # NULL
    BY <1>28, TtyAssumption DEF do_tty_hangup
  <2> QED BY <1>28, <2>1, <2>2 DEF do_tty_hangup
<1>i. Idle \in [pc : {"idle", "flip", "hangup", "BUG"}, t : Line \cup {NULL}, ld : BOOLEAN]
      /\ [Idle EXCEPT !.pc = "BUG"] \in [pc : {"idle", "flip", "hangup", "BUG"}, t : Line \cup {NULL}, ld : BOOLEAN]
      /\ Idle.pc = "idle" /\ [Idle EXCEPT !.pc = "BUG"].pc = "BUG"
  BY DEF Idle
<1>29. ASSUME do_tty_hangup_end PROVE TypeOK'
  <2>1. wk.ld \in BOOLEAN /\ wk.t \in Line
    BY <1>29 DEF do_tty_hangup_end
  <2>2. tty' \in [Line -> TtyStruct]
    BY <1>29, <2>1, <1>e DEF do_tty_hangup_end
  <2> QED BY <1>29, <2>2, <1>i DEF do_tty_hangup_end
<1>30. ASSUME NEW t \in Line, __do_SAK(t) PROVE TypeOK'
  <2>1. [tty[t] EXCEPT !.inq = 0] \in TtyStruct
    BY <1>f, SetField
  <2>2. tty' \in [Line -> TtyStruct]
    BY <1>30, <2>1, <1>f DEF __do_SAK
  <2>3. wk' \in [pc : {"idle", "flip", "hangup", "BUG"}, t : Line \cup {NULL}, ld : BOOLEAN]
    BY <1>30, <1>i DEF __do_SAK
  <2>4. killed' \subseteq Proc /\ work' \subseteq work
    BY <1>30 DEF __do_SAK
  <2> QED BY <1>30, <2>2, <2>3, <2>4 DEF __do_SAK
<1>31. ASSUME NEW t \in Line, flush_to_ldisc(t) PROVE TypeOK'
  <2>1. tty' \in [Line -> TtyStruct]
    BY <1>31, <1>f, LdiscOps DEF flush_to_ldisc
  <2>2. /\ wk' \in [pc : {"idle", "flip", "hangup", "BUG"}, t : Line \cup {NULL}, ld : BOOLEAN]
        /\ wk'.pc \in {"flip", "hangup"} => wk'.t # NULL
    <3>1. wk' = wk \/ wk' = [pc |-> "flip", t |-> t, ld |-> TRUE]
      BY <1>31 DEF flush_to_ldisc
    <3>2. CASE wk' = wk
      BY <3>2
    <3>3. CASE wk' = [pc |-> "flip", t |-> t, ld |-> TRUE]
      BY <3>3, TtyAssumption
    <3> QED BY <3>1, <3>2, <3>3
  <2> QED BY <1>31, <2>1, <2>2 DEF flush_to_ldisc
<1>32. ASSUME flush_to_ldisc_end PROVE TypeOK'
  <2> DEFINE n == tty[wk.t].inq + tty[wk.t].flip
             m == IF n > FlipMax THEN FlipMax ELSE n
  <2>1. wk.t \in Line
    BY <1>32 DEF flush_to_ldisc_end
  <2>2. m \in Nat
    <3>1. n \in Nat
      BY <2>1 DEF TtyStruct
    <3> QED BY <3>1, TtyAssumption
  <2>3. \/ tty' = [tty EXCEPT ![wk.t] = tty_ldisc_deref(tty[wk.t])]
        \/ tty' = [tty EXCEPT ![wk.t] = tty_ldisc_deref([tty[wk.t] EXCEPT !.flip = 0, !.inq = m])]
    BY <1>32 DEF flush_to_ldisc_end
  <2> HIDE DEF m
  <2>4. \A r \in TtyStruct : [r EXCEPT !.flip = 0, !.inq = m] \in TtyStruct
    BY <2>2 DEF TtyStruct
  <2>5. tty' \in [Line -> TtyStruct]
    <3>1. tty_ldisc_deref(tty[wk.t]) \in TtyStruct
      BY <2>1, <1>f, LdiscOps
    <3>2. tty_ldisc_deref([tty[wk.t] EXCEPT !.flip = 0, !.inq = m]) \in TtyStruct
      BY <2>1, <2>4, <1>f, LdiscOps
    <3> QED BY <2>1, <2>3, <3>1, <3>2, <1>f
  <2>6. timer' \subseteq Line
    BY <1>32, <2>1 DEF flush_to_ldisc_end, delay
  <2> QED BY <1>32, <2>5, <2>6, <1>i DEF flush_to_ldisc_end
<1>33. ASSUME NEW t \in Line, Driver(t) PROVE TypeOK'
  <2>1. [tty[t] EXCEPT !.stopped = ~tty[t].stopped] \in TtyStruct
    BY <1>f DEF TtyStruct
  <2>2. [tty[t] EXCEPT !.flip = tty[t].flip + 1] \in TtyStruct
    <3>1. tty[t].flip + 1 \in Nat
      BY DEF TtyStruct
    <3> QED BY <1>f, <3>1, SetField
  <2>3. CASE stop_tty(t)
    BY <2>1, <2>3, <1>f DEF stop_tty
  <2>4. CASE tty_flip_buffer_push(t)
    BY <2>2, <2>4, <1>f DEF tty_flip_buffer_push, delay
  <2>5. CASE delayed_work(t)
    BY <2>5 DEF delayed_work
  <2>6. CASE tty_hangup(t) \/ do_SAK(t)
    BY <2>6 DEF tty_hangup, do_SAK, Queue
  <2> QED BY <1>33, <2>3, <2>4, <2>5, <2>6 DEF Driver
<1>34. ASSUME NEW d \in Ldisc, tty_register_ldisc(d) PROVE TypeOK'
  BY <1>34 DEF tty_register_ldisc
<1>35. CASE UNCHANGED vars
  BY <1>35 DEF vars
<1>36. ASSUME NEW p \in Proc, Syscall(p) PROVE TypeOK'
  BY <1>36, <1>1, <1>2, <1>3, <1>4, <1>5, <1>6, <1>7, <1>8, <1>9, <1>10, <1>11, <1>12, <1>13,
     <1>14, <1>15, <1>16, <1>17, <1>18, <1>19, <1>20, <1>21, <1>22, <1>23, <1>24, <1>25, <1>26,
     <1>27 DEF Syscall
<1>37. CASE keventd
  BY <1>37, <1>28, <1>29, <1>30, <1>31, <1>32 DEF keventd
<1> HIDE DEF TypeOK
<1> QED BY <1>33, <1>34, <1>35, <1>36, <1>37 DEF Next
-----------------------------------------------------------------------------
(* Where the processes are.                                                 *)

(* Which fields of a process's locals an assignment leaves alone.           *)
LEMMA LocalFields ==
  ASSUME NEW l \in Locals
  PROVE  /\ \A t : LET m == [l EXCEPT !.t = t]
                   IN m.t = t /\ m.via = l.via /\ m.exit = l.exit
         /\ \A t : LET m == [l EXCEPT !.t = t, !.exit = TRUE]
                   IN m.t = t /\ m.via = l.via /\ m.exit
         /\ \A t, q, n : LET m == [l EXCEPT !.t = t, !.via = q, !.left = n]
                         IN m.t = t /\ m.via = q /\ m.exit = l.exit
         /\ \A a, b : LET m == [l EXCEPT !.closing = a, !.o_closing = b]
                      IN m.t = l.t /\ m.via = l.via /\ m.exit = l.exit
         /\ \A d, o : LET m == [l EXCEPT !.d = d, !.o = o]
                      IN m.t = l.t /\ m.via = l.via /\ m.exit = l.exit
         /\ \A b : LET m == [l EXCEPT !.work = b]
                   IN m.t = l.t /\ m.via = l.via /\ m.exit = l.exit
         /\ \A b : LET m == [l EXCEPT !.ref = b]
                   IN m.t = l.t /\ m.via = l.via /\ m.exit = l.exit
         /\ \A n : LET m == [l EXCEPT !.left = n]
                   IN m.t = l.t /\ m.via = l.via /\ m.exit = l.exit
BY DEF Locals

(* A process that moves while every file stays where it is, and that takes  *)
(* no new hold, has only its own place to answer for.                       *)
LEMMA Moves ==
  ASSUME TypeOK, PlacedInv, NEW p \in Proc,
         \A q \in Proc : q # p => pc'[q] = pc[q] /\ loc'[q] = loc[q],
         \A q \in Proc : file'[q].t = file[q].t,
         redirect' \in {redirect, NULL}, loc'[p].via \in {loc[p].via, NULL},
         Spot(p)', Held(p) => pc'[p] \in Holding
  PROVE  PlacedInv'
<1> SUFFICES ASSUME NEW q \in Proc PROVE Placed(q)'
  BY DEF PlacedInv
<1>0. Placed(q) /\ NULL \notin Proc
  BY TtyAssumption DEF PlacedInv
<1>1. Held(q)' => Held(q)
  BY <1>0 DEF Held
<1>2. Spot(q)'
  <2>1. CASE q = p
    BY <2>1
  <2>2. CASE q # p
    <3>1. loc[q].via \in Proc \cup {NULL}
      BY DEF TypeOK, Locals
    <3> QED BY <2>2, <1>0, <3>1 DEF Placed, Spot
  <2> QED BY <2>1, <2>2
<1> QED BY <1>0, <1>1, <1>2 DEF Placed

(* The same when nobody moves.                                              *)
LEMMA NobodyMoves ==
  ASSUME TypeOK, PlacedInv, UNCHANGED <<pc, loc>>,
         \A q \in Proc : file'[q].t = file[q].t, redirect' \in {redirect, NULL}
  PROVE  PlacedInv'
<1> SUFFICES ASSUME NEW q \in Proc PROVE Placed(q)'
  BY DEF PlacedInv
<1>0. Placed(q) /\ NULL \notin Proc
  BY TtyAssumption DEF PlacedInv
<1>1. loc[q].via \in Proc \cup {NULL}
  BY DEF TypeOK, Locals
<1>2. Held(q)' => Held(q)
  BY <1>0 DEF Held
<1>3. Spot(q)'
  BY <1>0, <1>1 DEF Placed, Spot
<1> QED BY <1>0, <1>2, <1>3 DEF Placed

(* Each step leaves every process with the file and the locals its place    *)
(* says.                                                                    *)
LEMMA PlacedStep ==
  ASSUME TypeOK, PlacedInv, [Next]_vars
  PROVE  PlacedInv'
<1> USE DEF Go, Back
<1>l. NoLoc.t = NULL /\ NoLoc.via = NULL /\ NoLoc.exit = FALSE /\ NoFile.t = NULL
  BY DEF NoLoc, NoFile
<1>n. NULL \notin Proc /\ NULL \notin Line /\ Master \subseteq Line
      /\ \A t \in Master : Link[t] \in Line
  BY TtyAssumption
<1>p. \A p \in Proc : /\ Placed(p) /\ Spot(p) /\ loc[p] \in Locals /\ p # NULL
                      /\ file[p].t \in Line \cup {NULL} /\ ctty[p] \in Line \cup {NULL}
                      /\ loc[p].t \in Line \cup {NULL} /\ loc[p].via \in Proc \cup {NULL}
  BY <1>n DEF PlacedInv, Placed, TypeOK, File, Locals
<1>t. pc \in [Proc -> Place] /\ loc \in [Proc -> Locals] /\ file \in [Proc -> File]
  BY DEF TypeOK
<1>1. ASSUME NEW p \in Proc, NEW t \in Line, tty_open(p, t) \/ ptmx_open(p, t) PROVE PlacedInv'
  <2>1. /\ pc[p] = "user" /\ file[p].t = NULL /\ pc' = [pc EXCEPT ![p] = "open"]
        /\ \E f : file' = [file EXCEPT ![p] = [t |-> t, fops |-> f]]
        /\ UNCHANGED <<loc, redirect>>
    BY <1>1 DEF tty_open, ptmx_open, OpenFile
  <2>2. file'[p].t = t /\ \A q \in Proc : q # p => file'[q] = file[q]
    BY <2>1, <1>t
  <2>3. ~Held(p)
    BY <2>1, <1>p DEF Placed
  <2> SUFFICES ASSUME NEW q \in Proc PROVE Placed(q)'
    BY DEF PlacedInv
  <2>4. Held(q)' <=> Held(q)
    BY <2>1 DEF Held
  <2>5. loc[q].via # p
    BY <2>3 DEF Held
  <2>6. Spot(q)'
    <3>1. CASE q = p
      BY <3>1, <1>t, <2>1, <2>2, <2>5, <1>p, <1>n DEF Spot, OnFile
    <3>2. CASE q # p
      <4>1. pc'[q] = pc[q] /\ loc'[q] = loc[q] /\ file'[q] = file[q]
            /\ (loc[q].via # NULL => file'[loc[q].via] = file[loc[q].via])
        BY <3>2, <1>t, <2>1, <2>2, <2>5, <1>p
      <4> QED BY <4>1, <1>p DEF Spot
    <3> QED BY <3>1, <3>2
  <2> QED BY <2>1, <2>2, <2>3, <2>4, <2>6, <1>p, <1>t DEF Placed
<1>d. ASSUME NEW p \in Proc, driver_close(p), pc[p] \in {"open", "user"}, file[p].t # NULL,
             ~Held(p), UNCHANGED <<file, redirect>>
      PROVE  PlacedInv'
  <2>1. ~loc[p].exit /\ loc[p].t = NULL /\ loc[p].via = NULL
    BY <1>d, <1>p DEF Spot
  <2>2. CASE file[p].t \in Master
    <3>1. pc' = [pc EXCEPT ![p] = "hangup"] /\ loc' = [loc EXCEPT ![p].t = Link[file[p].t]]
      BY <1>d, <2>2 DEF driver_close
    <3>2. /\ pc'[p] = "hangup" /\ loc'[p].t = Link[file[p].t] /\ loc'[p].t \in Line
          /\ loc'[p].via = NULL /\ ~loc'[p].exit
      BY <3>1, <2>1, <2>2, <1>n, <1>p, <1>t, LocalFields
    <3>3. Spot(p)'
      BY <3>2, <2>2, <1>d, <1>n DEF Spot, OnFile
    <3> QED BY <3>1, <3>2, <3>3, <1>d, <1>t, Moves
  <2>3. CASE file[p].t \notin Master
    <3>1. pc' = [pc EXCEPT ![p] = "close"] /\ loc' = loc
      BY <1>d, <2>3 DEF driver_close
    <3>3. Spot(p)'
      BY <3>1, <2>1, <1>d, <1>t DEF Spot, OnFile
    <3> QED BY <3>1, <3>3, <1>d, <1>t, Moves
  <2> QED BY <2>2, <2>3
<1>2. ASSUME NEW p \in Proc, tty_open_end(p) PROVE PlacedInv'
  <2>1. pc[p] = "open" /\ ~Held(p) /\ file[p].t # NULL /\ UNCHANGED <<file, redirect>>
    BY <1>2, <1>p DEF tty_open_end, Placed, Spot, Holding, OnFile
  <2>2. CASE driver_close(p)
    BY <2>1, <2>2, <1>d
  <2>3. CASE pc' = [pc EXCEPT ![p] = "user"] /\ UNCHANGED loc
    <3>1. Spot(p)'
      BY <2>1, <2>3, <1>p, <1>t DEF Spot, OnFile
    <3> QED BY <2>1, <2>3, <3>1, <1>t, Moves
  <2> QED BY <1>2, <2>2, <2>3 DEF tty_open_end
<1>3. ASSUME NEW p \in Proc, tty_release(p) PROVE PlacedInv'
  <2>1. ~Held(p)
    BY <1>3 DEF tty_release, Held
  <2> QED BY <1>3, <2>1, <1>d DEF tty_release
<1>4. ASSUME NEW p \in Proc, release_dev_closing(p) PROVE PlacedInv'
  <2> DEFINE a == tty[file[p].t].count <= 1
             b == Link[file[p].t] # NULL
                  /\ tty[Link[file[p].t]].count <= IF file[p].t \in Master THEN 1 ELSE 0
  <2>1. /\ loc' = [loc EXCEPT ![p] = [loc[p] EXCEPT !.closing = a, !.o_closing = b]]
        /\ pc[p] = "close" /\ pc' = [pc EXCEPT ![p] = "count"] /\ UNCHANGED <<file, redirect>>
    BY <1>4 DEF release_dev_closing
  <2> HIDE DEF a, b
  <2>2. loc'[p].t = loc[p].t /\ loc'[p].via = loc[p].via /\ loc'[p].exit = loc[p].exit
    BY <2>1, <1>p, <1>t, LocalFields
  <2>3. Spot(p)'
    BY <2>1, <2>2, <1>p, <1>t DEF Spot, OnFile
  <2>4. ~Held(p)
    BY <2>1, <1>p DEF Placed, Holding
  <2> QED BY <2>1, <2>2, <2>3, <2>4, <1>t, Moves
<1>5. ASSUME NEW p \in Proc, release_dev_count(p) PROVE PlacedInv'
  <2>1. /\ pc[p] = "count" /\ file' = [file EXCEPT ![p] = NoFile] /\ UNCHANGED redirect
        /\ \/ /\ pc' = [pc EXCEPT ![p] = "flush"]
              /\ loc' = [loc EXCEPT ![p] = [loc[p] EXCEPT !.t = file[p].t]]
           \/ pc' = [pc EXCEPT ![p] = "user"] /\ loc' = [loc EXCEPT ![p] = NoLoc]
    BY <1>5 DEF release_dev_count
  <2>2. ~Held(p) /\ file[p].t # NULL /\ ~loc[p].exit /\ loc[p].via = NULL
    BY <2>1, <1>p DEF Placed, Spot, Holding, OnFile
  <2>3. file'[p].t = NULL /\ \A q \in Proc : q # p => file'[q] = file[q]
    BY <2>1, <1>t, <1>l
  <2>4. \/ pc'[p] = "flush" /\ loc'[p].t = file[p].t /\ ~loc'[p].exit /\ loc'[p].via = NULL
        \/ pc'[p] = "user" /\ loc'[p] = NoLoc
    <3> DEFINE m == [loc[p] EXCEPT !.t = file[p].t]
    <3>1. m.t = file[p].t /\ m.via = loc[p].via /\ m.exit = loc[p].exit
      BY <1>p, LocalFields
    <3>2. \/ pc'[p] = "flush" /\ loc'[p] = m
          \/ pc'[p] = "user" /\ loc'[p] = NoLoc
      BY <2>1, <1>t
    <3> HIDE DEF m
    <3> QED BY <2>2, <3>1, <3>2
  <2>5. \A q \in Proc : q # p => pc'[q] = pc[q] /\ loc'[q] = loc[q]
    BY <2>1, <1>t
  <2> SUFFICES ASSUME NEW q \in Proc PROVE Placed(q)'
    BY DEF PlacedInv
  <2>6. Held(q)' => Held(q)
    <3>1. redirect' = redirect /\ \A r \in Proc : loc'[r].via \in {loc[r].via, NULL}
      BY <2>1, <2>4, <2>5, <1>l
    <3> QED BY <3>1, <1>n DEF Held
  <2>7. loc[q].via # p
    BY <2>2 DEF Held
  <2>8. Spot(q)'
    <3>1. CASE q = p
      BY <3>1, <2>2, <2>3, <2>4, <1>l DEF Spot, OnFile
    <3>2. CASE q # p
      <4>1. pc'[q] = pc[q] /\ loc'[q] = loc[q] /\ file'[q] = file[q]
            /\ (loc[q].via # NULL => file'[loc[q].via] = file[loc[q].via])
        BY <3>2, <2>3, <2>5, <2>7, <1>p
      <4> QED BY <4>1, <1>p DEF Spot
    <3> QED BY <3>1, <3>2
  <2>9. q # p => pc'[q] = pc[q] /\ file'[q] = file[q]
    BY <2>3, <2>5
  <2> QED BY <2>2, <2>6, <2>8, <2>9, <1>p DEF Placed
<1>6. ASSUME NEW p \in Proc, release_dev_flush(p) PROVE PlacedInv'
  <2>1. pc[p] = "flush" /\ pc' = [pc EXCEPT ![p] = "free"] /\ UNCHANGED <<loc, file, redirect>>
    BY <1>6 DEF release_dev_flush
  <2>2. Spot(p)' /\ ~Held(p)
    BY <2>1, <1>p, <1>t DEF Placed, Spot, OnFile, Holding
  <2> QED BY <2>1, <2>2, <1>t, Moves
(* A call that returns to the user.                                         *)
<1>b. ASSUME NEW p \in Proc, Back(p), UNCHANGED <<file, redirect>>,
             pc[p] \notin {"dead", "hangup", "hangup_end", "exit"}
      PROVE  PlacedInv'
  <2>1. pc'[p] = "user" /\ loc'[p] = NoLoc
    BY <1>b, <1>t
  <2>2. Spot(p)'
    BY <2>1, <1>l, <1>b DEF Spot, OnFile
  <2> QED BY <1>b, <2>1, <2>2, <1>l, <1>t, Moves DEF Holding
<1>7. ASSUME NEW p \in Proc, release_mem(p) PROVE PlacedInv'
  BY <1>7, <1>b DEF release_mem
<1>10. ASSUME NEW p \in Proc, tty_set_ldisc_signal(p) \/ tty_set_ldisc_open(p) \/ tty_read_end(p)
                              \/ do_tty_write_end(p) \/ tiocsti(p)
       PROVE PlacedInv'
  BY <1>10, <1>b DEF tty_set_ldisc_signal, tty_set_ldisc_open, tty_read_end, do_tty_write_end, tiocsti
<1>8. ASSUME NEW p \in Proc, NEW d \in Ldisc, tty_set_ldisc(p, d) PROVE PlacedInv'
  <2>1. CASE Back(p)
    BY <1>8, <2>1, <1>b DEF tty_set_ldisc
  <2>2. CASE ~Back(p)
    <3>1. /\ pc[p] \in {"user", "setd"} /\ file[p].t # NULL /\ pc' = [pc EXCEPT ![p] = "switch"]
          /\ loc' = [loc EXCEPT ![p] = [loc[p] EXCEPT !.d = d, !.o = tty[file[p].t].disc]]
          /\ UNCHANGED <<file, redirect>>
      BY <1>8, <2>2 DEF tty_set_ldisc
    <3>2. loc'[p].t = loc[p].t /\ loc'[p].via = loc[p].via /\ loc'[p].exit = loc[p].exit
      BY <3>1, <1>p, <1>t, LocalFields
    <3>3. Spot(p)'
      BY <3>1, <3>2, <1>p, <1>t DEF Spot, OnFile
    <3> QED BY <3>1, <3>2, <3>3, <1>t, Moves DEF Holding
  <2> QED BY <2>1, <2>2
<1>9. ASSUME NEW p \in Proc, tty_set_ldisc_lock(p) PROVE PlacedInv'
  <2> DEFINE b == file[p].t \in timer
  <2>1. /\ pc[p] = "switch" /\ UNCHANGED <<file, redirect>>
        /\ \/ pc' = [pc EXCEPT ![p] = "setd"] /\ loc' = loc
           \/ /\ pc' = [pc EXCEPT ![p] = "swflush"]
              /\ loc' = [loc EXCEPT ![p] = [loc[p] EXCEPT !.work = b]]
    BY <1>9 DEF tty_set_ldisc_lock
  <2> HIDE DEF b
  <2>2. /\ loc'[p].t = loc[p].t /\ loc'[p].via = loc[p].via /\ loc'[p].exit = loc[p].exit
        /\ pc'[p] \in {"setd", "swflush"}
    <3> DEFINE m == [loc[p] EXCEPT !.work = b]
    <3>1. m.t = loc[p].t /\ m.via = loc[p].via /\ m.exit = loc[p].exit
      BY <1>p, LocalFields
    <3>2. loc'[p] \in {loc[p], m} /\ pc'[p] \in {"setd", "swflush"}
      BY <2>1, <1>t
    <3> HIDE DEF m
    <3> QED BY <3>1, <3>2
  <2>3. Spot(p)'
    BY <2>1, <2>2, <1>p DEF Spot, OnFile
  <2> QED BY <2>1, <2>2, <2>3, <1>t, Moves DEF Holding
<1>12. ASSUME NEW p \in Proc, tty_read(p) \/ tty_poll(p) PROVE PlacedInv'
  <2>1. /\ pc[p] = "user" /\ file[p].t # NULL /\ UNCHANGED <<file, redirect>>
        /\ \E to \in {"read", "use"} : pc' = [pc EXCEPT ![p] = to]
        /\ loc' = [loc EXCEPT ![p] = [loc[p] EXCEPT !.t = file[p].t]]
    BY <1>12 DEF tty_read, tty_poll, tty_ldisc_ref_wait
  <2>2. /\ loc'[p].t = file[p].t /\ loc'[p].via = loc[p].via /\ loc'[p].exit = loc[p].exit
        /\ pc'[p] \in {"read", "use"}
    BY <2>1, <1>p, <1>t, LocalFields
  <2>3. Spot(p)'
    BY <2>1, <2>2, <1>p DEF Spot, OnFile
  <2> QED BY <2>1, <2>2, <2>3, <1>t, Moves DEF Holding
<1>13. ASSUME NEW p \in Proc, n_tty_read(p) PROVE PlacedInv'
  <2>1. pc[p] = "read" /\ pc' = [pc EXCEPT ![p] = "copy"] /\ UNCHANGED <<loc, file, redirect>>
    BY <1>13 DEF n_tty_read
  <2>2. Spot(p)'
    BY <2>1, <1>p, <1>t DEF Spot, OnFile
  <2> QED BY <2>1, <2>2, <1>t, Moves DEF Holding
<1>15. ASSUME NEW p \in Proc, tty_write(p) PROVE PlacedInv'
  <2> DEFINE h == redirected_tty_write(p)
  <2>1. /\ pc[p] = "user" /\ file[p].t # NULL /\ UNCHANGED <<file, redirect>>
        /\ pc' = [pc EXCEPT ![p] = "write"]
        /\ loc' = [loc EXCEPT ![p] = [loc[p] EXCEPT !.t = file[h].t, !.via = h, !.left = Chunks]]
        /\ h = p \/ (h = redirect /\ redirect # NULL)
    BY <1>15 DEF tty_write, tty_ldisc_ref_wait, redirected_tty_write
  <2> HIDE DEF h
  <2>2. h \in Proc /\ file[h].t # NULL /\ pc[h] \in Holding
    <3>1. redirect \in Proc \cup {NULL}
      BY DEF TypeOK
    <3>2. redirect # NULL => Held(redirect)
      BY DEF Held
    <3> QED BY <2>1, <3>1, <3>2, <1>p DEF Placed, Holding
  <2>3. /\ loc'[p].t = file[h].t /\ loc'[p].via = h /\ loc'[p].exit = loc[p].exit
        /\ pc'[p] = "write"
    BY <2>1, <1>p, <1>t, LocalFields
  <2>4. \A q \in Proc : q # p => loc'[q] = loc[q] /\ pc'[q] = pc[q]
    BY <2>1, <1>t
  <2> SUFFICES ASSUME NEW q \in Proc PROVE Placed(q)'
    BY DEF PlacedInv
  <2>5. Held(q)' => Held(q) \/ q = h
    BY <2>1, <2>3, <2>4 DEF Held
  <2>6. Spot(q)'
    <3>1. CASE q = p
      BY <3>1, <2>1, <2>2, <2>3, <1>p, <1>n DEF Spot, OnFile
    <3>2. CASE q # p
      <4>1. pc'[q] = pc[q] /\ loc'[q] = loc[q] /\ file' = file
        BY <3>2, <2>1, <2>4
      <4> QED BY <4>1, <1>p DEF Spot
    <3> QED BY <3>1, <3>2
  <2>7. pc'[q] = pc[q] \/ pc'[q] = "write"
    BY <2>3, <2>4
  <2>8. Held(q) \/ q = h => file[q].t # NULL /\ pc[q] \in Holding
    BY <2>2, <1>p DEF Placed
  <2> QED BY <2>1, <2>5, <2>6, <2>7, <2>8 DEF Placed, Holding
<1>16. ASSUME NEW p \in Proc, do_tty_write(p) PROVE PlacedInv'
  <2>1. /\ pc[p] = "write" /\ UNCHANGED <<pc, file, redirect>>
        /\ loc' = [loc EXCEPT ![p] = [loc[p] EXCEPT !.left = loc[p].left - 1]]
    BY <1>16 DEF do_tty_write
  <2>2. loc'[p].t = loc[p].t /\ loc'[p].via = loc[p].via /\ loc'[p].exit = loc[p].exit
    BY <2>1, <1>p, <1>t, LocalFields
  <2>3. Spot(p)'
    BY <2>1, <2>2, <1>p DEF Spot, OnFile
  <2> QED BY <2>1, <2>2, <2>3, <1>t, Moves DEF Holding
<1>23. ASSUME NEW p \in Proc, tioccons(p) PROVE PlacedInv'
  <2>1. /\ pc[p] = "user" /\ file[p].t # NULL /\ UNCHANGED <<pc, loc, file>>
        /\ redirect' \in {NULL, p}
    BY <1>23 DEF tioccons, InIoctl
  <2> SUFFICES ASSUME NEW q \in Proc PROVE Placed(q)'
    BY DEF PlacedInv
  <2>2. Held(q)' => Held(q) \/ q = p
    BY <2>1, <1>n DEF Held
  <2>3. Spot(q)'
    BY <2>1, <1>p DEF Spot
  <2> QED BY <2>1, <2>2, <2>3, <1>p DEF Placed, Holding
<1>24. ASSUME NEW p \in Proc, disassociate_ctty(p) PROVE PlacedInv'
  <2>1. /\ pc[p] = "user" /\ file[p].t = NULL /\ ctty[p] # NULL /\ UNCHANGED <<file, redirect>>
        /\ \E to \in {"hangup", "exit"} : pc' = [pc EXCEPT ![p] = to]
        /\ loc' = [loc EXCEPT ![p] = [loc[p] EXCEPT !.t = ctty[p], !.exit = TRUE]]
    BY <1>24 DEF disassociate_ctty
  <2>2. /\ loc'[p].t = ctty[p] /\ loc'[p].via = loc[p].via /\ loc'[p].exit
        /\ pc'[p] \in {"hangup", "exit"}
    BY <2>1, <1>p, <1>t, LocalFields
  <2>3. Spot(p)' /\ ~Held(p)
    BY <2>1, <2>2, <1>p DEF Placed, Spot, OnFile
  <2> QED BY <2>1, <2>2, <2>3, <1>t, Moves
<1>25. ASSUME NEW p \in Proc, disassociate_ctty_end(p) PROVE PlacedInv'
  <2>1. /\ pc[p] = "exit" /\ pc' = [pc EXCEPT ![p] = "dead"] /\ UNCHANGED <<file, redirect>>
        /\ loc' = [loc EXCEPT ![p] = NoLoc]
    BY <1>25 DEF disassociate_ctty_end
  <2>2. loc'[p] = NoLoc /\ pc'[p] = "dead"
    BY <2>1, <1>t
  <2>3. Spot(p)' /\ ~Held(p)
    BY <2>1, <2>2, <1>p, <1>l DEF Placed, Spot, OnFile, Holding
  <2> QED BY <2>1, <2>2, <2>3, <1>l, <1>t, Moves
(* A hangup moves no file.                                                  *)
<1>h. ASSUME NEW t \in Line, hangup(t)
      PROVE  redirect' \in {redirect, NULL} /\ \A q \in Proc : file'[q].t = file[q].t
  BY <1>h DEF hangup
<1>26. ASSUME NEW p \in Proc, tty_vhangup(p) PROVE PlacedInv'
  <2> DEFINE ld == "LDISC" \in tty[loc[p].t].flags
  <2>1. /\ pc[p] = "hangup" /\ pc' = [pc EXCEPT ![p] = "hangup_end"] /\ hangup(loc[p].t)
        /\ loc' = [loc EXCEPT ![p] = [loc[p] EXCEPT !.ref = ld]]
    BY <1>26 DEF tty_vhangup
  <2> HIDE DEF ld
  <2>2. loc[p].t \in Line
    BY <2>1, <1>p DEF Spot
  <2>3. redirect' \in {redirect, NULL} /\ \A q \in Proc : file'[q].t = file[q].t
    BY <2>1, <2>2, <1>h
  <2>4. /\ loc'[p].t = loc[p].t /\ loc'[p].via = loc[p].via /\ loc'[p].exit = loc[p].exit
        /\ pc'[p] = "hangup_end"
    BY <2>1, <1>p, <1>t, LocalFields
  <2>5. Spot(p)' /\ ~Held(p)
    BY <2>1, <2>3, <2>4, <1>p DEF Placed, Spot, OnFile, Holding
  <2> QED BY <2>1, <2>3, <2>4, <2>5, <1>t, Moves
<1>27. ASSUME NEW p \in Proc, tty_vhangup_end(p) PROVE PlacedInv'
  <2>1. /\ pc[p] = "hangup_end" /\ UNCHANGED <<file, redirect>>
        /\ \/ /\ loc[p].exit /\ pc' = [pc EXCEPT ![p] = "exit"]
              /\ loc' = [loc EXCEPT ![p] = [loc[p] EXCEPT !.ref = FALSE]]
           \/ /\ ~loc[p].exit /\ pc' = [pc EXCEPT ![p] = "close"]
              /\ loc' = [loc EXCEPT ![p] = NoLoc]
    BY <1>27 DEF tty_vhangup_end
  <2>2. ~Held(p)
    BY <2>1, <1>p DEF Placed, Holding
  <2>3. CASE loc[p].exit
    <3> DEFINE m == [loc[p] EXCEPT !.ref = FALSE]
    <3>1. m.t = loc[p].t /\ m.via = loc[p].via /\ m.exit = loc[p].exit
      BY <1>p DEF Locals
    <3>2. loc'[p] = m /\ pc'[p] = "exit"
      BY <2>1, <2>3, <1>t
    <3> HIDE DEF m
    <3>3. Spot(p)'
      BY <3>1, <3>2, <2>1, <2>3, <1>p DEF Spot, OnFile
    <3> QED BY <2>1, <2>2, <3>1, <3>2, <3>3, <1>t, Moves
  <2>4. CASE ~loc[p].exit
    <3>1. loc'[p] = NoLoc /\ pc'[p] = "close"
      BY <2>1, <2>4, <1>t
    <3>2. Spot(p)'
      BY <3>1, <2>1, <2>4, <1>p, <1>n, <1>l DEF Spot, OnFile
    <3> QED BY <2>1, <2>2, <3>1, <3>2, <1>l, <1>t, Moves
  <2> QED BY <2>3, <2>4
<1>28. ASSUME NEW t \in Line, do_tty_hangup(t) PROVE PlacedInv'
  <2>1. redirect' \in {redirect, NULL} /\ \A q \in Proc : file'[q].t = file[q].t
    BY <1>28, <1>h DEF do_tty_hangup
  <2> QED BY <1>28, <2>1, NobodyMoves DEF do_tty_hangup
<1>29. CASE UNCHANGED <<pc, loc, file, redirect>>
  BY <1>29, NobodyMoves
<1>30. ASSUME NEW p \in Proc, tiocsctty(p) \/ (\E g \in Proc : tiocspgrp(p, g)) \/ tiocnotty(p)
                              \/ tiocexcl(p)
       PROVE  PlacedInv'
  BY <1>29, <1>30 DEF tiocsctty, tiocspgrp, tiocnotty, tiocexcl
<1>31. CASE \E t \in Line : Driver(t) \/ flush_to_ldisc(t) \/ __do_SAK(t)
  BY <1>29, <1>31 DEF Driver, stop_tty, tty_flip_buffer_push, delayed_work, tty_hangup, do_SAK, Queue,
     flush_to_ldisc, __do_SAK
<1>32. CASE flush_to_ldisc_end \/ do_tty_hangup_end \/ (\E d \in Ldisc : tty_register_ldisc(d))
            \/ UNCHANGED vars
  BY <1>29, <1>32 DEF flush_to_ldisc_end, do_tty_hangup_end, tty_register_ldisc, vars
<1>33. ASSUME NEW p \in Proc, Syscall(p) PROVE PlacedInv'
  BY <1>33, <1>1, <1>2, <1>3, <1>4, <1>5, <1>6, <1>7, <1>8, <1>9, <1>10, <1>12, <1>13,
     <1>15, <1>16, <1>23, <1>24, <1>25, <1>26, <1>27, <1>30 DEF Syscall
<1> HIDE DEF Go, Back
<1> QED BY <1>28, <1>31, <1>32, <1>33 DEF Next, keventd

(* The initial state: every process in user mode.                           *)
LEMMA TypeInit == Init => TypeOK /\ PlacedInv
<1> SUFFICES ASSUME Init PROVE TypeOK /\ PlacedInv
  OBVIOUS
<1>1. NULL \notin Proc /\ NULL \notin Line /\ N_TTY \in Ldisc /\ env \in Envs
      /\ env.opened \in [Proc -> Line \cup {NULL}] /\ IsFiniteSet(Proc)
  BY TtyAssumption DEF Init
<1>2. NoLoc \in Locals /\ NoLoc.t = NULL /\ NoLoc.via = NULL /\ NoLoc.exit = FALSE
  BY <1>1 DEF NoLoc, Locals
<1>3. NoFile \in File /\ NoFile.t = NULL /\ \A t \in Line : [t |-> t, fops |-> "tty"] \in File
  BY DEF NoFile, File
<1>4. file \in [Proc -> File]
  BY <1>1, <1>3 DEF Init
<1>5. tty \in [Line -> TtyStruct]
  <2> DEFINE n(t) == Cardinality({p \in Proc : env.opened[p] = t})
             o(t) == Cardinality({p \in Proc : Link[t] # NULL /\ env.opened[p] = Link[t]})
             c(t) == IF IsSlave(t) /\ o(t) > 0 THEN n(t) + 1 ELSE n(t)
  <2>1. tty = [t \in Line |-> IF n(t) + o(t) = 0 THEN Free
                 ELSE tty_ldisc_enable([initialize_tty_struct EXCEPT !.count = c(t)])]
    BY DEF Init
  <2>2. \A t \in Line : n(t) \in Int
    <3> TAKE t \in Line
    <3>1. {p \in Proc : env.opened[p] = t} \in SUBSET Proc
      OBVIOUS
    <3> QED BY <3>1, <1>1, FS_Subset, FS_CardinalityType
  <2> HIDE DEF n, o
  <2>3. \A t \in Line : c(t) \in Int
    BY <2>2
  <2> HIDE DEF c
  <2> QED BY <2>1, <2>3, NewTty
<1>6. TypeOK
  <2>1. /\ ctty = [p \in Proc |-> NULL] /\ killed = {} /\ pc = [p \in Proc |-> "user"]
        /\ loc = [p \in Proc |-> NoLoc] /\ work = {} /\ timer = {} /\ wk = Idle
        /\ defined = Ldisc /\ ldrefs = [d \in Ldisc \ {N_TTY} |-> 0] /\ redirect = NULL
        /\ bkl = NULL
    BY DEF Init
  <2>2. /\ wk \in [pc : {"idle", "flip", "hangup", "BUG"}, t : Line \cup {NULL}, ld : BOOLEAN]
        /\ wk.pc \notin {"flip", "hangup"}
    BY <2>1 DEF Idle
  <2> QED BY <1>1, <1>2, <1>4, <1>5, <2>1, <2>2 DEF TypeOK, Place
<1>7. PlacedInv
  <2> SUFFICES ASSUME NEW q \in Proc PROVE Placed(q)
    BY DEF PlacedInv
  <2>1. pc[q] = "user" /\ loc[q] = NoLoc /\ redirect = NULL /\ \A p \in Proc : loc[p] = NoLoc
    BY DEF Init
  <2>2. ~Held(q)
    BY <2>1, <1>1, <1>2 DEF Held
  <2> QED BY <2>1, <2>2, <1>2 DEF Placed, Spot, OnFile
<1> QED BY <1>6, <1>7

(* Every reachable state has the types, and every process the file and the  *)
(* locals of the place it is at: nothing in tty_io.c dereferences a tty it  *)
(* has not looked up.                                                       *)
THEOREM CallsHoldTheirFile == Spec => [](TypeOK /\ PlacedInv)
<1>1. TypeOK /\ PlacedInv /\ [Next]_vars => (TypeOK /\ PlacedInv)'
  BY TypeStep, PlacedStep
<1> QED BY <1>1, TypeInit, PTL DEF Spec

-----------------------------------------------------------------------------
(* What a step does to the fields of a tty.                                 *)

Alike(r, s) ==
  /\ s.live = r.live /\ s.count = r.count /\ s.session = r.session /\ s.pgrp = r.pgrp
  /\ s.disc = r.disc
  /\ "LDISC" \in s.flags <=> "LDISC" \in r.flags
  /\ "CLOSING" \in s.flags <=> "CLOSING" \in r.flags

(* A step that counts no file, changes no session and no discipline, and    *)
(* neither bars a tty nor lets anyone in.                                   *)
Calm == \A x \in Line : Alike(tty[x], tty'[x])

(* The operations of the calm steps on one tty.                             *)
LEMMA AlikeOps ==
  ASSUME NEW r \in TtyStruct
  PROVE  /\ Alike(r, r) /\ Alike(r, tty_ldisc_try(r)) /\ Alike(r, tty_ldisc_deref(r))
         /\ \A b \in BOOLEAN : Alike(r, [r EXCEPT !.stopped = b])
         /\ \A n \in Nat : Alike(r, [r EXCEPT !.flip = n])
         /\ \A n \in Nat : Alike(r, [r EXCEPT !.inq = n])
         /\ \A m, n \in Nat : Alike(r, [r EXCEPT !.flip = m, !.inq = n])
         /\ \A g \in Proc \cup {NULL} : Alike(r, [r EXCEPT !.writer = g])
         /\ Alike(r, [r EXCEPT !.flags = r.flags \ {"DONT_FLIP"}])
         /\ Alike(r, [r EXCEPT !.flags = r.flags \ {"EXCLUSIVE"}])
         /\ Alike(r, [r EXCEPT !.flags = r.flags \cup {"EXCLUSIVE"}])
         /\ Alike(r, [r EXCEPT !.flags = r.flags \cup {"DONT_FLIP"}, !.inq = 0])
BY DEF Alike, TtyStruct, tty_ldisc_try, tty_ldisc_deref

(* The same with a reference given back in the same step.                   *)
LEMMA AlikeDeref ==
  ASSUME NEW r \in TtyStruct, NEW s \in TtyStruct, Alike(r, s)
  PROVE  Alike(r, tty_ldisc_deref(s))
BY AlikeOps DEF Alike

(* An update of one tty that leaves it alike is calm.                       *)
LEMMA CalmUpdate ==
  ASSUME TypeOK, NEW t \in Line, NEW r, Alike(tty[t], r), tty' = [tty EXCEPT ![t] = r]
  PROVE  Calm
BY AlikeOps DEF Calm, TypeOK

CalmCall(p) ==
  \/ tty_release(p) \/ release_dev_closing(p) \/ release_dev_flush(p)
  \/ (\E d \in Ldisc : tty_set_ldisc(p, d)) \/ tty_set_ldisc_signal(p)
  \/ tty_read(p) \/ n_tty_read(p) \/ tty_read_end(p)
  \/ tty_write(p) \/ do_tty_write(p) \/ do_tty_write_end(p)
  \/ tty_poll(p) \/ tiocsti(p) \/ tiocexcl(p) \/ tioccons(p) \/ disassociate_ctty(p)

(* What the line a process works on is.                                     *)
LEMMA OnLine ==
  ASSUME TypeOK, PlacedInv, NEW p \in Proc
  PROVE  /\ pc[p] \in OnFile => file[p].t \in Line
         /\ file[p].t # NULL => file[p].t \in Line
         /\ pc[p] \in {"read", "copy", "write", "use", "hangup", "hangup_end", "exit", "flush",
                       "free"} => loc[p].t \in Line
         /\ pc[p] = "write" => loc[p].via \in Proc
<1>p. \A q \in Proc : /\ file[q].t \in Line \cup {NULL} /\ loc[q].t \in Line \cup {NULL}
                      /\ loc[q].via \in Proc \cup {NULL} /\ Placed(q)
  BY DEF TypeOK, File, Locals, PlacedInv
<1>1. pc[p] = "write" => loc[p].via \in Proc /\ Held(loc[p].via)
  BY <1>p DEF Placed, Spot, Held
<1>2. pc[p] = "write" => loc[p].t \in Line
  BY <1>1, <1>p DEF Placed, Spot
<1> QED BY <1>1, <1>2, <1>p DEF Placed, Spot, OnFile

(* The calls that are calm.                                                 *)
LEMMA CalmCalls ==
  ASSUME TypeOK, PlacedInv, NEW p \in Proc, CalmCall(p)
  PROVE  Calm
<1>t. tty \in [Line -> TtyStruct] /\ \A x \in Line : tty[x] \in TtyStruct
  BY DEF TypeOK
<1>0. CASE UNCHANGED tty
  BY <1>0, <1>t, AlikeOps DEF Calm
<1>1. CASE tty_release(p) \/ release_dev_closing(p) \/ release_dev_flush(p)
           \/ (\E d \in Ldisc : tty_set_ldisc(p, d)) \/ tty_set_ldisc_signal(p)
           \/ tioccons(p) \/ disassociate_ctty(p)
  BY <1>0, <1>1 DEF tty_release, release_dev_closing, release_dev_flush, tty_set_ldisc,
     tty_set_ldisc_signal, tioccons, disassociate_ctty
<1>2. CASE tty_read(p) \/ tty_poll(p)
  <2>1. file[p].t \in Line /\ tty' = [tty EXCEPT ![file[p].t] = tty_ldisc_try(tty[file[p].t])]
    BY <1>2, OnLine DEF tty_read, tty_poll, tty_ldisc_ref_wait
  <2> QED BY <2>1, <1>t, AlikeOps, CalmUpdate
<1>3. CASE tty_write(p)
  <2> DEFINE h == redirected_tty_write(p)
  <2>1. /\ file[p].t # NULL /\ tty' = [tty EXCEPT ![file[h].t] = tty_ldisc_try(tty[file[h].t])]
        /\ h = p \/ (h = redirect /\ redirect # NULL)
    BY <1>3 DEF tty_write, tty_ldisc_ref_wait, redirected_tty_write
  <2> HIDE DEF h
  <2>2. h \in Proc /\ file[h].t # NULL
    <3>1. redirect # NULL => redirect \in Proc /\ Held(redirect) /\ Placed(redirect)
      BY DEF Held, TypeOK, PlacedInv
    <3> QED BY <2>1, <3>1 DEF Placed
  <2>3. file[h].t \in Line
    BY <2>2, OnLine
  <2> QED BY <2>1, <2>3, <1>t, AlikeOps, CalmUpdate
<1>4. CASE n_tty_read(p)
  <2> DEFINE r == tty[loc[p].t]
  <2>1. loc[p].t \in Line
        /\ tty' = [tty EXCEPT ![loc[p].t] = [r EXCEPT !.flags = r.flags \cup {"DONT_FLIP"}, !.inq = 0]]
    BY <1>4, OnLine DEF n_tty_read
  <2> QED BY <2>1, <1>t, AlikeOps, CalmUpdate
<1>5. CASE tty_read_end(p)
  <2> DEFINE r == tty[loc[p].t]
             s == [r EXCEPT !.flags = r.flags \ {"DONT_FLIP"}]
  <2>1. loc[p].t \in Line
        /\ \/ tty' = [tty EXCEPT ![loc[p].t] = tty_ldisc_deref(s)]
           \/ tty' = [tty EXCEPT ![loc[p].t] = tty_ldisc_deref(r)]
    BY <1>5, OnLine DEF tty_read_end
  <2>2. s \in TtyStruct /\ Alike(r, s)
    BY <2>1, <1>t, AlikeOps DEF TtyStruct
  <2> HIDE DEF s
  <2>3. Alike(r, tty_ldisc_deref(s)) /\ Alike(r, tty_ldisc_deref(r))
    BY <2>1, <2>2, <1>t, AlikeOps, AlikeDeref
  <2> QED BY <2>1, <2>3, CalmUpdate
<1>6. CASE do_tty_write(p)
  <2>1. loc[p].t \in Line /\ tty' = [tty EXCEPT ![loc[p].t] = [tty[loc[p].t] EXCEPT !.writer = p]]
    BY <1>6, OnLine DEF do_tty_write
  <2> QED BY <2>1, <1>t, AlikeOps, CalmUpdate
<1>7. CASE do_tty_write_end(p)
  <2> DEFINE r == tty[loc[p].t]
             w == IF r.writer = p THEN NULL ELSE r.writer
             s == [r EXCEPT !.writer = w]
  <2>1. loc[p].t \in Line /\ tty' = [tty EXCEPT ![loc[p].t] = tty_ldisc_deref(s)]
    BY <1>7, OnLine DEF do_tty_write_end
  <2>2. w \in Proc \cup {NULL}
    BY <2>1, <1>t DEF TtyStruct
  <2> HIDE DEF w
  <2>3. s \in TtyStruct /\ Alike(r, s)
    BY <2>1, <2>2, <1>t, AlikeOps, SetField
  <2> HIDE DEF s
  <2>4. Alike(r, tty_ldisc_deref(s))
    BY <2>1, <2>3, <1>t, AlikeDeref
  <2> QED BY <2>1, <2>4, CalmUpdate
<1>8. CASE tiocsti(p)
  <2>1. loc[p].t \in Line
    BY <1>8, OnLine DEF tiocsti
  <2>2. PICK n \in {0, 1} : tty' = [tty EXCEPT ![loc[p].t] = tty_ldisc_deref(
                                      [tty[loc[p].t] EXCEPT !.inq = tty[loc[p].t].inq + n])]
    BY <1>8 DEF tiocsti
  <2>3. tty[loc[p].t].inq + n \in Nat
    BY <2>1, <1>t DEF TtyStruct
  <2> DEFINE s == [tty[loc[p].t] EXCEPT !.inq = tty[loc[p].t].inq + n]
  <2>4. s \in TtyStruct /\ Alike(tty[loc[p].t], s)
    BY <2>1, <2>3, <1>t, AlikeOps, SetField
  <2>5. tty' = [tty EXCEPT ![loc[p].t] = tty_ldisc_deref(s)]
    BY <2>2
  <2> HIDE DEF s
  <2>6. Alike(tty[loc[p].t], tty_ldisc_deref(s))
    BY <2>1, <2>4, <1>t, AlikeDeref
  <2> QED BY <2>1, <2>5, <2>6, CalmUpdate
<1>9. CASE tiocexcl(p)
  <2> DEFINE r == tty[file[p].t]
  <2>1. file[p].t \in Line
        /\ \/ tty' = [tty EXCEPT ![file[p].t] = [r EXCEPT !.flags = r.flags \ {"EXCLUSIVE"}]]
           \/ tty' = [tty EXCEPT ![file[p].t] = [r EXCEPT !.flags = r.flags \cup {"EXCLUSIVE"}]]
    BY <1>9, OnLine DEF tiocexcl, InIoctl
  <2>2. /\ Alike(r, [r EXCEPT !.flags = r.flags \ {"EXCLUSIVE"}])
        /\ Alike(r, [r EXCEPT !.flags = r.flags \cup {"EXCLUSIVE"}])
    BY <2>1, <1>t, AlikeOps
  <2> QED BY <2>1, <2>2, CalmUpdate
<1> QED BY <1>1, <1>2, <1>3, <1>4, <1>5, <1>6, <1>7, <1>8, <1>9 DEF CalmCall

(* The driver and the work queue are calm but for a hangup.                 *)
LEMMA CalmDriver ==
  ASSUME TypeOK, \/ \E t \in Line : Driver(t) \/ flush_to_ldisc(t) \/ __do_SAK(t)
                 \/ flush_to_ldisc_end \/ (\E d \in Ldisc : tty_register_ldisc(d))
                 \/ UNCHANGED vars
  PROVE  Calm
<1>t. tty \in [Line -> TtyStruct] /\ \A x \in Line : tty[x] \in TtyStruct
  BY DEF TypeOK
<1>0. CASE UNCHANGED tty
  BY <1>0, <1>t, AlikeOps DEF Calm
<1>1. ASSUME NEW t \in Line, Driver(t) PROVE Calm
  <2>1. tty[t].stopped \in BOOLEAN /\ tty[t].flip + 1 \in Nat
    BY DEF TypeOK, TtyStruct
  <2>2. \/ UNCHANGED tty \/ tty' = [tty EXCEPT ![t] = [tty[t] EXCEPT !.stopped = ~tty[t].stopped]]
        \/ tty' = [tty EXCEPT ![t] = [tty[t] EXCEPT !.flip = tty[t].flip + 1]]
    BY <1>1 DEF Driver, stop_tty, tty_flip_buffer_push, delayed_work, tty_hangup, do_SAK, Queue
  <2>3. Alike(tty[t], [tty[t] EXCEPT !.stopped = ~tty[t].stopped])
    BY <1>t DEF TtyStruct, Alike
  <2>4. Alike(tty[t], [tty[t] EXCEPT !.flip = tty[t].flip + 1])
    BY <2>1, <1>t, AlikeOps
  <2> QED BY <2>2, <2>3, <2>4, <1>0, CalmUpdate
<1>2. ASSUME NEW t \in Line, flush_to_ldisc(t) \/ __do_SAK(t) PROVE Calm
  <2>1. \/ UNCHANGED tty \/ tty' = [tty EXCEPT ![t] = tty_ldisc_try(tty[t])]
        \/ tty' = [tty EXCEPT ![t] = [tty[t] EXCEPT !.inq = 0]]
    BY <1>2 DEF flush_to_ldisc, __do_SAK
  <2>2. Alike(tty[t], tty_ldisc_try(tty[t])) /\ Alike(tty[t], [tty[t] EXCEPT !.inq = 0])
    BY <1>t, AlikeOps
  <2> QED BY <2>1, <2>2, <1>0, CalmUpdate
<1>3. CASE flush_to_ldisc_end
  <2> DEFINE n == tty[wk.t].inq + tty[wk.t].flip
             m == IF n > FlipMax THEN FlipMax ELSE n
             s == [tty[wk.t] EXCEPT !.flip = 0, !.inq = m]
  <2>1. wk.t \in Line
    BY <1>3 DEF flush_to_ldisc_end, TypeOK
  <2>2. m \in Nat
    <3>1. n \in Nat
      BY <2>1, <1>t DEF TtyStruct
    <3> QED BY <3>1, TtyAssumption
  <2>3. \/ tty' = [tty EXCEPT ![wk.t] = tty_ldisc_deref(tty[wk.t])]
        \/ tty' = [tty EXCEPT ![wk.t] = tty_ldisc_deref(s)]
    BY <1>3 DEF flush_to_ldisc_end
  <2> HIDE DEF m
  <2>4. s \in TtyStruct /\ Alike(tty[wk.t], s)
    BY <2>1, <2>2, <1>t, AlikeOps DEF TtyStruct
  <2> HIDE DEF s
  <2>5. Alike(tty[wk.t], tty_ldisc_deref(s)) /\ Alike(tty[wk.t], tty_ldisc_deref(tty[wk.t]))
    BY <2>1, <2>4, <1>t, AlikeOps, AlikeDeref
  <2> QED BY <2>1, <2>3, <2>5, CalmUpdate
<1>4. CASE (\E d \in Ldisc : tty_register_ldisc(d)) \/ UNCHANGED vars
  BY <1>4, <1>0 DEF tty_register_ldisc, vars
<1> QED BY <1>1, <1>2, <1>3, <1>4

(* A tty, or the other side of it.                                          *)
Side(x, t) == x = t \/ x = Link[t]

(* Opening: a tty that lives is counted once more, with the slave of a      *)
(* master; another one comes to life with its other side.                   *)
LEMMA OpenEffect ==
  ASSUME TypeOK, NEW t \in Line, init_dev(t), NEW x \in Line
  PROVE  /\ ~Side(x, t) => tty'[x] = tty[x]
         /\ tty[t].live =>
              /\ tty'[x].count = tty[x].count
                   + (IF x = t \/ (t \in Master /\ x = Link[t]) THEN 1 ELSE 0)
              /\ Alike([tty'[x] EXCEPT !.count = 0], [tty[x] EXCEPT !.count = 0])
              /\ tty'[x].flags = tty[x].flags /\ tty'[x].refs = tty[x].refs
         /\ ~tty[t].live /\ Side(x, t) =>
              /\ tty'[x].live /\ tty'[x].session = 0 /\ tty'[x].pgrp = NULL /\ tty'[x].disc = N_TTY
              /\ tty'[x].flags = {"LDISC"} /\ tty'[x].refs = 0
              /\ tty'[x].count = IF x = t \/ t \in Master THEN 1 ELSE 0
<1>t. tty[x] \in TtyStruct
  BY DEF TypeOK
<1>1. \A r \in TtyStruct : \A n \in Int : LET s == [r EXCEPT !.count = n] IN
        /\ s.count = n /\ s.flags = r.flags /\ s.refs = r.refs
        /\ Alike([s EXCEPT !.count = 0], [r EXCEPT !.count = 0])
  BY DEF TtyStruct, Alike
<1>2. \A n \in Int : LET s == tty_ldisc_enable([initialize_tty_struct EXCEPT !.count = n]) IN
        /\ s.live /\ s.session = 0 /\ s.pgrp = NULL /\ s.disc = N_TTY /\ s.flags = {"LDISC"}
        /\ s.refs = 0 /\ s.count = n
  BY DEF tty_ldisc_enable, initialize_tty_struct, Free
<1>3. CASE tty[t].live
  <2>1. tty'[x] = IF x = t \/ (t \in Master /\ x = Link[t])
                  THEN [tty[x] EXCEPT !.count = tty[x].count + 1] ELSE tty[x]
    BY <1>3 DEF init_dev, fast_track
  <2>2. tty[x].count \in Int /\ tty[x].count + 1 \in Int
    BY <1>t DEF TtyStruct
  <2>3. CASE x = t \/ (t \in Master /\ x = Link[t])
    <3> DEFINE s == [tty[x] EXCEPT !.count = tty[x].count + 1]
    <3>1. /\ s.count = tty[x].count + 1 /\ s.flags = tty[x].flags /\ s.refs = tty[x].refs
          /\ Alike([s EXCEPT !.count = 0], [tty[x] EXCEPT !.count = 0])
      BY <1>1, <1>t, <2>2
    <3>2. tty'[x] = s
      BY <2>1, <2>3
    <3> HIDE DEF s
    <3> QED BY <3>1, <3>2, <2>3, <1>3 DEF Side
  <2>4. CASE ~(x = t \/ (t \in Master /\ x = Link[t]))
    <3>1. tty'[x] = tty[x]
      BY <2>1, <2>4
    <3>2. Alike([tty[x] EXCEPT !.count = 0], [tty[x] EXCEPT !.count = 0])
      BY DEF Alike
    <3> QED BY <3>1, <3>2, <2>2, <2>4, <1>3
  <2> QED BY <2>3, <2>4
<1>4. CASE ~tty[t].live
  <2>1. tty' = install(t)
    BY <1>4 DEF init_dev
  <2>2. CASE x = t
    <3>1. tty'[x] = tty_ldisc_enable([initialize_tty_struct EXCEPT !.count = 1])
      <4>1. x # Link[t]
        BY <2>2, TtyAssumption
      <4> QED BY <2>1, <2>2, <4>1 DEF install
    <3> QED BY <3>1, <2>2, <1>2, <1>4 DEF Side
  <2>3. CASE x # t /\ x = Link[t]
    <3> DEFINE n == IF t \in Master THEN 1 ELSE 0
    <3>1. tty'[x] = tty_ldisc_enable([initialize_tty_struct EXCEPT !.count = n]) /\ n \in Int
      BY <2>1, <2>3 DEF install
    <3>2. n = IF x = t \/ t \in Master THEN 1 ELSE 0
      BY <2>3
    <3> HIDE DEF n
    <3> QED BY <3>1, <3>2, <2>3, <1>2, <1>4 DEF Side
  <2>4. CASE ~Side(x, t)
    BY <2>1, <2>4, <1>4 DEF install, Side
  <2> QED BY <2>2, <2>3, <2>4 DEF Side
<1> QED BY <1>3, <1>4

(* Closing: the counts go down, the flags of a side that closes are set.    *)
LEMMA CountEffect ==
  ASSUME TypeOK, NEW p \in Proc, release_dev_count(p), NEW x \in Line
  PROVE  LET t == file[p].t
             l == loc[p]
             last == l.closing /\ (Link[t] = NULL \/ l.o_closing)
         IN /\ tty'[x].live = tty[x].live /\ tty'[x].session = tty[x].session
            /\ tty'[x].pgrp = tty[x].pgrp /\ tty'[x].disc = tty[x].disc
            /\ tty'[x].refs = tty[x].refs
            /\ tty'[x].count = uncount(t, tty[x], x)
            /\ "LDISC" \in tty'[x].flags <=> "LDISC" \in tty[x].flags /\ ~(last /\ x = t)
            /\ "DONT_FLIP" \in tty'[x].flags => "DONT_FLIP" \in tty[x].flags
            /\ "CLOSING" \in tty'[x].flags <=>
                 \/ "CLOSING" \in tty[x].flags
                 \/ (x = t /\ l.closing) \/ (x = Link[t] /\ l.o_closing)
<1> DEFINE t == file[p].t
           l == loc[p]
           last == l.closing /\ (Link[t] = NULL \/ l.o_closing)
           f == (tty[x].flags \cup (IF (x = t /\ l.closing) \/ (x = Link[t] /\ l.o_closing)
                                    THEN {"CLOSING"} ELSE {}))
                \ (IF last /\ x = t THEN {"LDISC", "DONT_FLIP"} ELSE {})
           n == uncount(t, tty[x], x)
<1>1. tty'[x] = [tty[x] EXCEPT !.count = n, !.flags = f]
  BY DEF release_dev_count
<1>2. /\ "LDISC" \in f <=> "LDISC" \in tty[x].flags /\ ~(last /\ x = t)
      /\ "DONT_FLIP" \in f => "DONT_FLIP" \in tty[x].flags
      /\ "CLOSING" \in f <=> \/ "CLOSING" \in tty[x].flags
                             \/ (x = t /\ l.closing) \/ (x = Link[t] /\ l.o_closing)
  OBVIOUS
<1>3. \A r \in TtyStruct : \A m, g : LET s == [r EXCEPT !.count = m, !.flags = g] IN
        /\ s.live = r.live /\ s.session = r.session /\ s.pgrp = r.pgrp /\ s.disc = r.disc
        /\ s.refs = r.refs /\ s.count = m /\ s.flags = g
  BY DEF TtyStruct
<1>4. tty[x] \in TtyStruct
  BY DEF TypeOK
<1> HIDE DEF f, n
<1>5. /\ tty'[x].live = tty[x].live /\ tty'[x].session = tty[x].session
      /\ tty'[x].pgrp = tty[x].pgrp /\ tty'[x].disc = tty[x].disc
      /\ tty'[x].refs = tty[x].refs /\ tty'[x].count = n /\ tty'[x].flags = f
  BY <1>1, <1>3, <1>4
<1> QED BY <1>2, <1>5 DEF n

(* Steps that change who a tty belongs to, and nothing else of it.          *)
Owner(r, s) ==
  /\ s.live = r.live /\ s.count = r.count /\ s.disc = r.disc /\ s.flags = r.flags
  /\ s.refs = r.refs

(* A tty gets a session and a foreground process group.                     *)
LEMMA OwnerUpdate ==
  ASSUME TypeOK, NEW t \in Line, NEW s \in Nat, NEW g \in Proc \cup {NULL},
         tty' = [tty EXCEPT ![t] = [tty[t] EXCEPT !.session = s, !.pgrp = g]], NEW x \in Line
  PROVE  /\ Owner(tty[x], tty'[x])
         /\ x = t => tty'[x].session = s /\ tty'[x].pgrp = g
         /\ x # t => tty'[x].session = tty[x].session /\ tty'[x].pgrp = tty[x].pgrp
<1>1. tty[x] \in TtyStruct /\ tty[t] \in TtyStruct
  BY DEF TypeOK
<1> DEFINE n == [tty[t] EXCEPT !.session = s, !.pgrp = g]
<1>2. n.session = s /\ n.pgrp = g /\ Owner(tty[t], n)
  BY <1>1 DEF TtyStruct, Owner
<1>3. tty'[x] = IF x = t THEN n ELSE tty[x]
  BY DEF TypeOK
<1> HIDE DEF n
<1> QED BY <1>2, <1>3 DEF Owner

(* A hangup leaves the tty without an owner and without flags.              *)
LEMMA HangupEffect ==
  ASSUME TypeOK, NEW t \in Line, hangup(t), NEW x \in Line
  PROVE  /\ tty'[x].live = tty[x].live /\ tty'[x].count = tty[x].count
         /\ tty'[x].disc = tty[x].disc
         /\ x # t => tty'[x] = tty[x]
         /\ x = t => /\ tty'[x].session = 0 /\ tty'[x].pgrp = NULL /\ tty'[x].flags = {}
                     /\ tty'[x].refs = IF "LDISC" \in tty[t].flags THEN tty[t].refs + 1
                                                                   ELSE tty[t].refs
<1> DEFINE ld == "LDISC" \in tty[t].flags
           r == IF ld THEN tty_ldisc_try(tty[t]) ELSE tty[t]
           n == IF ld THEN 0 ELSE tty[t].inq
           s == [r EXCEPT !.inq = n, !.flags = {}, !.session = 0, !.pgrp = NULL]
<1>1. tty[t] \in TtyStruct /\ tty \in [Line -> TtyStruct]
  BY DEF TypeOK
<1>2. tty' = [tty EXCEPT ![t] = s]
  BY DEF hangup
<1>3. tty_ldisc_try(tty[t]).refs = tty[t].refs + 1 /\ tty_ldisc_try(tty[t]).live = tty[t].live
      /\ tty_ldisc_try(tty[t]).count = tty[t].count /\ tty_ldisc_try(tty[t]).disc = tty[t].disc
  BY <1>1 DEF tty_ldisc_try, TtyStruct
<1>4. /\ r \in TtyStruct /\ r.live = tty[t].live /\ r.count = tty[t].count /\ r.disc = tty[t].disc
      /\ r.refs = IF ld THEN tty[t].refs + 1 ELSE tty[t].refs
  BY <1>1, <1>3, LdiscOps
<1> HIDE DEF r, n
<1>5. /\ s.live = r.live /\ s.count = r.count /\ s.disc = r.disc /\ s.refs = r.refs
      /\ s.session = 0 /\ s.pgrp = NULL /\ s.flags = {}
  BY <1>4 DEF TtyStruct
<1>6. tty'[x] = IF x = t THEN s ELSE tty[x]
  BY <1>1, <1>2
<1> HIDE DEF s
<1> QED BY <1>4, <1>5, <1>6

(* The end of a hangup enables the discipline there was.                    *)
LEMMA HangupEndEffect ==
  ASSUME TypeOK, NEW t \in Line, NEW ld \in BOOLEAN, hangup_end(t, ld), NEW x \in Line
  PROVE  /\ tty'[x].live = tty[x].live /\ tty'[x].count = tty[x].count
         /\ tty'[x].disc = tty[x].disc /\ tty'[x].session = tty[x].session
         /\ tty'[x].pgrp = tty[x].pgrp
         /\ "CLOSING" \in tty'[x].flags <=> "CLOSING" \in tty[x].flags
         /\ "DONT_FLIP" \in tty'[x].flags <=> "DONT_FLIP" \in tty[x].flags
         /\ "LDISC" \in tty'[x].flags <=> "LDISC" \in tty[x].flags \/ (x = t /\ ld)
         /\ x # t => tty'[x] = tty[x]
         /\ x = t => tty'[x].refs = IF ld /\ tty[t].refs > 0 THEN tty[t].refs - 1 ELSE tty[t].refs
<1> DEFINE r == [tty[t] EXCEPT !.flags = tty[t].flags \cup {"HUPPED"}]
           e == tty_ldisc_deref(tty_ldisc_enable(r))
           s == IF ld THEN e ELSE r
<1>1. tty[t] \in TtyStruct /\ tty \in [Line -> TtyStruct]
  BY DEF TypeOK
<1>2. tty' = [tty EXCEPT ![t] = s]
  BY DEF hangup_end
<1>3. /\ r \in TtyStruct /\ r.live = tty[t].live /\ r.count = tty[t].count /\ r.disc = tty[t].disc
      /\ r.session = tty[t].session /\ r.pgrp = tty[t].pgrp /\ r.refs = tty[t].refs
      /\ r.flags = tty[t].flags \cup {"HUPPED"}
  BY <1>1 DEF TtyStruct, Flag
<1> HIDE DEF r
<1> DEFINE b == tty_ldisc_enable(r)
<1>4. /\ b \in TtyStruct /\ b.live = r.live /\ b.count = r.count /\ b.disc = r.disc
      /\ b.session = r.session /\ b.pgrp = r.pgrp /\ b.refs = r.refs
      /\ b.flags = r.flags \cup {"LDISC"}
  BY <1>3 DEF tty_ldisc_enable, TtyStruct, Flag
<1> HIDE DEF b
<1>5. /\ e.live = b.live /\ e.count = b.count /\ e.disc = b.disc
      /\ e.session = b.session /\ e.pgrp = b.pgrp /\ e.flags = b.flags
      /\ e.refs = IF b.refs > 0 THEN b.refs - 1 ELSE b.refs
  <2>1. e = tty_ldisc_deref(b)
    BY DEF b
  <2> HIDE DEF e
  <2> QED BY <2>1, <1>4 DEF tty_ldisc_deref, TtyStruct
<1> HIDE DEF e
<1>6. tty'[x] = IF x = t THEN s ELSE tty[x]
  BY <1>1, <1>2
<1>7. CASE x # t
  BY <1>6, <1>7
<1>8. CASE x = t /\ ld
  <2>1. tty'[x] = e
    BY <1>6, <1>8
  <2> QED BY <2>1, <1>3, <1>4, <1>5, <1>8
<1>9. CASE x = t /\ ~ld
  <2>1. tty'[x] = r
    BY <1>6, <1>9
  <2> QED BY <2>1, <1>3, <1>9
<1> QED BY <1>7, <1>8, <1>9

(* A discipline about to be replaced is disabled, after that enabled.       *)
LEMMA LockEffect ==
  ASSUME TypeOK, NEW p \in Proc, tty_set_ldisc_lock(p), file[p].t \in Line, NEW x \in Line
  PROVE  /\ tty'[x].live = tty[x].live /\ tty'[x].count = tty[x].count
         /\ tty'[x].disc = tty[x].disc /\ tty'[x].session = tty[x].session
         /\ tty'[x].pgrp = tty[x].pgrp /\ tty'[x].refs = tty[x].refs
         /\ x # file[p].t => tty'[x] = tty[x]
         /\ tty[file[p].t].refs # 0 => tty'[x] = tty[x]
         /\ tty[file[p].t].refs = 0 /\ x = file[p].t => "LDISC" \notin tty'[x].flags
         /\ "CLOSING" \in tty'[x].flags <=> "CLOSING" \in tty[x].flags
         /\ "DONT_FLIP" \in tty'[x].flags => "DONT_FLIP" \in tty[x].flags
<1> DEFINE t == file[p].t
           s == [tty[t] EXCEPT !.flags = tty[t].flags \ {"LDISC", "DONT_FLIP"}]
<1>1. tty[t] \in TtyStruct /\ tty \in [Line -> TtyStruct]
  BY DEF TypeOK
<1>2. /\ s.live = tty[t].live /\ s.count = tty[t].count /\ s.disc = tty[t].disc
      /\ s.session = tty[t].session /\ s.pgrp = tty[t].pgrp /\ s.refs = tty[t].refs
      /\ s.flags = tty[t].flags \ {"LDISC", "DONT_FLIP"}
  BY <1>1 DEF TtyStruct
<1>3. IF tty[t].refs # 0 THEN tty' = tty ELSE tty' = [tty EXCEPT ![t] = s]
  BY DEF tty_set_ldisc_lock
<1> HIDE DEF s
<1>4. CASE tty'[x] = tty[x] /\ (tty[t].refs # 0 \/ x # t)
  BY <1>4
<1>5. CASE tty'[x] = s /\ x = t /\ tty[t].refs = 0
  BY <1>2, <1>5
<1> QED BY <1>1, <1>3, <1>4, <1>5

(* The new discipline, or the old one again, is enabled.                    *)
LEMMA SetEffect ==
  ASSUME TypeOK, NEW p \in Proc, tty_set_ldisc_open(p), file[p].t \in Line, NEW x \in Line
  PROVE  /\ tty'[x].live = tty[x].live /\ tty'[x].count = tty[x].count
         /\ tty'[x].session = tty[x].session
         /\ tty'[x].pgrp = tty[x].pgrp /\ tty'[x].refs = tty[x].refs
         /\ x # file[p].t => tty'[x] = tty[x]
         /\ "LDISC" \in tty'[x].flags <=> "LDISC" \in tty[x].flags \/ x = file[p].t
         /\ "CLOSING" \in tty'[x].flags <=> "CLOSING" \in tty[x].flags
         /\ "DONT_FLIP" \in tty'[x].flags <=> "DONT_FLIP" \in tty[x].flags
<1> DEFINE t == file[p].t
<1>1. tty[t] \in TtyStruct /\ tty \in [Line -> TtyStruct]
  BY DEF TypeOK
<1>2. PICK d : tty' = [tty EXCEPT ![t] = tty_ldisc_enable([tty[t] EXCEPT !.disc = d])]
  BY DEF tty_set_ldisc_open
<1> DEFINE s == tty_ldisc_enable([tty[t] EXCEPT !.disc = d])
<1>3. /\ s.live = tty[t].live /\ s.count = tty[t].count
      /\ s.session = tty[t].session /\ s.pgrp = tty[t].pgrp /\ s.refs = tty[t].refs
      /\ s.flags = tty[t].flags \cup {"LDISC"}
  BY <1>1 DEF TtyStruct, tty_ldisc_enable
<1>4. tty'[x] = IF x = t THEN s ELSE tty[x]
  BY <1>1, <1>2
<1> HIDE DEF s
<1>5. CASE x = t
  BY <1>3, <1>4, <1>5
<1>6. CASE x # t
  BY <1>4, <1>6
<1> QED BY <1>5, <1>6

-----------------------------------------------------------------------------
(* A disabled discipline is owed by someone.                                *)

Owing == {"swflush", "flush", "free", "hangup_end"}

(* What a process that owes nothing does to itself pays nobody's debt.      *)
LEMMA DebtsStay ==
  ASSUME NEW p \in Proc, pc[p] \notin Owing,
         \A q \in Proc : q # p => pc'[q] = pc[q] /\ loc'[q] = loc[q] /\ file'[q].t = file[q].t,
         wk' = wk, NEW t, Owed(t)
  PROVE  Owed(t)'
BY DEF Owed, Owing

(* Every step keeps the debts: a disabled discipline is owed by someone.    *)
LEMMA OwedStep ==
  ASSUME TypeOK, PlacedInv, OwedInv, [Next]_vars
  PROVE  OwedInv'
<1> USE DEF Go, Back
<1>t. /\ pc \in [Proc -> Place] /\ loc \in [Proc -> Locals] /\ file \in [Proc -> File]
      /\ tty \in [Line -> TtyStruct]
  BY DEF TypeOK
<1>c. ASSUME Calm, NEW p \in Proc, pc[p] \notin Owing,
             \A q \in Proc : q # p => pc'[q] = pc[q] /\ loc'[q] = loc[q] /\ file'[q].t = file[q].t,
             wk' = wk
      PROVE  OwedInv'
  BY <1>c, DebtsStay DEF Calm, Alike, OwedInv
<1>s. ASSUME \A x \in Line : tty'[x].live = tty[x].live
                             /\ ("LDISC" \in tty[x].flags => "LDISC" \in tty'[x].flags),
             UNCHANGED <<pc, loc, wk>>, \A q \in Proc : file'[q].t = file[q].t
      PROVE  OwedInv'
  BY <1>s DEF OwedInv, Owed
<1>1. ASSUME NEW p \in Proc, NEW t \in Line, tty_open(p, t) \/ ptmx_open(p, t) PROVE OwedInv'
  <2>1. /\ pc[p] = "user" /\ init_dev(t) /\ pc' = [pc EXCEPT ![p] = "open"] /\ UNCHANGED <<loc, wk>>
        /\ \E f : file' = [file EXCEPT ![p] = [t |-> t, fops |-> f]]
    BY <1>1 DEF tty_open, ptmx_open, OpenFile
  <2>2. \A q \in Proc : q # p => pc'[q] = pc[q] /\ loc'[q] = loc[q] /\ file'[q].t = file[q].t
    BY <2>1, <1>t
  <2> SUFFICES ASSUME NEW x \in Line, tty'[x].live, "LDISC" \notin tty'[x].flags PROVE Owed(x)'
    BY DEF OwedInv
  <2>3. tty[x].live /\ "LDISC" \notin tty[x].flags
    <3>1. tty[x] \in TtyStruct
      BY DEF TypeOK
    <3>2. CASE tty[t].live
      <4>1. tty'[x].flags = tty[x].flags
        BY <2>1, <3>2, OpenEffect
      <4>2. Side(x, t) => Alike([tty'[x] EXCEPT !.count = 0], [tty[x] EXCEPT !.count = 0])
        BY <2>1, <3>2, OpenEffect
      <4>3. tty'[x] \in TtyStruct
        BY TypeStep DEF TypeOK
      <4>4. tty'[x].live = tty[x].live
        <5>1. CASE Side(x, t)
          BY <4>2, <4>3, <3>1, <5>1 DEF Alike, TtyStruct
        <5>2. CASE ~Side(x, t)
          BY <2>1, <5>2, OpenEffect
        <5> QED BY <5>1, <5>2
      <4> QED BY <4>1, <4>4
    <3>3. CASE ~tty[t].live
      <4>1. ~Side(x, t)
        BY <2>1, <3>3, OpenEffect
      <4> QED BY <2>1, <4>1, OpenEffect
    <3> QED BY <3>2, <3>3
  <2> QED BY <2>1, <2>2, <2>3, DebtsStay DEF OwedInv, Owing
<1>2. ASSUME NEW p \in Proc, tty_open_end(p) PROVE OwedInv'
  <2>1. /\ pc[p] = "open" /\ UNCHANGED <<file, wk>>
        /\ \A q \in Proc : q # p => pc'[q] = pc[q] /\ loc'[q] = loc[q]
    BY <1>2, <1>t DEF tty_open_end, driver_close
  <2>2. file[p].t \in Line
    BY <2>1, OnLine DEF OnFile
  <2>3. tty' = tty \/ tty' = [tty EXCEPT ![file[p].t] =
                                [tty[file[p].t] EXCEPT !.session = Session[p], !.pgrp = p]]
    BY <1>2 DEF tty_open_end
  <2>4. \A x \in Line : tty'[x].live = tty[x].live /\ tty'[x].flags = tty[x].flags
    <3>1. Session[p] \in Nat
      BY TtyAssumption
    <3> QED BY <2>2, <2>3, <3>1, OwnerUpdate DEF Owner
  <2> QED BY <2>1, <2>4, DebtsStay DEF OwedInv, Owing
<1>3. ASSUME NEW p \in Proc, release_dev_count(p) PROVE OwedInv'
  <2> DEFINE last == loc[p].closing /\ (Link[file[p].t] = NULL \/ loc[p].o_closing)
  <2>1. /\ pc[p] = "count" /\ UNCHANGED wk /\ file' = [file EXCEPT ![p] = NoFile]
        /\ IF last THEN /\ pc' = [pc EXCEPT ![p] = "flush"]
                        /\ loc' = [loc EXCEPT ![p] = [loc[p] EXCEPT !.t = file[p].t]]
                   ELSE pc' = [pc EXCEPT ![p] = "user"] /\ loc' = [loc EXCEPT ![p] = NoLoc]
    BY <1>3 DEF release_dev_count
  <2>2. \A q \in Proc : q # p => pc'[q] = pc[q] /\ loc'[q] = loc[q] /\ file'[q].t = file[q].t
    BY <2>1, <1>t
  <2> SUFFICES ASSUME NEW x \in Line, tty'[x].live, "LDISC" \notin tty'[x].flags PROVE Owed(x)'
    BY DEF OwedInv
  <2>3. tty[x].live /\ ("LDISC" \notin tty[x].flags \/ (last /\ x = file[p].t))
    BY <1>3, CountEffect
  <2>4. CASE last /\ x = file[p].t
    <3>1. loc[p] \in Locals
      BY <1>t
    <3> DEFINE m == [loc[p] EXCEPT !.t = file[p].t]
    <3>2. m.t = file[p].t
      BY <3>1, LocalFields
    <3>3. pc'[p] = "flush" /\ loc'[p] = m
      BY <2>1, <2>4, <1>t
    <3> HIDE DEF m, last
    <3> QED BY <3>2, <3>3, <2>4 DEF Owed
  <2>5. CASE "LDISC" \notin tty[x].flags
    BY <2>1, <2>2, <2>3, <2>5, DebtsStay DEF OwedInv, Owing
  <2> QED BY <2>3, <2>4, <2>5
<1>4. ASSUME NEW p \in Proc, release_mem(p) PROVE OwedInv'
  <2>1. /\ pc[p] = "free" /\ UNCHANGED <<wk, file>> /\ pc' = [pc EXCEPT ![p] = "user"]
        /\ loc' = [loc EXCEPT ![p] = NoLoc]
        /\ tty' = [x \in Line |-> IF x \in {loc[p].t} \cup ({Link[loc[p].t]} \ {NULL})
                                  THEN Free ELSE tty[x]]
    BY <1>4 DEF release_mem
  <2>2. \A q \in Proc : q # p => pc'[q] = pc[q] /\ loc'[q] = loc[q]
    BY <2>1, <1>t
  <2>3. Free.live = FALSE
    BY DEF Free
  <2> SUFFICES ASSUME NEW x \in Line, tty'[x].live, "LDISC" \notin tty'[x].flags PROVE Owed(x)'
    BY DEF OwedInv
  <2>4. tty'[x] = tty[x] /\ x # loc[p].t
    BY <2>1, <2>3
  <2>5. Owed(x)
    BY <2>4 DEF OwedInv
  <2> QED BY <2>1, <2>2, <2>4, <2>5 DEF Owed
<1>5. ASSUME NEW p \in Proc, tty_set_ldisc_lock(p) PROVE OwedInv'
  <2>1. pc[p] = "switch" /\ UNCHANGED <<file, wk>>
        /\ \A q \in Proc : q # p => pc'[q] = pc[q] /\ loc'[q] = loc[q]
    BY <1>5, <1>t DEF tty_set_ldisc_lock
  <2>2. file[p].t \in Line
    BY <2>1, OnLine DEF OnFile
  <2>3. tty[file[p].t].refs = 0 => pc'[p] = "swflush"
    BY <1>5, <1>t DEF tty_set_ldisc_lock
  <2> SUFFICES ASSUME NEW x \in Line, tty'[x].live, "LDISC" \notin tty'[x].flags PROVE Owed(x)'
    BY DEF OwedInv
  <2>4. tty'[x] = tty[x] \/ (x = file[p].t /\ tty[file[p].t].refs = 0)
    BY <1>5, <2>2, LockEffect
  <2>5. CASE tty'[x] = tty[x]
    BY <2>1, <2>5, DebtsStay DEF OwedInv, Owing
  <2>6. CASE x = file[p].t /\ tty[file[p].t].refs = 0
    BY <2>1, <2>3, <2>6 DEF Owed
  <2> QED BY <2>4, <2>5, <2>6
<1>6. ASSUME NEW p \in Proc, tty_set_ldisc_open(p) PROVE OwedInv'
  <2>1. pc[p] = "swflush" /\ UNCHANGED <<file, wk>>
        /\ \A q \in Proc : q # p => pc'[q] = pc[q] /\ loc'[q] = loc[q]
    BY <1>6, <1>t DEF tty_set_ldisc_open
  <2>2. file[p].t \in Line
    BY <2>1, OnLine DEF OnFile
  <2> SUFFICES ASSUME NEW x \in Line, tty'[x].live, "LDISC" \notin tty'[x].flags PROVE Owed(x)'
    BY DEF OwedInv
  <2>3. x # file[p].t /\ tty[x].live /\ "LDISC" \notin tty[x].flags
    BY <1>6, <2>2, SetEffect
  <2>4. Owed(x)
    BY <2>3 DEF OwedInv
  <2> QED BY <2>1, <2>3, <2>4 DEF Owed
<1>7. ASSUME NEW p \in Proc, tiocsctty(p) \/ (\E g \in Proc : tiocspgrp(p, g)) \/ tiocnotty(p)
      PROVE  OwedInv'
  <2>0. /\ UNCHANGED <<pc, loc, wk, file>> /\ file[p].t # NULL
    BY <1>7 DEF tiocsctty, tiocspgrp, tiocnotty, InIoctl
  <2>1. file[p].t \in Line /\ Session[p] \in Nat
    BY <2>0, OnLine, TtyAssumption
  <2>2. ASSUME NEW t \in Line, NEW r, r.live = tty[t].live, r.flags = tty[t].flags,
               tty' = [tty EXCEPT ![t] = r]
        PROVE  OwedInv'
    <3>1. \A x \in Line : tty'[x].live = tty[x].live /\ tty'[x].flags = tty[x].flags
      BY <2>2, <1>t
    <3> QED BY <3>1, <2>0, <1>s
  <2>3. CASE tiocsctty(p)
    <3> DEFINE r == [tty[file[p].t] EXCEPT !.session = Session[p], !.pgrp = p]
    <3>1. r.live = tty[file[p].t].live /\ r.flags = tty[file[p].t].flags
      BY <2>1, <1>t DEF TtyStruct
    <3>2. tty' = [tty EXCEPT ![file[p].t] = r]
      BY <2>3 DEF tiocsctty
    <3> HIDE DEF r
    <3> QED BY <3>1, <3>2, <2>1, <2>2
  <2>4. ASSUME NEW g \in Proc, tiocspgrp(p, g) PROVE OwedInv'
    <3> DEFINE t == real_tty(file[p].t)
               r == [tty[t] EXCEPT !.pgrp = g]
    <3>0. t \in Line
      BY <2>1, TtyAssumption DEF real_tty
    <3>1. r.live = tty[t].live /\ r.flags = tty[t].flags
      BY <3>0, <1>t DEF TtyStruct
    <3>2. tty' = [tty EXCEPT ![t] = r]
      BY <2>4 DEF tiocspgrp
    <3> HIDE DEF r, t
    <3> QED BY <3>0, <3>1, <3>2, <2>2
  <2>5. CASE tiocnotty(p)
    <3> DEFINE r == [tty[file[p].t] EXCEPT !.session = 0, !.pgrp = NULL]
    <3>1. r.live = tty[file[p].t].live /\ r.flags = tty[file[p].t].flags
      BY <2>1, <1>t DEF TtyStruct
    <3>2. tty' = [tty EXCEPT ![file[p].t] = r] \/ tty' = tty
      BY <2>5 DEF tiocnotty, disown
    <3> HIDE DEF r
    <3> QED BY <3>1, <3>2, <2>0, <2>1, <2>2, <1>s
  <2> QED BY <1>7, <2>3, <2>4, <2>5
<1>8. ASSUME NEW p \in Proc, disassociate_ctty_end(p) PROVE OwedInv'
  <2>1. /\ pc[p] = "exit" /\ UNCHANGED <<file, wk>> /\ disown(p, loc[p].t)
        /\ \A q \in Proc : q # p => pc'[q] = pc[q] /\ loc'[q] = loc[q]
    BY <1>8, <1>t DEF disassociate_ctty_end
  <2>2. loc[p].t \in Line
    BY <2>1, OnLine
  <2>3. tty' = [tty EXCEPT ![loc[p].t] = [tty[loc[p].t] EXCEPT !.session = 0, !.pgrp = NULL]]
    BY <2>1 DEF disown
  <2>4. \A x \in Line : tty'[x].live = tty[x].live /\ tty'[x].flags = tty[x].flags
    BY <2>2, <2>3, OwnerUpdate DEF Owner
  <2> QED BY <2>1, <2>4, DebtsStay DEF OwedInv, Owing
<1>9. ASSUME NEW p \in Proc, tty_vhangup(p) PROVE OwedInv'
  <2> DEFINE ld == "LDISC" \in tty[loc[p].t].flags
             m == [loc[p] EXCEPT !.ref = ld]
  <2>1. /\ pc[p] = "hangup" /\ hangup(loc[p].t) /\ UNCHANGED wk
        /\ pc'[p] = "hangup_end" /\ loc'[p] = m
        /\ \A q \in Proc : q # p => pc'[q] = pc[q] /\ loc'[q] = loc[q]
    BY <1>9, <1>t DEF tty_vhangup
  <2>2. loc[p].t \in Line /\ loc[p] \in Locals
    BY <2>1, <1>t, OnLine
  <2>3. m.t = loc[p].t /\ m.ref = ld
    BY <2>2 DEF Locals
  <2>4. \A q \in Proc : file'[q].t = file[q].t
    BY <2>1 DEF hangup
  <2> HIDE DEF m
  <2> SUFFICES ASSUME NEW x \in Line, tty'[x].live, "LDISC" \notin tty'[x].flags PROVE Owed(x)'
    BY DEF OwedInv
  <2>5. CASE x = loc[p].t /\ ld
    BY <2>1, <2>3, <2>5 DEF Owed
  <2>6. CASE ~(x = loc[p].t /\ ld)
    <3>1. tty[x].live /\ "LDISC" \notin tty[x].flags
      BY <2>1, <2>2, <2>6, HangupEffect
    <3> QED BY <3>1, <2>1, <2>4, DebtsStay DEF OwedInv, Owing
  <2> QED BY <2>5, <2>6
<1>10. ASSUME NEW p \in Proc, tty_vhangup_end(p) PROVE OwedInv'
  <2>1. /\ pc[p] = "hangup_end" /\ hangup_end(loc[p].t, loc[p].ref) /\ UNCHANGED <<wk, file>>
        /\ \A q \in Proc : q # p => pc'[q] = pc[q] /\ loc'[q] = loc[q]
    BY <1>10, <1>t DEF tty_vhangup_end
  <2>2. loc[p].t \in Line /\ loc[p].ref \in BOOLEAN
    BY <2>1, <1>t, OnLine DEF Locals
  <2> SUFFICES ASSUME NEW x \in Line, tty'[x].live, "LDISC" \notin tty'[x].flags PROVE Owed(x)'
    BY DEF OwedInv
  <2>3. tty[x].live /\ "LDISC" \notin tty[x].flags /\ ~(x = loc[p].t /\ loc[p].ref)
    BY <2>1, <2>2, HangupEndEffect
  <2>4. Owed(x)
    BY <2>3 DEF OwedInv
  <2> QED BY <2>1, <2>3, <2>4 DEF Owed
<1>11. ASSUME NEW t \in Line, do_tty_hangup(t) PROVE OwedInv'
  <2> DEFINE ld == "LDISC" \in tty[t].flags
  <2>1. /\ wk = Idle /\ hangup(t) /\ UNCHANGED <<pc, loc>>
        /\ wk' = [pc |-> "hangup", t |-> t, ld |-> ld]
    BY <1>11 DEF do_tty_hangup
  <2>2. \A q \in Proc : file'[q].t = file[q].t
    BY <2>1 DEF hangup
  <2>3. wk.pc = "idle"
    BY <2>1 DEF Idle
  <2> SUFFICES ASSUME NEW x \in Line, tty'[x].live, "LDISC" \notin tty'[x].flags PROVE Owed(x)'
    BY DEF OwedInv
  <2>5. CASE x = t /\ ld
    BY <2>1, <2>5 DEF Owed
  <2>6. CASE ~(x = t /\ ld)
    <3>1. tty[x].live /\ "LDISC" \notin tty[x].flags
      BY <2>1, <2>6, HangupEffect
    <3>2. Owed(x)
      BY <3>1 DEF OwedInv
    <3> QED BY <3>2, <2>1, <2>2, <2>3 DEF Owed
  <2> QED BY <2>5, <2>6
<1>12. ASSUME do_tty_hangup_end PROVE OwedInv'
  <2>1. wk.pc = "hangup" /\ hangup_end(wk.t, wk.ld) /\ UNCHANGED <<pc, loc, file>>
    BY <1>12 DEF do_tty_hangup_end
  <2>2. wk.t \in Line /\ wk.ld \in BOOLEAN
    BY <2>1 DEF TypeOK
  <2> SUFFICES ASSUME NEW x \in Line, tty'[x].live, "LDISC" \notin tty'[x].flags PROVE Owed(x)'
    BY DEF OwedInv
  <2>3. tty[x].live /\ "LDISC" \notin tty[x].flags /\ ~(x = wk.t /\ wk.ld)
    BY <2>1, <2>2, HangupEndEffect
  <2>4. Owed(x)
    BY <2>3 DEF OwedInv
  <2> QED BY <2>1, <2>3, <2>4 DEF Owed
<1>13. ASSUME NEW p \in Proc, CalmCall(p) PROVE OwedInv'
  <2>1. Calm /\ UNCHANGED <<file, wk>>
    <3>1. UNCHANGED <<file, wk>>
      BY <1>13 DEF CalmCall, tty_release, release_dev_closing, release_dev_flush, tty_set_ldisc,
         tty_set_ldisc_signal, tty_read, n_tty_read, tty_read_end, tty_write, do_tty_write,
         do_tty_write_end, tty_poll, tiocsti, tiocexcl, tioccons, disassociate_ctty
    <3> QED BY <3>1, <1>13, CalmCalls
  <2>2. \A q \in Proc : q # p => pc'[q] = pc[q] /\ loc'[q] = loc[q]
    BY <1>13, <1>t DEF CalmCall, tty_release, driver_close, release_dev_closing, release_dev_flush,
       tty_set_ldisc, tty_set_ldisc_signal, tty_read, n_tty_read, tty_read_end, tty_write,
       do_tty_write, do_tty_write_end, tty_poll, tiocsti, tiocexcl, tioccons, disassociate_ctty,
       tty_ldisc_ref_wait
  <2>3. pc[p] \notin Owing \/ release_dev_flush(p)
    BY <1>13 DEF CalmCall, tty_release, release_dev_closing, tty_set_ldisc, tty_set_ldisc_signal,
       tty_read, n_tty_read, tty_read_end, tty_write, do_tty_write, do_tty_write_end, tty_poll,
       tiocsti, tiocexcl, tioccons, disassociate_ctty, tty_ldisc_ref_wait, InIoctl, Owing
  <2>4. CASE release_dev_flush(p)
    <3>1. pc[p] = "flush" /\ pc'[p] = "free" /\ loc' = loc
      BY <2>4, <1>t DEF release_dev_flush
    <3> QED BY <2>1, <2>2, <3>1 DEF Calm, Alike, OwedInv, Owed
  <2> QED BY <2>1, <2>2, <2>3, <2>4, <1>c
<1>14. ASSUME \/ \E t \in Line : Driver(t) \/ flush_to_ldisc(t) \/ __do_SAK(t)
              \/ flush_to_ldisc_end \/ (\E d \in Ldisc : tty_register_ldisc(d))
              \/ UNCHANGED vars
       PROVE  OwedInv'
  <2>1. Calm
    BY <1>14, CalmDriver
  <2>2. UNCHANGED <<pc, loc, file>> /\ (wk.pc = "hangup" => wk' = wk)
    <3>1. ASSUME NEW t \in Line, Driver(t) PROVE UNCHANGED <<pc, loc, file, wk>>
      BY <3>1 DEF Driver, stop_tty, tty_flip_buffer_push, delayed_work, tty_hangup, do_SAK, Queue
    <3>2. ASSUME NEW t \in Line, flush_to_ldisc(t) \/ __do_SAK(t)
          PROVE  UNCHANGED <<pc, loc, file>> /\ wk = Idle
      BY <3>2 DEF flush_to_ldisc, __do_SAK
    <3>3. Idle.pc # "hangup"
      BY DEF Idle
    <3>4. CASE flush_to_ldisc_end
      BY <3>4 DEF flush_to_ldisc_end
    <3>5. CASE (\E d \in Ldisc : tty_register_ldisc(d)) \/ UNCHANGED vars
      BY <3>5 DEF tty_register_ldisc, vars
    <3> QED BY <1>14, <3>1, <3>2, <3>3, <3>4, <3>5
  <2> QED BY <2>1, <2>2 DEF Calm, Alike, OwedInv, Owed
<1>15. ASSUME NEW p \in Proc, Syscall(p) PROVE OwedInv'
  BY <1>15, <1>1, <1>2, <1>3, <1>4, <1>5, <1>6, <1>7, <1>8, <1>9, <1>10, <1>13
     DEF Syscall, CalmCall
<1> HIDE DEF Go, Back
<1> QED BY <1>11, <1>12, <1>14, <1>15 DEF Next, keventd

(* No call waits for ever for a discipline: a live tty whose TTY_LDISC is   *)
(* clear is being closed, or a change of discipline or a hangup that has    *)
(* cleared it will set it again, in whatever order they meet.               *)
THEOREM DisciplineComesBack == Spec => []EnableOwed
<1>1. Init => OwedInv
  <2> SUFFICES ASSUME Init, NEW t \in Line, tty[t].live PROVE "LDISC" \in tty[t].flags
    BY DEF OwedInv
  <2>1. Free.live = FALSE
    BY DEF Free
  <2>2. \E n : tty[t] = tty_ldisc_enable([initialize_tty_struct EXCEPT !.count = n])
    BY <2>1 DEF Init
  <2> QED BY <2>2 DEF tty_ldisc_enable, initialize_tty_struct, Free
<1>2. TypeOK /\ PlacedInv /\ OwedInv /\ [Next]_vars => OwedInv'
  BY OwedStep
<1>3. OwedInv => EnableOwed
  BY DEF OwedInv, Owed, EnableOwed
<1> QED BY <1>1, <1>2, <1>3, CallsHoldTheirFile, PTL DEF Spec

-----------------------------------------------------------------------------
(* The two environments in which the counts are not enough.                 *)

Gentle == \A e \in Envs :
  /\ "CARRIER" \in e.ops => e.ops \cap {"OPEN", "PTMX", "CONSOLE"} = {}
  /\ "SLEEP" \in e.ops => e.ops \cap {"EXIT", "SAK"} = {}

(* What the big kernel lock keeps still.                                    *)
LockInv ==
  /\ \A p \in Proc : pc[p] = "count" =>
       /\ bkl = p
       /\ loc[p].closing = (tty[file[p].t].count <= 1)
       /\ loc[p].o_closing = (Link[file[p].t] # NULL
            /\ tty[Link[file[p].t]].count <= IF file[p].t \in Master THEN 1 ELSE 0)
  /\ \A p \in Proc : loc[p].exit => bkl = p /\ ~Op("SLEEP")
  /\ killed # {} => Op("SAK")
  /\ \A t \in Line : <<"SAK", t>> \in work => Op("SAK")
  /\ \A t \in Line : <<"hangup", t>> \in work => Op("CARRIER")

(* The files on the master of a pty, each of which counts on its slave.     *)
OnMaster(t) == IF IsSlave(t) THEN Cardinality(Files(Link[t])) ELSE 0

CountInv ==
  /\ \A p \in Proc : file[p].t # NULL => tty[file[p].t].live
  /\ \A t \in Line : Link[t] # NULL => tty[t].live = tty[Link[t]].live
  /\ \A p, q \in Proc : file[p].t \in Master /\ file[p].t = file[q].t => p = q
  /\ \A t \in Line : tty[t].count = Cardinality(Files(t)) + OnMaster(t)

Barred(x) == "CLOSING" \in tty[x].flags \/ Op("CARRIER")

(* Nobody is left on a tty that is about to be freed, and none can come.    *)
Deserted(p, x) ==
  /\ tty[x].live /\ Files(x) = {} /\ Barred(x)
  /\ \A q \in Proc : ctty[q] # x /\ (q # p => loc[q].t # x)

CloseInv ==
  \A p \in Proc : pc[p] \in {"flush", "free"} =>
    \A x \in Line : Side(x, loc[p].t) => Deserted(p, x)

(* A leader on its way out still owns the tty it is about to give back.     *)
Leaving(p) ==
  tty[loc[p].t].live /\ \A q \in Proc : ctty[q] = loc[p].t => Session[q] = Session[p]

CttyInv == CttySound /\ \A p \in Proc : loc[p].exit => Leaving(p)

HomeInv == CountInv /\ CloseInv /\ CttyInv

(* Work is only left for ttys that live, and only lines without another     *)
(* side have a flip buffer.                                                 *)
WorkInv ==
  /\ \A t \in timer : tty[t].live /\ Link[t] = NULL
  /\ \A w \in work : tty[w[2]].live /\ (w[1] = "flip" => Link[w[2]] = NULL)
  /\ wk.t # NULL => tty[wk.t].live
  /\ wk.pc = "flip" => Link[wk.t] = NULL /\ wk.ld
  /\ \A p \in Proc : pc[p] = "swflush" /\ loc[p].work => Link[file[p].t] = NULL

(* No input can be delayed for a tty about to be freed, and once the work   *)
(* is flushed none is left for it.                                          *)
FlushInv ==
  \A p \in Proc : pc[p] \in {"flush", "free"} =>
    \A x \in Line : Side(x, loc[p].t) =>
      /\ x \notin timer /\ (Link[x] = NULL => "DONT_FLIP" \notin tty[x].flags)
      /\ pc[p] = "free" => wk.t # x /\ \A w \in work : w[2] # x

LiveLocals == \A p \in Proc : loc[p].t # NULL => tty[loc[p].t].live

-----------------------------------------------------------------------------
(* What the big kernel lock keeps still.                                    *)

(* A call moves its own process only; without the lock it is calm and       *)
(* leaves the lock alone.                                                   *)
LEMMA CallFrame ==
  ASSUME TypeOK, NEW p \in Proc, Syscall(p)
  PROVE  /\ UNCHANGED <<killed, work, wk, env>>
         /\ \A q \in Proc : q # p => pc'[q] = pc[q] /\ loc'[q] = loc[q] /\ file'[q].t = file[q].t
         /\ Bkl(p) \/ (CalmCall(p) /\ UNCHANGED <<bkl, file, ctty, idr>>)
<1>t. /\ pc \in [Proc -> Place] /\ loc \in [Proc -> Locals] /\ file \in [Proc -> File]
  BY DEF TypeOK
<1> USE DEF Go, Back
<1>1. CASE CalmCall(p)
  <2>1. UNCHANGED <<killed, work, wk, env, file, ctty, idr>>
    BY <1>1 DEF CalmCall, tty_release, release_dev_closing, release_dev_flush, tty_set_ldisc,
       tty_set_ldisc_signal, tty_read, n_tty_read, tty_read_end, tty_write, do_tty_write,
       do_tty_write_end, tty_poll, tiocsti, tiocexcl, tioccons, disassociate_ctty
  <2>2. bkl' = bkl \/ Bkl(p)
    BY <1>1 DEF CalmCall, tty_release, release_dev_closing, release_dev_flush, tty_set_ldisc,
       tty_set_ldisc_signal, tty_read, n_tty_read, tty_read_end, tty_write, do_tty_write,
       do_tty_write_end, tty_poll, tiocsti, tiocexcl, tioccons, disassociate_ctty
  <2>3. \A q \in Proc : q # p => pc'[q] = pc[q] /\ loc'[q] = loc[q]
    BY <1>1, <1>t DEF CalmCall, tty_release, driver_close, release_dev_closing, release_dev_flush,
       tty_set_ldisc, tty_set_ldisc_signal, tty_read, n_tty_read, tty_read_end, tty_write,
       do_tty_write, do_tty_write_end, tty_poll, tiocsti, tiocexcl, tioccons, disassociate_ctty,
       tty_ldisc_ref_wait
  <2> QED BY <1>1, <2>1, <2>2, <2>3
<1>2. CASE \E t \in Line : tty_open(p, t) \/ ptmx_open(p, t)
  <2>1. /\ UNCHANGED <<killed, work, wk, env, loc>> /\ Bkl(p)
        /\ pc' = [pc EXCEPT ![p] = "open"] /\ \E f : file' = [file EXCEPT ![p] = f]
    BY <1>2 DEF tty_open, ptmx_open, OpenFile
  <2> QED BY <2>1, <1>t
<1>3. CASE tty_open_end(p) \/ release_dev_count(p) \/ release_mem(p) \/ tty_set_ldisc_lock(p)
           \/ tty_set_ldisc_open(p) \/ disassociate_ctty_end(p) \/ tty_vhangup_end(p)
  <2>1. UNCHANGED <<killed, work, wk, env>> /\ Bkl(p)
        /\ (file' = file \/ file' = [file EXCEPT ![p] = NoFile])
    BY <1>3 DEF tty_open_end, release_dev_count, release_mem, tty_set_ldisc_lock,
       tty_set_ldisc_open, disassociate_ctty_end, tty_vhangup_end
  <2>2. \A q \in Proc : q # p => pc'[q] = pc[q] /\ loc'[q] = loc[q]
    BY <1>3, <1>t DEF tty_open_end, driver_close, release_dev_count, release_mem,
       tty_set_ldisc_lock, tty_set_ldisc_open, disassociate_ctty_end, tty_vhangup_end
  <2> QED BY <2>1, <2>2, <1>t
<1>4. CASE tiocsctty(p) \/ (\E g \in Proc : tiocspgrp(p, g)) \/ tiocnotty(p)
  BY <1>4 DEF tiocsctty, tiocspgrp, tiocnotty, InIoctl
<1>5. CASE tty_vhangup(p)
  <2>1. \A q \in Proc : file'[q].t = file[q].t
    BY <1>5 DEF tty_vhangup, hangup
  <2>2. \A q \in Proc : q # p => pc'[q] = pc[q] /\ loc'[q] = loc[q]
    BY <1>5, <1>t DEF tty_vhangup
  <2> QED BY <1>5, <2>1, <2>2 DEF tty_vhangup
<1> HIDE DEF Go, Back
<1> QED BY <1>1, <1>2, <1>3, <1>4, <1>5 DEF Syscall, CalmCall

Driven == (\E t \in Line : Driver(t)) \/ keventd \/ (\E d \in Ldisc : tty_register_ldisc(d))
          \/ UNCHANGED vars

(* Neither the driver nor the work queue moves a process.                   *)
LEMMA DrivenFrame ==
  ASSUME TypeOK, Driven
  PROVE  /\ UNCHANGED <<pc, loc, env, idr>> /\ \A q \in Proc : file'[q].t = file[q].t
         /\ \/ Bkl(Worker) /\ ((\E t \in Line : do_tty_hangup(t)) \/ do_tty_hangup_end)
            \/ Calm /\ UNCHANGED <<bkl, file, ctty>>
<1>1. CASE \E t \in Line : do_tty_hangup(t)
  <2>1. \A q \in Proc : file'[q].t = file[q].t
    BY <1>1 DEF do_tty_hangup, hangup
  <2> QED BY <1>1, <2>1 DEF do_tty_hangup
<1>2. CASE do_tty_hangup_end
  BY <1>2 DEF do_tty_hangup_end
<1>3. CASE \/ \E t \in Line : Driver(t) \/ flush_to_ldisc(t) \/ __do_SAK(t)
           \/ flush_to_ldisc_end \/ (\E d \in Ldisc : tty_register_ldisc(d))
           \/ UNCHANGED vars
  <2>1. Calm
    BY <1>3, CalmDriver
  <2>2. UNCHANGED <<pc, loc, env, idr, file, bkl, ctty>>
    <3>1. ASSUME NEW t \in Line, Driver(t) PROVE UNCHANGED <<pc, loc, env, idr, file, bkl, ctty>>
      BY <3>1 DEF Driver, stop_tty, tty_flip_buffer_push, delayed_work, tty_hangup, do_SAK, Queue
    <3>2. ASSUME NEW t \in Line, flush_to_ldisc(t) \/ __do_SAK(t)
          PROVE  UNCHANGED <<pc, loc, env, idr, file, bkl, ctty>>
      BY <3>2 DEF flush_to_ldisc, __do_SAK
    <3>3. CASE flush_to_ldisc_end
      BY <3>3 DEF flush_to_ldisc_end
    <3>4. CASE (\E d \in Ldisc : tty_register_ldisc(d)) \/ UNCHANGED vars
      BY <3>4 DEF tty_register_ldisc, vars
    <3> QED BY <1>3, <3>1, <3>2, <3>3, <3>4
  <2> QED BY <2>1, <2>2
<1> QED BY <1>1, <1>2, <1>3 DEF Driven, keventd

(* A step is a call of some process, or none moves.                         *)
LEMMA Steps == [Next]_vars => (\E p \in Proc : Syscall(p)) \/ Driven
BY DEF Next, Driven

(* Who is at release_dev's counting, or on the way out.                     *)
LEMMA Arrivals ==
  ASSUME TypeOK, PlacedInv, NEW p \in Proc, Syscall(p)
  PROVE  /\ pc'[p] = "count" => release_dev_closing(p)
         /\ loc'[p].exit => \/ disassociate_ctty(p)
                            \/ loc[p].exit /\ (tty_vhangup(p) \/ tty_vhangup_end(p))
<1>t. /\ pc \in [Proc -> Place] /\ loc \in [Proc -> Locals] /\ loc[p] \in Locals /\ Spot(p)
  BY DEF TypeOK, PlacedInv, Placed
<1>l. NoLoc.exit = FALSE
  BY DEF NoLoc
<1>c. pc[p] = "count" => pc'[p] # "count"
  <2> SUFFICES ASSUME pc[p] = "count" PROVE pc'[p] # "count"
    OBVIOUS
  <2>1. release_dev_count(p)
    BY DEF Syscall, tty_open, ptmx_open, OpenFile, tty_open_end, tty_release, release_dev_closing,
       release_dev_flush, release_mem, tty_set_ldisc, tty_set_ldisc_lock, tty_set_ldisc_signal,
       tty_set_ldisc_open, tty_read, n_tty_read, tty_read_end, tty_write, do_tty_write,
       do_tty_write_end, tty_poll, tiocsti, tiocsctty, tiocspgrp, tiocnotty, tiocexcl, tioccons,
       InIoctl, tty_ldisc_ref_wait, disassociate_ctty, disassociate_ctty_end, tty_vhangup,
       tty_vhangup_end
  <2> QED BY <2>1, <1>t DEF release_dev_count, Go, Back
<1>1. pc'[p] = "count" => release_dev_closing(p)
  BY <1>c, <1>t DEF Syscall, tty_open, ptmx_open, OpenFile, tty_open_end, tty_release, driver_close,
     release_dev_count, Go, Back,
     release_dev_flush, release_mem, tty_set_ldisc, tty_set_ldisc_lock, tty_set_ldisc_signal,
     tty_set_ldisc_open, tty_read, n_tty_read, tty_read_end, tty_write, do_tty_write,
     do_tty_write_end, tty_poll, tiocsti, tiocsctty, tiocspgrp, tiocnotty, tiocexcl, tioccons,
     InIoctl, tty_ldisc_ref_wait, disassociate_ctty, disassociate_ctty_end, tty_vhangup,
     tty_vhangup_end
<1>2. loc[p].exit => disassociate_ctty(p) \/ disassociate_ctty_end(p) \/ tty_vhangup(p)
                     \/ tty_vhangup_end(p)
  <2> SUFFICES ASSUME loc[p].exit
      PROVE disassociate_ctty(p) \/ disassociate_ctty_end(p) \/ tty_vhangup(p) \/ tty_vhangup_end(p)
    OBVIOUS
  <2>1. pc[p] \in {"hangup", "hangup_end", "exit"}
    BY <1>t DEF Spot
  <2> QED BY <2>1
    DEF Syscall, tty_open, ptmx_open, OpenFile, tty_open_end, tty_release, release_dev_closing,
       release_dev_count, release_dev_flush, release_mem, tty_set_ldisc, tty_set_ldisc_lock, tty_set_ldisc_signal,
       tty_set_ldisc_open, tty_read, n_tty_read, tty_read_end, tty_write, do_tty_write,
       do_tty_write_end, tty_poll, tiocsti, tiocsctty, tiocspgrp, tiocnotty, tiocexcl, tioccons,
       InIoctl, tty_ldisc_ref_wait
<1>3. disassociate_ctty_end(p) => ~loc'[p].exit
  BY <1>t, <1>l DEF disassociate_ctty_end
<1>4. ~loc[p].exit => disassociate_ctty(p) \/ ~loc'[p].exit
  <2> SUFFICES ASSUME ~loc[p].exit, ~disassociate_ctty(p) PROVE ~loc'[p].exit
    OBVIOUS
  <2>0. CASE loc'[p] \in {loc[p], NoLoc}
    BY <2>0, <1>l
  <2>t. ASSUME NEW x, loc'[p] = [loc[p] EXCEPT !.t = x] PROVE ~loc'[p].exit
    BY <2>t, <1>t, LocalFields
  <2>1. CASE tty_open_end(p) \/ tty_release(p) \/ release_dev_count(p)
    <3>1. loc'[p] \in {loc[p], NoLoc, [loc[p] EXCEPT !.t = Link[file[p].t]],
                       [loc[p] EXCEPT !.t = file[p].t]}
      BY <2>1, <1>t DEF tty_open_end, tty_release, driver_close, release_dev_count, Back
    <3> QED BY <3>1, <2>0, <2>t
  <2>2. CASE tty_read(p) \/ tty_poll(p)
    <3>1. loc'[p] = [loc[p] EXCEPT !.t = file[p].t]
      BY <2>2, <1>t DEF tty_read, tty_poll
    <3> QED BY <3>1, <2>t
  <2>3. CASE tty_write(p)
    <3> DEFINE h == redirected_tty_write(p)
    <3>1. loc'[p] = [loc[p] EXCEPT !.t = file[h].t, !.via = h, !.left = Chunks]
      BY <2>3, <1>t DEF tty_write
    <3> QED BY <3>1, <1>t, LocalFields
  <2>4. CASE release_dev_closing(p)
    <3> DEFINE a == tty[file[p].t].count <= 1
               b == Link[file[p].t] # NULL
                    /\ tty[Link[file[p].t]].count <= IF file[p].t \in Master THEN 1 ELSE 0
    <3>1. loc'[p] = [loc[p] EXCEPT !.closing = a, !.o_closing = b]
      BY <2>4, <1>t DEF release_dev_closing
    <3> HIDE DEF a, b
    <3> QED BY <3>1, <1>t, LocalFields
  <2>5. ASSUME NEW d \in Ldisc, tty_set_ldisc(p, d) PROVE ~loc'[p].exit
    <3>1. loc'[p] = NoLoc \/ loc'[p] = [loc[p] EXCEPT !.d = d, !.o = tty[file[p].t].disc]
      BY <2>5, <1>t DEF tty_set_ldisc, Back
    <3>2. \A o : [loc[p] EXCEPT !.d = d, !.o = o].exit = loc[p].exit
      BY <1>t, LocalFields
    <3> QED BY <3>1, <3>2, <2>0
  <2>6. CASE tty_set_ldisc_lock(p)
    <3> DEFINE b == file[p].t \in timer
    <3>1. loc'[p] = loc[p] \/ loc'[p] = [loc[p] EXCEPT !.work = b]
      BY <2>6, <1>t DEF tty_set_ldisc_lock
    <3> HIDE DEF b
    <3>2. [loc[p] EXCEPT !.work = b].exit = loc[p].exit
      BY <1>t, LocalFields
    <3> QED BY <3>1, <3>2, <2>0
  <2>7. CASE do_tty_write(p)
    <3>1. loc'[p] = [loc[p] EXCEPT !.left = loc[p].left - 1]
      BY <2>7, <1>t DEF do_tty_write
    <3> QED BY <3>1, <1>t, LocalFields
  <2>8. CASE tty_vhangup(p)
    <3> DEFINE b == "LDISC" \in tty[loc[p].t].flags
    <3>1. loc'[p] = [loc[p] EXCEPT !.ref = b]
      BY <2>8, <1>t DEF tty_vhangup
    <3> HIDE DEF b
    <3> QED BY <3>1, <1>t, LocalFields
  <2>9. CASE \/ \E t \in Line : tty_open(p, t) \/ ptmx_open(p, t)
             \/ release_dev_flush(p) \/ release_mem(p) \/ tty_set_ldisc_signal(p)
             \/ tty_set_ldisc_open(p) \/ n_tty_read(p) \/ tty_read_end(p)
    <3>1. loc'[p] \in {loc[p], NoLoc}
      BY <2>9, <1>t DEF tty_open, ptmx_open, OpenFile, release_dev_flush, release_mem,
         tty_set_ldisc_signal, tty_set_ldisc_open, n_tty_read, tty_read_end, Back
    <3> QED BY <3>1, <2>0
  <2>10. CASE \/ do_tty_write_end(p) \/ tiocsti(p)
              \/ tiocsctty(p) \/ (\E g \in Proc : tiocspgrp(p, g)) \/ tiocnotty(p)
              \/ tiocexcl(p) \/ tioccons(p) \/ disassociate_ctty_end(p) \/ tty_vhangup_end(p)
    <3>1. loc'[p] \in {loc[p], NoLoc}
      BY <2>10, <1>t DEF do_tty_write_end, tiocsti, Back,
         tiocsctty, tiocspgrp, tiocnotty, tiocexcl, tioccons, disassociate_ctty_end, tty_vhangup_end
    <3> QED BY <3>1, <2>0
  <2> QED BY <2>1, <2>2, <2>3, <2>4, <2>5, <2>6, <2>7, <2>8, <2>9, <2>10 DEF Syscall
<1> QED BY <1>1, <1>2, <1>3, <1>4

(* The lock keeps the counts a process is closing by, and a leader that     *)
(* exits, where they are.                                                   *)
LEMMA LockStep ==
  ASSUME Gentle, TypeOK, PlacedInv, LockInv, [Next]_vars
  PROVE  LockInv'
<1>t. /\ pc \in [Proc -> Place] /\ loc \in [Proc -> Locals] /\ env \in Envs
      /\ \A q \in Proc : q # NULL /\ q # Worker /\ loc[q] \in Locals
                         /\ (file[q].t # NULL => file[q].t \in Line)
                         /\ (pc[q] = "count" => file[q].t # NULL)
      /\ \A t \in Line : Link[t] # NULL => Link[t] \in Line
  BY TtyAssumption DEF TypeOK, PlacedInv, Placed, Spot, OnFile, File
(* The counts do not move under a process that has judged them.             *)
<1>k. ASSUME NEW q \in Proc, pc[q] = "count", Calm, bkl' = bkl,
             pc'[q] = pc[q], loc'[q] = loc[q], file'[q].t = file[q].t
      PROVE  /\ bkl' = q
             /\ loc'[q].closing = (tty'[file'[q].t].count <= 1)
             /\ loc'[q].o_closing = (Link[file'[q].t] # NULL
                  /\ tty'[Link[file'[q].t]].count <= IF file'[q].t \in Master THEN 1 ELSE 0)
  <2>1. file[q].t \in Line /\ (Link[file[q].t] # NULL => Link[file[q].t] \in Line)
    BY <1>k, <1>t
  <2> DEFINE t == file[q].t
  <2>2. tty'[t].count = tty[t].count /\ (Link[t] # NULL => tty'[Link[t]].count = tty[Link[t]].count)
    BY <1>k, <2>1 DEF Calm, Alike
  <2>3. /\ bkl = q
        /\ loc[q].closing = (tty[t].count <= 1)
        /\ loc[q].o_closing = (Link[t] # NULL
             /\ tty[Link[t]].count <= IF t \in Master THEN 1 ELSE 0)
    BY <1>k DEF LockInv
  <2>4. (Link[t] # NULL /\ tty'[Link[t]].count <= IF t \in Master THEN 1 ELSE 0)
        = (Link[t] # NULL /\ tty[Link[t]].count <= IF t \in Master THEN 1 ELSE 0)
    BY <2>2
  <2> QED BY <1>k, <2>2, <2>3, <2>4
<1>1. ASSUME NEW p \in Proc, Syscall(p) PROVE LockInv'
  <2>f. /\ UNCHANGED <<killed, work, wk, env>>
        /\ \A q \in Proc : q # p => pc'[q] = pc[q] /\ loc'[q] = loc[q] /\ file'[q].t = file[q].t
        /\ Bkl(p) \/ (CalmCall(p) /\ UNCHANGED bkl)
    BY <1>1, CallFrame
  <2>c. ASSUME NEW q \in Proc, q # p, bkl = q PROVE Calm /\ UNCHANGED bkl
    <3>1. ~Bkl(p)
      BY <2>c, <1>t DEF Bkl
    <3> QED BY <2>f, <3>1, CalmCalls
  <2>1. ASSUME NEW q \in Proc, pc'[q] = "count"
        PROVE  /\ bkl' = q
               /\ loc'[q].closing = (tty'[file'[q].t].count <= 1)
               /\ loc'[q].o_closing = (Link[file'[q].t] # NULL
                    /\ tty'[Link[file'[q].t]].count <= IF file'[q].t \in Master THEN 1 ELSE 0)
    <3>1. CASE q # p
      BY <3>1, <2>1, <2>c, <2>f, <1>k DEF LockInv
    <3>2. CASE q = p
      <4> DEFINE a == tty[file[p].t].count <= 1
                 b == Link[file[p].t] # NULL
                      /\ tty[Link[file[p].t]].count <= IF file[p].t \in Master THEN 1 ELSE 0
      <4>1. release_dev_closing(p)
        BY <1>1, <2>1, <3>2, Arrivals
      <4>2. /\ loc'[p] = [loc[p] EXCEPT !.closing = a, !.o_closing = b]
            /\ bkl' = p /\ UNCHANGED <<tty, file>>
        BY <4>1, <1>t DEF release_dev_closing
      <4>3. a' = a /\ b' = b
        BY <4>2
      <4>4. \A c, d : [loc[p] EXCEPT !.closing = c, !.o_closing = d].closing = c
                      /\ [loc[p] EXCEPT !.closing = c, !.o_closing = d].o_closing = d
        BY <1>t DEF Locals
      <4>5. loc'[p].closing = a /\ loc'[p].o_closing = b
        <5> HIDE DEF a, b
        <5> QED BY <4>2, <4>4
      <4> QED BY <3>2, <4>2, <4>5
    <3> QED BY <3>1, <3>2
  <2>2. ASSUME NEW q \in Proc, loc'[q].exit PROVE bkl' = q /\ ~Op("SLEEP")'
    <3>1. CASE q # p
      BY <3>1, <2>2, <2>c, <2>f DEF LockInv, Op
    <3>2. CASE q = p
      <4>1. CASE disassociate_ctty(p)
        <5>1. bkl' = p /\ (Op("EXIT") \/ killed # {})
          BY <4>1 DEF disassociate_ctty
        <5>2. ~Op("SLEEP")
          BY <5>1, <1>t DEF LockInv, Gentle, Op
        <5> QED BY <5>1, <5>2, <2>f, <3>2 DEF Op
      <4>2. CASE loc[p].exit /\ (tty_vhangup(p) \/ tty_vhangup_end(p))
        <5>1. ~Op("SLEEP") /\ bkl = p
          BY <4>2 DEF LockInv
        <5>2. bkl' = p
          BY <4>2, <5>1 DEF tty_vhangup, tty_vhangup_end
        <5> QED BY <5>1, <5>2, <2>f, <3>2 DEF Op
      <4> QED BY <4>1, <4>2, <1>1, <2>2, <3>2, Arrivals
    <3> QED BY <3>1, <3>2
  <2> QED BY <2>1, <2>2, <2>f DEF LockInv, Op
<1>2. CASE Driven
  <2>f. /\ UNCHANGED <<pc, loc, env>> /\ \A q \in Proc : file'[q].t = file[q].t
        /\ Bkl(Worker) \/ (Calm /\ UNCHANGED bkl)
    BY <1>2, DrivenFrame
  <2>c. ASSUME NEW q \in Proc, bkl = q PROVE Calm /\ UNCHANGED bkl
    <3>1. ~Bkl(Worker)
      BY <2>c, <1>t DEF Bkl
    <3> QED BY <2>f, <3>1
  <2>1. ASSUME NEW q \in Proc, pc'[q] = "count"
        PROVE  /\ bkl' = q
               /\ loc'[q].closing = (tty'[file'[q].t].count <= 1)
               /\ loc'[q].o_closing = (Link[file'[q].t] # NULL
                    /\ tty'[Link[file'[q].t]].count <= IF file'[q].t \in Master THEN 1 ELSE 0)
    BY <2>1, <2>c, <2>f, <1>k DEF LockInv
  <2>2. ASSUME NEW q \in Proc, loc'[q].exit PROVE bkl' = q /\ ~Op("SLEEP")'
    BY <2>2, <2>c, <2>f DEF LockInv, Op
  <2>3. /\ killed' # {} => "SAK" \in env.ops
        /\ \A t \in Line : <<"SAK", t>> \in work' => "SAK" \in env.ops
        /\ \A t \in Line : <<"hangup", t>> \in work' => "CARRIER" \in env.ops
    <3> DEFINE Good(k, w) == /\ k # {} => "SAK" \in env.ops
                             /\ \A t \in Line : <<"SAK", t>> \in w => "SAK" \in env.ops
                             /\ \A t \in Line : <<"hangup", t>> \in w => "CARRIER" \in env.ops
    <3>0. Good(killed, work)
      BY DEF LockInv, Op
    <3>1. ASSUME NEW t \in Line, Driver(t) PROVE Good(killed', work')
      <4>1. CASE killed' = killed /\ (work' = work \/ work' = work \cup {<<"flip", t>>})
        BY <3>0, <4>1
      <4>2. CASE killed' = killed /\ work' = work \cup {<<"hangup", t>>} /\ "CARRIER" \in env.ops
        BY <3>0, <4>2
      <4>3. CASE killed' = killed /\ work' = work \cup {<<"SAK", t>>} /\ "SAK" \in env.ops
        BY <3>0, <4>3
      <4> HIDE DEF Good
      <4>4. CASE stop_tty(t) \/ tty_flip_buffer_push(t) \/ delayed_work(t)
        BY <4>1, <4>4 DEF stop_tty, tty_flip_buffer_push, delayed_work
      <4>5. CASE tty_hangup(t)
        BY <4>2, <4>5 DEF tty_hangup, Queue, Op
      <4>6. CASE do_SAK(t)
        BY <4>3, <4>6 DEF do_SAK, Queue, Op
      <4> QED BY <3>1, <4>4, <4>5, <4>6 DEF Driver
    <3>2. ASSUME NEW t \in Line, flush_to_ldisc(t) \/ do_tty_hangup(t)
          PROVE  Good(killed', work')
      <4>1. killed' = killed /\ work' \subseteq work
        BY <3>2 DEF flush_to_ldisc, do_tty_hangup
      <4> QED BY <4>1, <3>0
    <3>3. ASSUME NEW t \in Line, __do_SAK(t) PROVE Good(killed', work')
      <4>1. work' \subseteq work /\ <<"SAK", t>> \in work
        BY <3>3 DEF __do_SAK
      <4> QED BY <4>1, <3>0
    <3>4. CASE \/ flush_to_ldisc_end \/ do_tty_hangup_end
               \/ (\E d \in Ldisc : tty_register_ldisc(d)) \/ UNCHANGED vars
      <4>1. killed' = killed /\ work' = work
        BY <3>4 DEF flush_to_ldisc_end, do_tty_hangup_end, tty_register_ldisc, vars
      <4> QED BY <4>1, <3>0
    <3>5. \/ \E t \in Line : Driver(t)
          \/ \E t \in Line : (flush_to_ldisc(t) \/ do_tty_hangup(t)) \/ __do_SAK(t)
          \/ flush_to_ldisc_end \/ do_tty_hangup_end
          \/ (\E d \in Ldisc : tty_register_ldisc(d)) \/ UNCHANGED vars
      BY <1>2 DEF Driven, keventd
    <3> QED BY <3>1, <3>2, <3>3, <3>4, <3>5
  <2> QED BY <2>1, <2>2, <2>3, <2>f DEF LockInv, Op
<1> QED BY <1>1, <1>2, Steps

-----------------------------------------------------------------------------
(* The open files are counted, a tty being freed is deserted, and a         *)
(* controlling tty belongs to the session of its process.                   *)

(* What a call may begin to work on: the file of a process, the other side  *)
(* of its tty, or a controlling tty.                                        *)
Within(t, p) ==
  \/ t = NULL \/ t = loc[p].t
  \/ \E q \in Proc : t = file[q].t \/ t = ctty[q] \/ (file[q].t # NULL /\ t = Link[file[q].t])

(* A call that frees a tty has counted the last close of it.                *)
LEMMA LocalMoves ==
  ASSUME TypeOK, PlacedInv, NEW p \in Proc, Syscall(p)
  PROVE  /\ Within(loc'[p].t, p)
         /\ pc'[p] \in {"flush", "free"} =>
              release_dev_count(p) \/ (pc[p] \in {"flush", "free"} /\ loc'[p].t = loc[p].t)
<1>t. /\ pc \in [Proc -> Place] /\ loc \in [Proc -> Locals] /\ loc[p] \in Locals /\ Spot(p)
  BY DEF TypeOK, PlacedInv, Placed
<1>l. NoLoc.t = NULL
  BY DEF NoLoc
<1>o. file[p].t # NULL => Within(file[p].t, p) /\ Within(Link[file[p].t], p)
  BY DEF Within
<1>w. Within(NULL, p) /\ Within(loc[p].t, p) /\ Within(ctty[p], p) /\ Within(file[p].t, p)
  BY DEF Within
<1>1. Within(loc'[p].t, p)
  <2>0. CASE loc'[p] \in {loc[p], NoLoc}
    BY <2>0, <1>l, <1>w
  <2>t. ASSUME NEW x, Within(x, p), loc'[p] = [loc[p] EXCEPT !.t = x] PROVE Within(loc'[p].t, p)
    <3>1. loc'[p].t = x
      BY <2>t, <1>t, LocalFields
    <3> QED BY <3>1, <2>t
  <2>k. ASSUME loc'[p].t = loc[p].t PROVE Within(loc'[p].t, p)
    BY <2>k, <1>w
  <2>1. CASE tty_open_end(p) \/ tty_release(p) \/ release_dev_count(p)
    <3>1. file[p].t # NULL
      BY <2>1, <1>t DEF Spot, OnFile, tty_open_end, tty_release, release_dev_count
    <3>2. \/ loc'[p] \in {loc[p], NoLoc} \/ loc'[p] = [loc[p] EXCEPT !.t = Link[file[p].t]]
          \/ loc'[p] = [loc[p] EXCEPT !.t = file[p].t]
      BY <2>1, <1>t DEF tty_open_end, tty_release, driver_close, release_dev_count, Back
    <3> QED BY <3>1, <3>2, <2>0, <2>t, <1>o
  <2>2. CASE tty_read(p) \/ tty_poll(p)
    <3>1. loc'[p] = [loc[p] EXCEPT !.t = file[p].t]
      BY <2>2, <1>t DEF tty_read, tty_poll
    <3> QED BY <3>1, <2>t, <1>w
  <2>3. CASE tty_write(p)
    <3> DEFINE h == redirected_tty_write(p)
    <3>1. loc'[p] = [loc[p] EXCEPT !.t = file[h].t, !.via = h, !.left = Chunks]
      BY <2>3, <1>t DEF tty_write
    <3>2. h \in Proc
      BY DEF TypeOK, redirected_tty_write
    <3> HIDE DEF h
    <3>3. loc'[p].t = file[h].t
      BY <3>1, <1>t, LocalFields
    <3> QED BY <3>2, <3>3 DEF Within
  <2>4. CASE release_dev_closing(p)
    <3> DEFINE a == tty[file[p].t].count <= 1
               b == Link[file[p].t] # NULL
                    /\ tty[Link[file[p].t]].count <= IF file[p].t \in Master THEN 1 ELSE 0
    <3>1. loc'[p] = [loc[p] EXCEPT !.closing = a, !.o_closing = b]
      BY <2>4, <1>t DEF release_dev_closing
    <3> HIDE DEF a, b
    <3> QED BY <3>1, <1>t, <2>k, LocalFields
  <2>5. ASSUME NEW d \in Ldisc, tty_set_ldisc(p, d) PROVE Within(loc'[p].t, p)
    <3>1. loc'[p] = NoLoc \/ loc'[p] = [loc[p] EXCEPT !.d = d, !.o = tty[file[p].t].disc]
      BY <2>5, <1>t DEF tty_set_ldisc, Back
    <3>2. \A o : [loc[p] EXCEPT !.d = d, !.o = o].t = loc[p].t
      BY <1>t, LocalFields
    <3> QED BY <3>1, <3>2, <2>0, <2>k
  <2>6. CASE tty_set_ldisc_lock(p)
    <3> DEFINE b == file[p].t \in timer
    <3>1. loc'[p] = loc[p] \/ loc'[p] = [loc[p] EXCEPT !.work = b]
      BY <2>6, <1>t DEF tty_set_ldisc_lock
    <3> HIDE DEF b
    <3>2. [loc[p] EXCEPT !.work = b].t = loc[p].t
      BY <1>t, LocalFields
    <3> QED BY <3>1, <3>2, <2>0, <2>k
  <2>7. CASE do_tty_write(p)
    <3>1. loc'[p] = [loc[p] EXCEPT !.left = loc[p].left - 1]
      BY <2>7, <1>t DEF do_tty_write
    <3> QED BY <3>1, <1>t, <2>k, LocalFields
  <2>8. CASE tty_vhangup(p)
    <3> DEFINE b == "LDISC" \in tty[loc[p].t].flags
    <3>1. loc'[p] = [loc[p] EXCEPT !.ref = b]
      BY <2>8, <1>t DEF tty_vhangup
    <3> HIDE DEF b
    <3> QED BY <3>1, <1>t, <2>k, LocalFields
  <2>9. CASE tty_vhangup_end(p)
    <3>1. loc'[p] = NoLoc \/ loc'[p] = [loc[p] EXCEPT !.ref = FALSE]
      BY <2>9, <1>t DEF tty_vhangup_end
    <3>2. \A b : [loc[p] EXCEPT !.ref = b].t = loc[p].t
      BY <1>t, LocalFields
    <3> QED BY <3>1, <3>2, <2>0, <2>k
  <2>10. CASE disassociate_ctty(p)
    <3>1. loc'[p] = [loc[p] EXCEPT !.t = ctty[p], !.exit = TRUE]
      BY <2>10, <1>t DEF disassociate_ctty
    <3>2. loc'[p].t = ctty[p]
      BY <3>1, <1>t, LocalFields
    <3> QED BY <3>2, <1>w
  <2>11. CASE \/ \E t \in Line : tty_open(p, t) \/ ptmx_open(p, t)
             \/ release_dev_flush(p) \/ release_mem(p) \/ tty_set_ldisc_signal(p)
             \/ tty_set_ldisc_open(p) \/ n_tty_read(p) \/ tty_read_end(p)
    <3>1. loc'[p] \in {loc[p], NoLoc}
      BY <2>11, <1>t DEF tty_open, ptmx_open, OpenFile, release_dev_flush, release_mem,
         tty_set_ldisc_signal, tty_set_ldisc_open, n_tty_read, tty_read_end, Back
    <3> QED BY <3>1, <2>0
  <2>12. CASE \/ do_tty_write_end(p) \/ tiocsti(p)
              \/ tiocsctty(p) \/ (\E g \in Proc : tiocspgrp(p, g)) \/ tiocnotty(p)
              \/ tiocexcl(p) \/ tioccons(p) \/ disassociate_ctty_end(p)
    <3>1. loc'[p] \in {loc[p], NoLoc}
      BY <2>12, <1>t DEF do_tty_write_end, tiocsti, Back,
         tiocsctty, tiocspgrp, tiocnotty, tiocexcl, tioccons, disassociate_ctty_end
    <3> QED BY <3>1, <2>0
  <2> QED BY <2>1, <2>2, <2>3, <2>4, <2>5, <2>6, <2>7, <2>8, <2>9, <2>10, <2>11, <2>12
      DEF Syscall
<1>2. ASSUME pc'[p] \in {"flush", "free"}
      PROVE  release_dev_count(p) \/ (pc[p] \in {"flush", "free"} /\ loc'[p].t = loc[p].t)
  <2>1. CASE pc[p] \in {"flush", "free"}
    <3>1. release_dev_flush(p) \/ release_mem(p)
      BY <2>1
         DEF Syscall, tty_open, ptmx_open, OpenFile, tty_open_end, tty_release, release_dev_closing,
         release_dev_count, tty_set_ldisc, tty_set_ldisc_lock, tty_set_ldisc_signal,
         tty_set_ldisc_open, tty_read, n_tty_read, tty_read_end, tty_write, do_tty_write,
         do_tty_write_end, tty_poll, tiocsti, tiocsctty, tiocspgrp, tiocnotty, tiocexcl, tioccons,
         InIoctl, tty_ldisc_ref_wait, disassociate_ctty, disassociate_ctty_end, tty_vhangup,
         tty_vhangup_end
    <3>2. ~release_mem(p)
      BY <1>2, <1>t DEF release_mem, Go, Back
    <3> QED BY <2>1, <3>1, <3>2 DEF release_dev_flush
  <2>2. CASE pc[p] \notin {"flush", "free"}
    BY <2>2, <1>2, <1>t DEF Syscall, tty_open, ptmx_open, OpenFile, tty_open_end, tty_release,
       driver_close, release_dev_closing, Go, Back,
       release_dev_flush, release_mem, tty_set_ldisc, tty_set_ldisc_lock, tty_set_ldisc_signal,
       tty_set_ldisc_open, tty_read, n_tty_read, tty_read_end, tty_write, do_tty_write,
       do_tty_write_end, tty_poll, tiocsti, tiocsctty, tiocspgrp, tiocnotty, tiocexcl, tioccons,
       InIoctl, tty_ldisc_ref_wait, disassociate_ctty, disassociate_ctty_end, tty_vhangup,
       tty_vhangup_end
  <2> QED BY <2>1, <2>2
<1> QED BY <1>1, <1>2

(* Nothing changes in the counts while no file moves.                       *)
LEMMA CountKept ==
  ASSUME TypeOK, CountInv, \A q \in Proc : file'[q].t = file[q].t,
         \A x \in Line : tty'[x].live = tty[x].live /\ tty'[x].count = tty[x].count
  PROVE  CountInv'
<1>1. \A x : Files(x)' = Files(x) /\ OnMaster(x)' = OnMaster(x)
  BY DEF Files, OnMaster
<1>2. \A q \in Proc : file[q].t # NULL => file[q].t \in Line
  BY DEF TypeOK, File
<1>3. \A x \in Line : Link[x] # NULL => Link[x] \in Line
  BY TtyAssumption
<1> QED BY <1>1, <1>2, <1>3 DEF CountInv

(* Nobody comes back to a tty that is about to be freed.                    *)
LEMMA CloseKept ==
  ASSUME TypeOK, PlacedInv, CloseInv, \A q \in Proc : file'[q].t = file[q].t,
         \A x \in Line : tty'[x].live = tty[x].live,
         \A q \in Proc, x \in Line :
           pc[q] \in {"flush", "free"} /\ Side(x, loc[q].t) /\ Barred(x) => Barred(x)',
         \A q \in Proc : ctty'[q] \in {NULL, ctty[q]} \/ \E r \in Proc : ctty'[q] = file[r].t,
         \A q \in Proc : Within(loc'[q].t, q),
         \A q \in Proc : pc'[q] \in {"flush", "free"} =>
           pc[q] \in {"flush", "free"} /\ loc'[q].t = loc[q].t
  PROVE  CloseInv'
<1> SUFFICES ASSUME NEW p \in Proc, pc'[p] \in {"flush", "free"},
                    NEW x \in Line, Side(x, loc'[p].t)
             PROVE  Deserted(p, x)'
  BY DEF CloseInv, Side
<1>1. pc[p] \in {"flush", "free"} /\ Side(x, loc[p].t)
  OBVIOUS
<1>2. Deserted(p, x)
  BY <1>1 DEF CloseInv
<1>3. x # NULL /\ (\A q \in Proc : file[q].t # x /\ ctty[q] # x)
  BY <1>2, TtyAssumption DEF Deserted, Files
<1>4. \A q \in Proc : file[q].t # NULL => Link[file[q].t] # x
  <2> SUFFICES ASSUME NEW q \in Proc, file[q].t # NULL, Link[file[q].t] = x PROVE FALSE
    OBVIOUS
  <2>1. file[q].t \in Line /\ Link[x] = file[q].t
    BY <1>3, TtyAssumption DEF TypeOK, File
  <2>2. Side(file[q].t, loc[p].t)
    <3>1. loc[p].t \in Line \cup {NULL}
      BY DEF TypeOK, Locals
    <3>2. CASE x = loc[p].t
      BY <2>1, <3>2 DEF Side
    <3>3. CASE x = Link[loc[p].t] /\ loc[p].t \in Line
      BY <2>1, <3>3, <1>3, TtyAssumption DEF Side
    <3>4. loc[p].t # NULL
      BY <1>1 DEF PlacedInv, Placed, Spot
    <3> QED BY <3>1, <3>2, <3>3, <3>4, <1>1 DEF Side
  <2>3. Deserted(p, file[q].t)
    BY <2>1, <2>2, <1>1 DEF CloseInv
  <2> QED BY <2>3 DEF Deserted, Files
<1>5. \A q \in Proc : ctty'[q] # x /\ (q # p => loc'[q].t # x)
  BY <1>2, <1>3, <1>4 DEF Deserted, Within
<1>6. Files(x)' = {} /\ tty'[x].live /\ Barred(x)'
  BY <1>1, <1>2 DEF Deserted, Files
<1> QED BY <1>5, <1>6 DEF Deserted

(* The owner of a controlling tty stays while the sessions do.              *)
LEMMA CttyKept ==
  ASSUME TypeOK, CttyInv,
         \A x \in Line : /\ tty'[x].live = tty[x].live /\ tty'[x].session = tty[x].session
                         /\ tty'[x].pgrp = tty[x].pgrp,
         \A q \in Proc : ctty'[q] \in {NULL, ctty[q]},
         \A q \in Proc : loc'[q].exit =>
           loc'[q].t \in Line /\ \/ loc[q].exit /\ loc'[q].t = loc[q].t
                                 \/ ctty[q] = loc'[q].t
  PROVE  CttyInv'
<1>t. NULL \notin Line /\ \A q \in Proc : ctty[q] \in Line \cup {NULL}
  BY TtyAssumption DEF TypeOK
<1>1. CttySound'
  BY <1>t DEF CttyInv, CttySound
<1>2. ASSUME NEW q \in Proc, loc'[q].exit PROVE Leaving(q)'
  <2>1. CASE loc[q].exit /\ loc'[q].t = loc[q].t
    BY <1>2, <2>1, <1>t DEF CttyInv, Leaving
  <2>2. CASE ctty[q] = loc'[q].t
    BY <1>2, <2>2, <1>t DEF CttyInv, CttySound, Leaving
  <2> QED BY <1>2, <2>1, <2>2
<1> QED BY <1>1, <1>2 DEF CttyInv

(* A step that counts nothing, bars and unbars nothing and gives no tty to  *)
(* anybody keeps every tty at home.                                         *)
Still == \A x \in Line : /\ tty'[x].live = tty[x].live /\ tty'[x].count = tty[x].count
                         /\ tty'[x].session = tty[x].session /\ tty'[x].pgrp = tty[x].pgrp
                         /\ "CLOSING" \in tty'[x].flags <=> "CLOSING" \in tty[x].flags

(* Such a step keeps every tty at home.                                     *)
LEMMA StillKeeps ==
  ASSUME TypeOK, PlacedInv, HomeInv, Still, env' = env, UNCHANGED ctty,
         \A q \in Proc : file'[q].t = file[q].t,
         \A q \in Proc : Within(loc'[q].t, q),
         \A q \in Proc : pc'[q] \in {"flush", "free"} =>
           pc[q] \in {"flush", "free"} /\ loc'[q].t = loc[q].t,
         \A q \in Proc : loc'[q].exit =>
           loc'[q].t \in Line /\ \/ loc[q].exit /\ loc'[q].t = loc[q].t
                                 \/ ctty[q] = loc'[q].t
  PROVE  HomeInv'
<1>1. CountInv'
  BY CountKept DEF HomeInv, Still
<1>2. CloseInv'
  <2>1. \A q \in Proc, x \in Line :
          pc[q] \in {"flush", "free"} /\ Side(x, loc[q].t) /\ Barred(x) => Barred(x)'
    BY DEF Still, Barred, Op
  <2> QED BY <2>1, CloseKept DEF HomeInv, Still
<1>3. CttyInv'
  BY CttyKept DEF HomeInv, Still
<1> QED BY <1>1, <1>2, <1>3 DEF HomeInv

(* A hangup takes the tty from its session.                                 *)
LEMMA HangupCtty ==
  ASSUME TypeOK, CttyInv, NEW t \in Line,
         \A x \in Line : /\ tty'[x].live = tty[x].live /\ (x # t => tty'[x] = tty[x])
                         /\ x = t => tty'[x].session = 0 /\ tty'[x].pgrp = NULL,
         \A q \in Proc : ctty'[q] = IF ctty[q] = t /\ Session[q] = tty[t].session
                                    THEN NULL ELSE ctty[q],
         \A q \in Proc : loc'[q].exit => loc'[q].t \in Line /\ loc[q].exit /\ loc'[q].t = loc[q].t
  PROVE  CttyInv'
<1>t. NULL \notin Line /\ \A q \in Proc : ctty[q] \in Line \cup {NULL}
  BY TtyAssumption DEF TypeOK
<1>1. \A q \in Proc : ctty'[q] # NULL => ctty'[q] = ctty[q] /\ ctty[q] # t
  BY DEF CttyInv, CttySound
<1>2. CttySound'
  <2>1. \A q \in Proc : ctty'[q] # NULL =>
          tty'[ctty'[q]].live /\ tty'[ctty'[q]].session = Session[q]
    BY <1>1, <1>t DEF CttyInv, CttySound
  <2>2. \A x \in Line : tty'[x].pgrp # NULL => Session[tty'[x].pgrp] = tty'[x].session
    BY DEF CttyInv, CttySound
  <2> QED BY <2>1, <2>2 DEF CttySound
<1>3. ASSUME NEW q \in Proc, loc'[q].exit PROVE Leaving(q)'
  BY <1>1, <1>3, <1>t DEF CttyInv, Leaving
<1> QED BY <1>2, <1>3 DEF CttyInv

(* The steps of the driver and the work queue.                              *)
LEMMA HomeDriven ==
  ASSUME TypeOK, PlacedInv, LockInv, HomeInv, Driven
  PROVE  HomeInv'
<1>f. UNCHANGED <<pc, loc, env>> /\ \A q \in Proc : file'[q].t = file[q].t
  BY DrivenFrame
<1>w. \A q \in Proc : Within(loc'[q].t, q) /\ (loc'[q].exit => loc'[q].t \in Line)
  <2>1. \A q \in Proc : loc[q].exit => loc[q].t \in Line
    BY OnLine DEF PlacedInv, Placed, Spot
  <2> QED BY <2>1, <1>f DEF Within
<1>1. CASE Still /\ UNCHANGED ctty
  BY <1>1, <1>f, <1>w, StillKeeps
<1>2. CASE Calm /\ UNCHANGED ctty
  BY <1>1, <1>2 DEF Calm, Alike, Still
<1>3. CASE do_tty_hangup_end
  <2>1. wk.t \in Line /\ wk.ld \in BOOLEAN /\ hangup_end(wk.t, wk.ld) /\ UNCHANGED ctty
    BY <1>3 DEF do_tty_hangup_end, TypeOK
  <2>2. Still
    BY <2>1, HangupEndEffect DEF Still
  <2> QED BY <2>1, <2>2, <1>1
<1>4. ASSUME NEW t \in Line, do_tty_hangup(t) PROVE HomeInv'
  <2>1. hangup(t) /\ Op("CARRIER")
    BY <1>4 DEF do_tty_hangup, LockInv
  <2>2. \A x \in Line : /\ tty'[x].live = tty[x].live /\ tty'[x].count = tty[x].count
                        /\ x # t => tty'[x] = tty[x]
                        /\ x = t => tty'[x].session = 0 /\ tty'[x].pgrp = NULL
    BY <2>1, HangupEffect
  <2>3. \A q \in Proc : ctty'[q] = IF ctty[q] = t /\ Session[q] = tty[t].session
                                   THEN NULL ELSE ctty[q]
    BY <2>1 DEF hangup
  <2>4. CountInv'
    BY <2>2, <1>f, CountKept DEF HomeInv
  <2>5. CloseInv'
    <3>1. \A x : Barred(x)'
      BY <2>1, <1>f DEF Barred, Op
    <3> QED BY <3>1, <2>2, <2>3, <1>f, <1>w, CloseKept DEF HomeInv
  <2>6. CttyInv'
    BY <2>2, <2>3, <1>f, <1>w, HangupCtty DEF HomeInv
  <2> QED BY <2>4, <2>5, <2>6 DEF HomeInv
<1> QED BY <1>2, <1>3, <1>4, DrivenFrame

(* The calls that leave every tty to its owner.                             *)
LEMMA HomeStill ==
  ASSUME TypeOK, PlacedInv, LockInv, HomeInv, NEW p \in Proc, Syscall(p),
         \/ CalmCall(p) \/ tty_set_ldisc_lock(p) \/ tty_set_ldisc_open(p) \/ tty_vhangup_end(p)
         \/ tty_open_end(p) /\ UNCHANGED <<tty, ctty>>
  PROVE  HomeInv'
<1>f. /\ env' = env
      /\ \A q \in Proc : q # p => pc'[q] = pc[q] /\ loc'[q] = loc[q] /\ file'[q].t = file[q].t
  BY CallFrame
<1>1. UNCHANGED <<file, ctty>> /\ ~release_dev_count(p)
  <2>1. ~release_dev_count(p)
    <3>1. pc[p] # "count"
      BY DEF CalmCall, tty_release, release_dev_closing, release_dev_flush, tty_set_ldisc,
         tty_set_ldisc_signal, tty_read, n_tty_read, tty_read_end, tty_write, do_tty_write,
         do_tty_write_end, tty_poll, tiocsti, tiocexcl, tioccons, disassociate_ctty,
         tty_ldisc_ref_wait, InIoctl, tty_set_ldisc_lock, tty_set_ldisc_open, tty_open_end,
         tty_vhangup_end
    <3> QED BY <3>1 DEF release_dev_count
  <2>2. UNCHANGED <<file, ctty>>
    BY DEF CalmCall, tty_release, release_dev_closing, release_dev_flush, tty_set_ldisc,
       tty_set_ldisc_signal, tty_read, n_tty_read, tty_read_end, tty_write, do_tty_write,
       do_tty_write_end, tty_poll, tiocsti, tiocexcl, tioccons, disassociate_ctty,
       tty_set_ldisc_lock, tty_set_ldisc_open, tty_open_end, tty_vhangup_end
  <2> QED BY <2>1, <2>2
<1>2. Still
  <2>1. CASE CalmCall(p)
    BY <2>1, CalmCalls DEF Calm, Alike, Still
  <2>2. CASE tty_set_ldisc_lock(p)
    <3>1. file[p].t \in Line
      BY <2>2, OnLine DEF tty_set_ldisc_lock, OnFile
    <3> QED BY <2>2, <3>1, LockEffect DEF Still
  <2>3. CASE tty_set_ldisc_open(p)
    <3>1. file[p].t \in Line
      BY <2>3, OnLine DEF tty_set_ldisc_open, OnFile
    <3> QED BY <2>3, <3>1, SetEffect DEF Still
  <2>4. CASE tty_vhangup_end(p)
    <3>1. loc[p].t \in Line /\ loc[p].ref \in BOOLEAN /\ hangup_end(loc[p].t, loc[p].ref)
      BY <2>4, OnLine DEF tty_vhangup_end, TypeOK, Locals
    <3> QED BY <3>1, HangupEndEffect DEF Still
  <2>5. CASE UNCHANGED tty
    BY <2>5 DEF Still
  <2> QED BY <2>1, <2>2, <2>3, <2>4, <2>5
<1>3. \A q \in Proc : Within(loc'[q].t, q)
  BY <1>f, LocalMoves DEF Within
<1>4. \A q \in Proc : pc'[q] \in {"flush", "free"} =>
        pc[q] \in {"flush", "free"} /\ loc'[q].t = loc[q].t
  BY <1>f, <1>1, LocalMoves
<1>5. ASSUME NEW q \in Proc, loc'[q].exit
      PROVE  loc'[q].t \in Line /\ \/ loc[q].exit /\ loc'[q].t = loc[q].t
                                   \/ ctty[q] = loc'[q].t
  <2>0. loc[q].exit => loc[q].t \in Line
    BY OnLine DEF PlacedInv, Placed, Spot
  <2>1. CASE q # p
    BY <2>0, <2>1, <1>5, <1>f
  <2>2. CASE q = p /\ disassociate_ctty(p)
    <3>1. loc'[p] = [loc[p] EXCEPT !.t = ctty[p], !.exit = TRUE] /\ ctty[p] \in Line
      BY <2>2 DEF disassociate_ctty, TypeOK
    <3>2. loc'[p].t = ctty[p]
      BY <3>1, LocalFields DEF TypeOK
    <3> QED BY <3>1, <3>2, <2>2
  <2>3. CASE q = p /\ loc[p].exit /\ tty_vhangup_end(p)
    <3>1. loc'[p] = [loc[p] EXCEPT !.ref = FALSE]
      BY <2>3 DEF tty_vhangup_end, TypeOK
    <3>2. loc'[p].t = loc[p].t
      BY <3>1, LocalFields DEF TypeOK
    <3> QED BY <3>2, <2>0, <2>3
  <2>4. ~tty_vhangup(p)
    BY <1>1 DEF tty_vhangup, tty_vhangup_end, CalmCall, tty_release, release_dev_closing, release_dev_flush, tty_set_ldisc,
         tty_set_ldisc_signal, tty_read, n_tty_read, tty_read_end, tty_write, do_tty_write,
         do_tty_write_end, tty_poll, tiocsti, tiocexcl, tioccons, disassociate_ctty,
         tty_ldisc_ref_wait, InIoctl, tty_set_ldisc_lock, tty_set_ldisc_open, tty_open_end
  <2> QED BY <2>1, <2>2, <2>3, <2>4, <1>5, Arrivals
<1> QED BY <1>1, <1>2, <1>3, <1>4, <1>5, <1>f, StillKeeps

(* A call that takes the big kernel lock is not interrupted by a leader on  *)
(* its way out.                                                             *)
LEMMA NoneLeaves ==
  ASSUME TypeOK, LockInv, NEW p \in Proc, Bkl(p), NEW q \in Proc, loc[q].exit
  PROVE  q = p
BY TtyAssumption DEF LockInv, Bkl

(* A hangup by a process.                                                   *)
LEMMA HomeHangup ==
  ASSUME TypeOK, PlacedInv, LockInv, HomeInv, NEW p \in Proc, tty_vhangup(p)
  PROVE  HomeInv'
<1> DEFINE t == loc[p].t
           b == "LDISC" \in tty[t].flags
<1>s. Syscall(p)
  BY DEF Syscall
<1>f. /\ env' = env
      /\ \A q \in Proc : q # p => pc'[q] = pc[q] /\ loc'[q] = loc[q] /\ file'[q].t = file[q].t
  BY <1>s, CallFrame
<1>1. t \in Line /\ hangup(t) /\ pc[p] = "hangup" /\ pc'[p] = "hangup_end"
  BY OnLine DEF tty_vhangup, Go, TypeOK
<1>2. \A x \in Line : /\ tty'[x].live = tty[x].live /\ tty'[x].count = tty[x].count
                      /\ x # t => tty'[x] = tty[x]
                      /\ x = t => tty'[x].session = 0 /\ tty'[x].pgrp = NULL
  BY <1>1, HangupEffect
<1>3. \A q \in Proc : /\ file'[q].t = file[q].t
                      /\ ctty'[q] = IF ctty[q] = t /\ Session[q] = tty[t].session
                                    THEN NULL ELSE ctty[q]
  BY <1>1 DEF hangup
<1>4. loc'[p].t = t /\ loc'[p].exit = loc[p].exit
  <2>1. loc'[p] = [loc[p] EXCEPT !.ref = b]
    BY DEF tty_vhangup, TypeOK
  <2> HIDE DEF b
  <2> QED BY <2>1, LocalFields DEF TypeOK
<1>5. CountInv'
  BY <1>2, <1>3, CountKept DEF HomeInv
<1>6. CloseInv'
  <2>1. ASSUME NEW q \in Proc, NEW x \in Line, pc[q] \in {"flush", "free"}, Side(x, loc[q].t),
               Barred(x)
        PROVE  Barred(x)'
    <3>1. Deserted(q, x) /\ q # p
      BY <2>1, <1>1 DEF HomeInv, CloseInv
    <3>2. x # t
      BY <3>1 DEF Deserted
    <3> QED BY <2>1, <3>2, <1>2, <1>f DEF Barred, Op
  <2>2. \A q \in Proc : Within(loc'[q].t, q)
    BY <1>f, <1>4 DEF Within
  <2>3. \A q \in Proc : pc'[q] \in {"flush", "free"} =>
          pc[q] \in {"flush", "free"} /\ loc'[q].t = loc[q].t
    BY <1>1, <1>f
  <2> HIDE DEF t
  <2> QED BY <2>1, <2>2, <2>3, <1>2, <1>3, CloseKept DEF HomeInv
<1>7. CttyInv'
  <2>1. \A q \in Proc : loc'[q].exit => loc'[q].t \in Line /\ loc[q].exit /\ loc'[q].t = loc[q].t
    <3>1. \A q \in Proc : loc[q].exit => loc[q].t \in Line
      BY OnLine DEF PlacedInv, Placed, Spot
    <3> QED BY <3>1, <1>4, <1>f
  <2> HIDE DEF t
  <2> QED BY <2>1, <1>1, <1>2, <1>3, HangupCtty DEF HomeInv
<1> QED BY <1>5, <1>6, <1>7 DEF HomeInv

(* Who owns a tty changes, and nothing else.                                *)
LEMMA HomeOwner ==
  ASSUME TypeOK, PlacedInv, HomeInv, UNCHANGED file, env' = env,
         \A x \in Line : Owner(tty[x], tty'[x]),
         \A q \in Proc : ctty'[q] \in {NULL, ctty[q], file[q].t},
         \A q \in Proc : loc'[q] \in {loc[q], NoLoc},
         \A q \in Proc : pc'[q] \in {"flush", "free"} =>
           pc[q] \in {"flush", "free"} /\ loc'[q].t = loc[q].t,
         CttyInv'
  PROVE  HomeInv'
<1>1. NoLoc.t = NULL
  BY DEF NoLoc
<1>2. CountInv'
  BY CountKept DEF HomeInv, Owner
<1>3. CloseInv'
  <2>1. \A q \in Proc, x \in Line :
          pc[q] \in {"flush", "free"} /\ Side(x, loc[q].t) /\ Barred(x) => Barred(x)'
    BY DEF Owner, Barred, Op
  <2>2. \A q \in Proc : Within(loc'[q].t, q)
    BY <1>1 DEF Within
  <2>3. /\ \A x \in Line : tty'[x].live = tty[x].live
        /\ \A q \in Proc : ctty'[q] \in {NULL, ctty[q]} \/ \E r \in Proc : ctty'[q] = file[r].t
    BY DEF Owner
  <2> QED BY <2>1, <2>2, <2>3, CloseKept DEF HomeInv
<1> QED BY <1>2, <1>3 DEF HomeInv

SetOwner(t, s, g) ==
  tty' = [tty EXCEPT ![t] = [tty[t] EXCEPT !.session = s, !.pgrp = g]]

(* The owner of one tty is set.                                             *)
LEMMA OwnerStep ==
  ASSUME TypeOK, NEW t \in Line, NEW s \in Nat, NEW g \in Proc \cup {NULL},
         SetOwner(t, s, g), NEW x \in Line
  PROVE  /\ Owner(tty[x], tty'[x])
         /\ x = t => tty'[x].session = s /\ tty'[x].pgrp = g
         /\ x # t => tty'[x].session = tty[x].session /\ tty'[x].pgrp = tty[x].pgrp
<1> DEFINE r == [tty[t] EXCEPT !.session = s, !.pgrp = g]
<1>1. tty[x] \in TtyStruct /\ tty[t] \in TtyStruct
  BY DEF TypeOK
<1>2. r.session = s /\ r.pgrp = g /\ Owner(tty[t], r)
  BY <1>1 DEF TtyStruct, Owner
<1>3. tty'[x] = IF x = t THEN r ELSE tty[x]
  BY DEF TypeOK, SetOwner
<1> HIDE DEF r
<1> QED BY <1>2, <1>3 DEF Owner

(* A leader takes the tty it has a file on: its session owns it, and nobody *)
(* of another session has it left.                                          *)
LEMMA HomeTakes ==
  ASSUME TypeOK, PlacedInv, LockInv, HomeInv, NEW p \in Proc, Bkl(p), file[p].t # NULL,
         UNCHANGED <<file, loc, env>>, pc'[p] = "user",
         \A q \in Proc : q # p => pc'[q] = pc[q],
         tty' = [tty EXCEPT ![file[p].t] = [tty[file[p].t] EXCEPT !.session = Session[p],
                                                                  !.pgrp = p]],
         ctty'[p] = file[p].t,
         \A q \in Proc : q # p => ctty'[q] \in {NULL, ctty[q]} /\ ctty'[q] # file[p].t
  PROVE  HomeInv'
<1> DEFINE t == file[p].t
<1>1. t \in Line /\ NULL \notin Line /\ Session[p] \in Nat /\ p \in Proc \cup {NULL}
  BY OnLine, TtyAssumption
<1>2. \A x \in Line : /\ Owner(tty[x], tty'[x])
                      /\ x = t => tty'[x].session = Session[p] /\ tty'[x].pgrp = p
                      /\ x # t => tty'[x].session = tty[x].session /\ tty'[x].pgrp = tty[x].pgrp
  <2>1. SetOwner(t, Session[p], p)
    BY DEF SetOwner
  <2> HIDE DEF t
  <2>2. ASSUME NEW x \in Line
        PROVE  /\ Owner(tty[x], tty'[x])
               /\ x = t => tty'[x].session = Session[p] /\ tty'[x].pgrp = p
               /\ x # t => tty'[x].session = tty[x].session /\ tty'[x].pgrp = tty[x].pgrp
    BY <1>1, <2>1, OwnerStep
  <2> QED BY <2>2
<1>3. tty[t].live
  BY DEF HomeInv, CountInv
<1>4. \A q \in Proc : ~loc[q].exit
  <2>1. \A q \in Proc : loc[q].exit => q = p
    BY NoneLeaves
  <2>2. ~loc[p].exit
    BY DEF PlacedInv, Placed, Spot
  <2> QED BY <2>1, <2>2
<1> HIDE DEF t
<1>5. CttySound'
  <2>1. ASSUME NEW q \in Proc, ctty'[q] # NULL
        PROVE  tty'[ctty'[q]].live /\ tty'[ctty'[q]].session = Session[q]
    <3>1. CASE q = p
      BY <3>1, <1>1, <1>2, <1>3 DEF t, Owner
    <3>2. CASE q # p
      <4>1. ctty'[q] = ctty[q] /\ ctty[q] \in Line /\ ctty[q] # t
        BY <2>1, <3>2 DEF t, TypeOK
      <4>2. tty[ctty[q]].live /\ tty[ctty[q]].session = Session[q]
        BY <4>1, <1>1 DEF HomeInv, CttyInv, CttySound
      <4> QED BY <4>1, <4>2, <1>2 DEF Owner
    <3> QED BY <3>1, <3>2
  <2>2. \A x \in Line : tty'[x].pgrp # NULL => Session[tty'[x].pgrp] = tty'[x].session
    BY <1>2 DEF HomeInv, CttyInv, CttySound
  <2> QED BY <2>1, <2>2 DEF CttySound
<1>6. CttyInv'
  BY <1>4, <1>5 DEF CttyInv
<1> QED BY <1>2, <1>6, HomeOwner DEF t

(* A tty is taken from the session that owns it.                            *)
LEMMA HomeDisowns ==
  ASSUME TypeOK, PlacedInv, LockInv, HomeInv, NEW p \in Proc, NEW t \in Line, disown(p, t),
         UNCHANGED <<file, env>>,
         \A q \in Proc : ctty[q] = t => Session[q] = Session[p],
         \A q \in Proc : loc'[q] \in {loc[q], NoLoc},
         \A q \in Proc : pc'[q] \in {"flush", "free"} =>
           pc[q] \in {"flush", "free"} /\ loc'[q].t = loc[q].t
  PROVE  HomeInv'
<1>1. \A x \in Line : /\ Owner(tty[x], tty'[x])
                      /\ x = t => tty'[x].session = 0 /\ tty'[x].pgrp = NULL
                      /\ x # t => tty'[x].session = tty[x].session /\ tty'[x].pgrp = tty[x].pgrp
  <2>1. SetOwner(t, 0, NULL)
    BY DEF disown, SetOwner
  <2>2. 0 \in Nat /\ NULL \in Proc \cup {NULL}
    OBVIOUS
  <2>3. ASSUME NEW x \in Line
        PROVE  /\ Owner(tty[x], tty'[x])
               /\ x = t => tty'[x].session = 0 /\ tty'[x].pgrp = NULL
               /\ x # t => tty'[x].session = tty[x].session /\ tty'[x].pgrp = tty[x].pgrp
    BY <2>1, <2>2, OwnerStep
  <2> QED BY <2>3
<1>2. \A q \in Proc : /\ ctty'[q] \in {NULL, ctty[q]} /\ ctty[q] \in Line \cup {NULL}
                      /\ ctty'[q] # NULL => ctty[q] # t
  BY DEF disown, TypeOK
<1>3. CttySound'
  <2>1. \A q \in Proc : ctty'[q] # NULL =>
          tty'[ctty'[q]].live /\ tty'[ctty'[q]].session = Session[q]
    BY <1>1, <1>2 DEF HomeInv, CttyInv, CttySound, Owner
  <2>2. \A x \in Line : tty'[x].pgrp # NULL => Session[tty'[x].pgrp] = tty'[x].session
    BY <1>1 DEF HomeInv, CttyInv, CttySound
  <2> QED BY <2>1, <2>2 DEF CttySound
<1>4. \A q \in Proc : loc'[q].exit => Leaving(q)'
  <2> SUFFICES ASSUME NEW q \in Proc, loc'[q].exit PROVE Leaving(q)'
    OBVIOUS
  <2>1. loc'[q] = loc[q]
    BY DEF NoLoc
  <2>2. loc[q].t \in Line /\ Leaving(q)
    BY <2>1, OnLine DEF PlacedInv, Placed, Spot, HomeInv, CttyInv
  <2> QED BY <2>1, <2>2, <1>1, <1>2, TtyAssumption DEF Leaving, Owner
<1> QED BY <1>1, <1>2, <1>3, <1>4, HomeOwner DEF CttyInv

(* Files that come and go are counted one by one.                           *)
LEMMA FilesFinite ==
  /\ \A t : IsFiniteSet(Files(t)) /\ Cardinality(Files(t)) \in Nat
  /\ \A t \in Line : OnMaster(t) \in Nat
<1>1. \A t : Files(t) \subseteq Proc
  BY DEF Files
<1>2. \A t : IsFiniteSet(Files(t)) /\ Cardinality(Files(t)) \in Nat
  BY <1>1, TtyAssumption, FS_Subset, FS_CardinalityType
<1> QED BY <1>2 DEF OnMaster

(* A process opens a tty that is not being freed.                           *)
LEMMA HomeOpen ==
  ASSUME Gentle, TypeOK, PlacedInv, HomeInv, NEW p \in Proc, NEW t \in Line,
         tty_open(p, t) \/ ptmx_open(p, t)
  PROVE  HomeInv'
<1>g. /\ pc[p] = "user" /\ file[p].t = NULL /\ init_dev(t) /\ UNCHANGED <<ctty, loc, env>>
      /\ pc' = [pc EXCEPT ![p] = "open"] /\ ~Op("CARRIER")
  <2>1. env \in Envs /\ (Op("OPEN") \/ Op("PTMX") \/ Op("CONSOLE"))
    BY DEF tty_open, ptmx_open, TypeOK
  <2>2. ~Op("CARRIER")
    BY <2>1 DEF Gentle, Op
  <2> QED BY <2>2 DEF tty_open, ptmx_open, OpenFile, Go
<1>f. file'[p].t = t /\ \A q \in Proc : q # p => file'[q] = file[q]
  BY DEF tty_open, ptmx_open, OpenFile, TypeOK
<1>n. /\ NULL \notin Line /\ \A x \in Line : Link[x] \in Line \cup {NULL} /\ Link[x] # x
      /\ \A x \in Line : Link[x] # NULL => Link[Link[x]] = x
  BY TtyAssumption
<1>l. \A q \in Proc : file[q].t # NULL => file[q].t \in Line /\ tty[file[q].t].live
  BY DEF TypeOK, File, HomeInv, CountInv
<1>p. \A x \in Line : Link[x] # NULL => tty[x].live = tty[Link[x]].live
  BY DEF HomeInv, CountInv
<1>c. \A x \in Line : tty[x].count = Cardinality(Files(x)) + OnMaster(x)
  BY DEF HomeInv, CountInv
<1>e. can_open(t) /\ \A x \in Line :
        /\ ~Side(x, t) => tty'[x] = tty[x]
        /\ tty[t].live =>
             /\ tty'[x].count = tty[x].count
                  + (IF x = t \/ (t \in Master /\ x = Link[t]) THEN 1 ELSE 0)
             /\ tty'[x].live = tty[x].live /\ tty'[x].session = tty[x].session
             /\ tty'[x].pgrp = tty[x].pgrp
        /\ ~tty[t].live /\ Side(x, t) =>
             /\ tty'[x].live /\ tty'[x].session = 0 /\ tty'[x].pgrp = NULL
             /\ tty'[x].count = IF x = t \/ t \in Master THEN 1 ELSE 0
  <2>1. \A x \in Line : tty[x] \in TtyStruct
    BY DEF TypeOK
  <2>2. ASSUME NEW x \in Line, tty[t].live
        PROVE  /\ tty'[x].live = tty[x].live /\ tty'[x].session = tty[x].session
               /\ tty'[x].pgrp = tty[x].pgrp
    <3>1. tty' = fast_track(t)
      BY <1>g, <2>2 DEF init_dev
    <3>2. tty'[x] = tty[x] \/ tty'[x] = [tty[x] EXCEPT !.count = tty[x].count + 1]
      BY <3>1 DEF fast_track
    <3>3. \A n : LET s == [tty[x] EXCEPT !.count = n] IN
            s.live = tty[x].live /\ s.session = tty[x].session /\ s.pgrp = tty[x].pgrp
      BY <2>1 DEF TtyStruct
    <3> QED BY <3>2, <3>3
  <2>3. ASSUME NEW x \in Line PROVE ~Side(x, t) => tty'[x] = tty[x]
    BY <1>g, OpenEffect
  <2>4. ASSUME NEW x \in Line, tty[t].live
        PROVE  tty'[x].count = tty[x].count
                  + (IF x = t \/ (t \in Master /\ x = Link[t]) THEN 1 ELSE 0)
    BY <1>g, <2>4, OpenEffect
  <2>5. ASSUME NEW x \in Line, ~tty[t].live, Side(x, t)
        PROVE  /\ tty'[x].live /\ tty'[x].session = 0 /\ tty'[x].pgrp = NULL
               /\ tty'[x].count = IF x = t \/ t \in Master THEN 1 ELSE 0
    BY <1>g, <2>5, OpenEffect
  <2>6. can_open(t)
    BY <1>g DEF init_dev
  <2> QED BY <2>2, <2>3, <2>4, <2>5, <2>6
<1>k. \A x \in Line : tty[x].live => tty'[x].live
  BY <1>e, <1>n DEF Side
(* The new file is counted.                                                 *)
<1>1. p \notin Files(t) /\ Files(t)' = Files(t) \cup {p}
      /\ \A x \in Line : x # t => Files(x)' = Files(x)
  BY <1>f, <1>g, <1>n DEF Files
<1>2. Cardinality(Files(t)') = Cardinality(Files(t)) + 1
  BY <1>1, FilesFinite, FS_AddElement
<1>3. t \in Master => Files(t) = {}
  <2>1. CASE tty[t].live
    <3>1. t \in Master => tty[t].count = 0 /\ OnMaster(t) = 0
      BY <2>1, <1>e DEF can_open, OnMaster, IsSlave
    <3>2. t \in Master => Cardinality(Files(t)) = 0
      BY <3>1, <1>c, FilesFinite
    <3> QED BY <3>2, FilesFinite, FS_EmptySet
  <2>2. CASE ~tty[t].live
    BY <2>2, <1>l, <1>n DEF Files
  <2> QED BY <2>1, <2>2
<1>4. ASSUME NEW x \in Line PROVE tty'[x].count = Cardinality(Files(x)') + OnMaster(x)'
  <2>1. OnMaster(x)' = OnMaster(x) + (IF t \in Master /\ x = Link[t] THEN 1 ELSE 0)
    <3>1. CASE t \in Master /\ x = Link[t]
      <4>1. IsSlave(x) /\ Link[x] = t
        BY <3>1, <1>n, TtyAssumption DEF IsSlave
      <4> QED BY <3>1, <4>1, <1>2, FilesFinite DEF OnMaster, IsSlave
    <3>2. CASE ~(t \in Master /\ x = Link[t])
      <4>1. IsSlave(x) => Link[x] \in Line /\ Link[x] # t
        <5> SUFFICES ASSUME IsSlave(x), Link[x] = t PROVE FALSE
          BY <1>n DEF IsSlave
        <5>1. Link[t] = x /\ t \in Master
          BY <1>n, TtyAssumption DEF IsSlave
        <5> QED BY <3>2, <5>1
      <4>2. OnMaster(x)' = OnMaster(x)
        BY <4>1, <1>1 DEF OnMaster, IsSlave
      <4> QED BY <3>2, <4>2, FilesFinite
    <3> QED BY <3>1, <3>2
  <2>2. Cardinality(Files(x)') = Cardinality(Files(x)) + (IF x = t THEN 1 ELSE 0)
    BY <1>1, <1>2, FilesFinite
  <2>3. CASE tty[t].live \/ ~Side(x, t)
    <3>1. tty'[x].count = tty[x].count
            + (IF x = t \/ (t \in Master /\ x = Link[t]) THEN 1 ELSE 0)
      <4>1. tty[x].count \in Int
        BY DEF TypeOK, TtyStruct
      <4> QED BY <2>3, <4>1, <1>e DEF Side
    <3>2. x # t \/ x # Link[t]
      BY <1>n
    <3> QED BY <2>1, <2>2, <3>1, <3>2, <1>c, FilesFinite
  <2>4. CASE ~tty[t].live /\ Side(x, t)
    <3>1. ~tty[x].live /\ (IsSlave(x) => ~tty[Link[x]].live)
      BY <2>4, <1>p, <1>n DEF Side, IsSlave
    <3>2. Files(x) = {} /\ (IsSlave(x) => Files(Link[x]) = {})
      BY <3>1, <1>l, <1>n DEF Files, IsSlave
    <3>3. Cardinality(Files(x)) = 0 /\ OnMaster(x) = 0
      BY <3>2, FS_EmptySet DEF OnMaster
    <3>4. tty'[x].count = IF x = t \/ t \in Master THEN 1 ELSE 0
      BY <2>4, <1>e
    <3>5. x = t => ~(t \in Master /\ x = Link[t])
      BY <1>n
    <3>6. x # t => x = Link[t]
      BY <2>4 DEF Side
    <3> QED BY <2>1, <2>2, <3>3, <3>4, <3>5, <3>6
  <2> QED BY <2>3, <2>4
<1>5. CountInv'
  <2>1. \A q \in Proc : file'[q].t # NULL => tty'[file'[q].t].live
    <3>1. tty'[t].live
      BY <1>e DEF Side
    <3> QED BY <3>1, <1>f, <1>k, <1>l
  <2>2. \A x \in Line : Link[x] # NULL => tty'[x].live = tty'[Link[x]].live
    <3> SUFFICES ASSUME NEW x \in Line, Link[x] # NULL PROVE tty'[x].live = tty'[Link[x]].live
      OBVIOUS
    <3>1. Side(x, t) <=> Side(Link[x], t)
      BY <1>n DEF Side
    <3>2. tty[x].live = tty[Link[x]].live /\ Link[x] \in Line
      BY <1>n, <1>p
    <3>3. CASE tty[t].live
      BY <3>2, <3>3, <1>e
    <3>4. CASE ~tty[t].live /\ ~Side(x, t)
      BY <3>1, <3>2, <3>4, <1>e
    <3>5. CASE ~tty[t].live /\ Side(x, t)
      <4>1. tty'[x].live /\ tty'[Link[x]].live
        BY <3>1, <3>2, <3>5, <1>e
      <4>2. tty'[x].live \in BOOLEAN /\ tty'[Link[x]].live \in BOOLEAN
        <5>1. TypeOK'
          BY TypeStep DEF Next, Syscall
        <5> QED BY <5>1, <3>2 DEF TypeOK, TtyStruct
      <4> QED BY <4>1, <4>2
    <3> QED BY <3>3, <3>4, <3>5
  <2>3. \A q, r \in Proc : file'[q].t \in Master /\ file'[q].t = file'[r].t => q = r
    <3>0. \A q, r \in Proc : file[q].t \in Master /\ file[q].t = file[r].t => q = r
      BY DEF HomeInv, CountInv
    <3> QED BY <3>0, <1>3, <1>f DEF Files
  <2> QED BY <1>4, <2>1, <2>2, <2>3 DEF CountInv
(* Nobody comes to a deserted tty.                                          *)
<1>6. CloseInv'
  <2> SUFFICES ASSUME NEW q \in Proc, pc'[q] \in {"flush", "free"},
                      NEW x \in Line, Side(x, loc'[q].t)
               PROVE  Deserted(q, x)'
    BY DEF CloseInv, Side
  <2>1. pc[q] \in {"flush", "free"} /\ loc'[q].t = loc[q].t /\ loc[q].t \in Line
    BY <1>g, OnLine DEF TypeOK
  <2>2. \A y \in Line : Side(y, loc[q].t) => Deserted(q, y)
    BY <2>1 DEF HomeInv, CloseInv
  <2>3. \A y \in Line : Side(y, loc[q].t) => y # t
    <3> SUFFICES ASSUME Deserted(q, t) PROVE FALSE
      BY <2>2
    <3>1. tty[t].live /\ "CLOSING" \in tty[t].flags
      BY <1>g DEF Deserted, Barred
    <3> QED BY <3>1, <1>e DEF can_open
  <2>4. Side(x, loc[q].t)
    BY <2>1
  <2>5. ~Side(x, t)
    <3> SUFFICES ASSUME x = Link[t] PROVE FALSE
      BY <2>3, <2>4 DEF Side
    <3>1. Link[x] = t
      BY <1>n
    <3>2. Side(t, loc[q].t)
      BY <2>1, <2>4, <3>1, <1>n DEF Side
    <3> QED BY <3>2, <2>3
  <2>6. tty'[x] = tty[x]
    BY <2>5, <1>e
  <2>7. Files(x)' = Files(x)
    BY <2>5, <1>1 DEF Side
  <2>8. Deserted(q, x)
    BY <2>2, <2>4
  <2> QED BY <2>6, <2>7, <2>8, <1>g DEF Deserted, Barred, Op
<1>7. CttyInv'
  <2>0. /\ \A q \in Proc : ctty[q] # NULL =>
             ctty[q] \in Line /\ tty[ctty[q]].live /\ tty[ctty[q]].session = Session[q]
        /\ \A x \in Line : tty[x].pgrp # NULL => Session[tty[x].pgrp] = tty[x].session
        /\ \A q \in Proc : loc[q].exit => Leaving(q) /\ loc[q].t \in Line
    BY OnLine DEF HomeInv, CttyInv, CttySound, TypeOK, PlacedInv, Placed, Spot
  <2>1. \A x \in Line : /\ tty[x].live => tty'[x].session = tty[x].session
                        /\ tty'[x].pgrp # NULL =>
                             tty'[x].pgrp = tty[x].pgrp /\ tty'[x].session = tty[x].session
    BY <1>e, <1>p, <1>n DEF Side
  <2>2. CttySound'
    BY <2>0, <2>1, <1>k, <1>g DEF CttySound
  <2>3. \A q \in Proc : loc'[q].exit => Leaving(q)'
    BY <2>0, <1>k, <1>g DEF Leaving
  <2> QED BY <2>2, <2>3 DEF CttyInv
<1> QED BY <1>5, <1>6, <1>7 DEF HomeInv

(* The last close: what was judged under tty_sem still holds, so both sides *)
(* are deserted when the file has left.                                     *)
LEMMA HomeCount ==
  ASSUME TypeOK, PlacedInv, LockInv, HomeInv, NEW p \in Proc, release_dev_count(p)
  PROVE  HomeInv'
<1>a. pc[p] = "count" /\ file[p].t \in Line
  BY OnLine DEF OnFile, release_dev_count
<1>0. PICK t \in Line : t = file[p].t
  BY <1>a
<1> DEFINE l == loc[p]
           last == l.closing /\ (Link[t] = NULL \/ l.o_closing)
<1>n. /\ NULL \notin Line /\ \A x \in Line : Link[x] \in Line \cup {NULL} /\ Link[x] # x
      /\ \A x \in Line : Link[x] # NULL => Link[Link[x]] = x
  BY TtyAssumption
<1>g. /\ pc[p] = "count" /\ Bkl(p) /\ t \in Line /\ env' = env
      /\ \A q \in Proc : q # p => /\ pc'[q] = pc[q] /\ loc'[q] = loc[q]
                                  /\ file'[q] = file[q]
      /\ file'[p].t = NULL
  <2>1. Syscall(p) /\ pc[p] = "count" /\ Bkl(p)
    BY DEF Syscall, release_dev_count
  <2>3. file' = [file EXCEPT ![p] = NoFile] /\ NoFile.t = NULL
    BY DEF release_dev_count, NoFile
  <2>4. file \in [Proc -> File]
    BY DEF TypeOK
  <2> QED BY <2>1, <2>3, <2>4, CallFrame
<1>r. /\ bkl = p /\ l.closing = (tty[t].count <= 1)
      /\ l.o_closing = (Link[t] # NULL /\ tty[Link[t]].count <= IF t \in Master THEN 1 ELSE 0)
  BY <1>0, <1>g DEF LockInv
<1>e. \A x \in Line :
        /\ tty'[x].live = tty[x].live /\ tty'[x].session = tty[x].session
        /\ tty'[x].pgrp = tty[x].pgrp
        /\ tty'[x].count = IF x = t \/ (t \in Master /\ x = Link[t])
                           THEN tty[x].count - 1 ELSE tty[x].count
        /\ "CLOSING" \in tty'[x].flags <=>
             \/ "CLOSING" \in tty[x].flags
             \/ (x = t /\ l.closing) \/ (x = Link[t] /\ l.o_closing)
  <2> SUFFICES ASSUME NEW x \in Line
      PROVE
        /\ tty'[x].live = tty[x].live /\ tty'[x].session = tty[x].session
        /\ tty'[x].pgrp = tty[x].pgrp
        /\ tty'[x].count = IF x = t \/ (t \in Master /\ x = Link[t])
                           THEN tty[x].count - 1 ELSE tty[x].count
        /\ "CLOSING" \in tty'[x].flags <=>
             \/ "CLOSING" \in tty[x].flags
             \/ (x = t /\ l.closing) \/ (x = Link[t] /\ l.o_closing)
    OBVIOUS
  <2> QED BY <1>0, CountEffect DEF uncount
<1>c. /\ \A q \in Proc : ctty'[q] \in {NULL, ctty[q]}
      /\ last => \A q \in Proc : \A x \in Line :
           Side(x, t) /\ tty[x].session = Session[q] => ctty'[q] = NULL
  <2>1. ctty' = IF l.closing \/ l.o_closing THEN forget_ctty(t) ELSE ctty
    BY <1>0 DEF release_dev_count
  <2>3. \A q \in Proc : forget_ctty(t)[q] \in {NULL, ctty[q]}
    BY DEF forget_ctty
  <2>4. ASSUME NEW q \in Proc, NEW x \in Line, Side(x, t), tty[x].session = Session[q]
        PROVE  forget_ctty(t)[q] = NULL
    BY <2>4, <1>n DEF forget_ctty, Side
  <2> HIDE DEF l
  <2> QED BY <2>1, <2>3, <2>4
<1>l. /\ (pc'[p] \in {"flush", "free"} => last /\ loc'[p].t = t)
      /\ loc'[p].t \in {NULL, t} /\ ~loc'[p].exit
  <2>1. /\ pc \in [Proc -> Place] /\ loc \in [Proc -> Locals] /\ loc[p] \in Locals /\ ~loc[p].exit
        /\ NoLoc.t = NULL /\ ~NoLoc.exit
    BY <1>g DEF TypeOK, PlacedInv, Placed, Spot, NoLoc
  <2>2. IF last THEN pc' = [pc EXCEPT ![p] = "flush"] /\ loc' = [loc EXCEPT ![p].t = t]
        ELSE pc' = [pc EXCEPT ![p] = "user"] /\ loc' = [loc EXCEPT ![p] = NoLoc]
    BY <1>0 DEF release_dev_count, Go, Back
  <2>3. [loc[p] EXCEPT !.t = t].t = t /\ [loc[p] EXCEPT !.t = t].exit = loc[p].exit
    BY <2>1, LocalFields
  <2>4. CASE last
    <3>1. pc'[p] = "flush" /\ loc'[p] = [loc[p] EXCEPT !.t = t]
      BY <2>1, <2>2, <2>4
    <3> QED BY <2>1, <2>3, <2>4, <3>1
  <2>5. CASE ~last
    <3>1. pc'[p] = "user" /\ loc'[p] = NoLoc
      BY <2>1, <2>2, <2>5
    <3> QED BY <2>1, <3>1
  <2> QED BY <2>4, <2>5
<1>i. /\ \A q \in Proc : file[q].t # NULL => file[q].t \in Line /\ tty[file[q].t].live
      /\ \A x \in Line : Link[x] # NULL => tty[x].live = tty[Link[x]].live
      /\ \A q, r \in Proc : file[q].t \in Master /\ file[q].t = file[r].t => q = r
      /\ \A x \in Line : tty[x].count = Cardinality(Files(x)) + OnMaster(x)
  BY DEF HomeInv, CountInv, TypeOK, File
<1> HIDE DEF l, last
<1>1. p \in Files(t) /\ Files(t)' = Files(t) \ {p}
      /\ \A x \in Line : x # t => Files(x)' = Files(x)
  BY <1>0, <1>g, <1>n DEF Files
<1>2. Cardinality(Files(t)) = Cardinality(Files(t)') + 1 /\ Cardinality(Files(t)') \in Nat
  <2>1. IsFiniteSet(Files(t) \ {p}) /\ Cardinality(Files(t) \ {p}) = Cardinality(Files(t)) - 1
    BY <1>1, FilesFinite, FS_RemoveElement
  <2>2. Cardinality(Files(t) \ {p}) \in Nat
    BY <2>1, FS_CardinalityType
  <2>3. Cardinality(Files(t)) \in Nat
    BY FilesFinite
  <2> QED BY <2>1, <2>2, <2>3, <1>1
<1>4. ASSUME NEW x \in Line PROVE tty'[x].count = Cardinality(Files(x)') + OnMaster(x)'
  <2>1. /\ OnMaster(x) = OnMaster(x)' + (IF t \in Master /\ x = Link[t] THEN 1 ELSE 0)
        /\ OnMaster(x)' \in Nat
    <3>1. CASE t \in Master /\ x = Link[t]
      <4>1. IsSlave(x) /\ Link[x] = t
        BY <3>1, <1>g, <1>n, TtyAssumption DEF IsSlave
      <4> QED BY <3>1, <4>1, <1>2, FilesFinite DEF OnMaster, IsSlave
    <3>2. CASE ~(t \in Master /\ x = Link[t])
      <4>1. IsSlave(x) => Link[x] \in Line /\ Link[x] # t
        <5> SUFFICES ASSUME IsSlave(x), Link[x] = t PROVE FALSE
          BY <1>n DEF IsSlave
        <5>1. Link[t] = x /\ t \in Master
          BY <1>n, TtyAssumption DEF IsSlave
        <5> QED BY <3>2, <5>1
      <4>2. OnMaster(x)' = OnMaster(x)
        BY <4>1, <1>1 DEF OnMaster, IsSlave
      <4> QED BY <3>2, <4>2, FilesFinite
    <3> QED BY <3>1, <3>2
  <2>2. /\ Cardinality(Files(x)) = Cardinality(Files(x)') + (IF x = t THEN 1 ELSE 0)
        /\ Cardinality(Files(x)') \in Nat
    <3>1. CASE x = t
      BY <3>1, <1>2
    <3>2. CASE x # t
      <4>1. Files(x)' = Files(x) /\ Cardinality(Files(x)) \in Nat
        BY <3>2, <1>1, FilesFinite
      <4> QED BY <3>2, <4>1
    <3> QED BY <3>1, <3>2
  <2>3. x # t \/ x # Link[t]
    BY <1>n
  <2> QED BY <2>1, <2>2, <2>3, <1>e, <1>i
<1>5. CountInv'
  <2>1. \A q \in Proc : file'[q].t # NULL => tty'[file'[q].t].live
    BY <1>e, <1>g, <1>i
  <2>2. \A x \in Line : Link[x] # NULL => tty'[x].live = tty'[Link[x]].live
    BY <1>e, <1>i, <1>n
  <2>3. \A q, r \in Proc : file'[q].t \in Master /\ file'[q].t = file'[r].t => q = r
    BY <1>g, <1>i, <1>n, TtyAssumption
  <2> QED BY <1>4, <2>1, <2>2, <2>3 DEF CountInv
(* The last close leaves no file on either side.                            *)
<1>6. ASSUME last, NEW x \in Line, Side(x, t) PROVE Files(x) \subseteq {p} /\ tty[x].live
  <2>1. tty[t].live /\ Cardinality(Files(t)) \in Nat /\ OnMaster(t) \in Nat
    BY <1>0, <1>g, <1>i, FilesFinite, <1>n
  <2>2. Cardinality(Files(t)') = 0 /\ OnMaster(t) = 0
    <3>1. tty[t].count <= 1
      BY <1>6, <1>r DEF last
    <3> QED BY <2>1, <3>1, <1>2, <1>i, <1>g
  <2>3. Files(t) \subseteq {p}
    <3>1. IsFiniteSet(Files(t)')
      BY <1>1, FilesFinite, FS_Subset
    <3>2. Files(t)' = {}
      BY <2>2, <3>1, FS_EmptySet
    <3> QED BY <3>2, <1>1
  <2>4. ASSUME x = Link[t], x # t PROVE Files(x) = {} /\ tty[x].live
    <3>1. x # NULL /\ l.o_closing
      BY <2>4, <1>6, <1>n DEF last
    <3>2. tty[x].live
      BY <2>1, <2>4, <3>1, <1>g, <1>i
    <3>3. Cardinality(Files(x)) = 0
      <4>0. Cardinality(Files(x)) \in Nat /\ OnMaster(x) \in Nat
        BY FilesFinite
      <4>1. CASE t \in Master
        <5>1. OnMaster(x) = Cardinality(Files(t)) /\ tty[x].count <= 1
          <6>1. x \in Line /\ Link[x] = t /\ t # NULL
            BY <2>4, <3>1, <1>n
          <6>2. IsSlave(x)
            BY <2>4, <4>1, <6>1, TtyAssumption DEF IsSlave
          <6>3. tty[x].count <= 1
            BY <2>4, <3>1, <4>1, <1>r
          <6> QED BY <6>1, <6>2, <6>3 DEF OnMaster
        <5> QED BY <5>1, <4>0, <1>2, <1>i, <2>2
      <4>2. CASE t \notin Master
        <5>1. tty[x].count <= 0
          BY <2>4, <3>1, <4>2, <1>r
        <5> QED BY <5>1, <4>0, <1>i
      <4> QED BY <4>1, <4>2
    <3> QED BY <3>2, <3>3, FilesFinite, FS_EmptySet
  <2> QED BY <1>6, <2>1, <2>3, <2>4 DEF Side
(* And nobody works on either of them.                                      *)
<1>7. ASSUME last, NEW x \in Line, Side(x, t), NEW q \in Proc, q # p PROVE loc[q].t # x
  <2> SUFFICES ASSUME loc[q].t = x PROVE FALSE
    OBVIOUS
  <2>0. /\ Spot(q) /\ pc[q] \in Place /\ x # NULL /\ NULL \notin Proc
        /\ loc[q].via \in Proc \cup {NULL}
    BY <1>n, TtyAssumption DEF PlacedInv, Placed, TypeOK, Locals
  <2>1. \A r \in Proc : file[r].t # NULL /\ Side(file[r].t, t) => r = p
    BY <1>6, <1>7, <1>i DEF Files
  <2>2. ~loc[q].exit
    BY <1>7, <1>g, NoneLeaves
  <2>3. CASE pc[q] \in {"read", "copy", "use"}
    BY <2>0, <2>1, <2>3, <1>7 DEF Spot
  <2>4. CASE pc[q] = "write"
    <3>1. loc[q].via \in Proc /\ file[loc[q].via].t = x
      BY <2>0, <2>4 DEF Spot
    <3>2. loc[q].via = p
      BY <3>1, <2>0, <2>1, <1>7
    <3>3. Held(p)
      BY <3>2 DEF Held
    <3> QED BY <3>3, <1>g DEF PlacedInv, Placed, Holding
  <2>5. CASE pc[q] \in {"hangup", "hangup_end"}
    <3>1. file[q].t \in Master /\ x = Link[file[q].t] /\ file[q].t \in Line
      BY <2>0, <2>2, <2>5, TtyAssumption DEF Spot
    <3>2. Link[x] = file[q].t
      BY <3>1, <1>n, <2>0
    <3>3. Side(file[q].t, t)
      BY <3>1, <3>2, <1>7, <1>g, <1>n DEF Side
    <3> QED BY <3>1, <3>3, <2>1, <1>7, <1>n
  <2>6. CASE pc[q] \in {"flush", "free"}
    <3>1. Side(t, x)
      BY <1>7, <1>g, <1>n DEF Side
    <3>2. Deserted(q, t)
      BY <2>6, <3>1, <1>g DEF HomeInv, CloseInv
    <3> QED BY <3>2, <1>1 DEF Deserted
  <2>7. CASE pc[q] \in {"user", "open", "close", "count", "setd", "switch", "swflush", "dead",
                        "exit"}
    BY <2>0, <2>2, <2>7 DEF Spot
  <2> QED BY <2>0, <2>3, <2>4, <2>5, <2>6, <2>7 DEF Place
<1>8. CloseInv'
  <2> SUFFICES ASSUME NEW q \in Proc, pc'[q] \in {"flush", "free"},
                      NEW x \in Line, Side(x, loc'[q].t)
               PROVE  Deserted(q, x)'
    BY DEF CloseInv, Side
  <2>1. CASE q = p
    <3>1. last /\ Side(x, t)
      BY <2>1, <1>l
    <3>2. tty'[x].live /\ Files(x)' = {}
      <4>1. Files(x) \subseteq {p} /\ tty[x].live
        BY <3>1, <1>6
      <4>2. x # t => p \notin Files(x)
        BY <1>0 DEF Files
      <4> QED BY <4>1, <4>2, <1>1, <1>e
    <3>3. Barred(x)'
      BY <3>1, <1>e, <1>n DEF Barred, last, Side
    <3>4. \A r \in Proc : ctty'[r] # x
      BY <3>1, <1>c, <1>n DEF HomeInv, CttyInv, CttySound
    <3>5. \A r \in Proc : r # p => loc'[r].t # x
      BY <3>1, <1>7, <1>g
    <3> QED BY <2>1, <3>2, <3>3, <3>4, <3>5 DEF Deserted
  <2>2. CASE q # p
    <3>1. pc[q] \in {"flush", "free"} /\ loc'[q] = loc[q]
      BY <2>2, <1>g
    <3>2. \A y \in Line : Side(y, loc[q].t) => Deserted(q, y)
      BY <3>1 DEF HomeInv, CloseInv
    <3>3. Deserted(q, x) /\ x # t
      BY <3>1, <3>2, <1>1 DEF Deserted
    <3>4. tty'[x].live /\ Files(x)' = {} /\ Barred(x)'
      BY <3>3, <1>1, <1>e, <1>g DEF Deserted, Barred, Op
    <3>5. \A r \in Proc : ctty'[r] # x
      BY <3>3, <1>c, <1>n DEF Deserted
    <3>6. \A r \in Proc : r # q => loc'[r].t # x
      BY <3>3, <1>g, <1>l, <1>n DEF Deserted
    <3> QED BY <3>4, <3>5, <3>6 DEF Deserted
  <2> QED BY <2>1, <2>2
<1>9. CttyInv'
  <2>1. \A q \in Proc : loc'[q].exit =>
          loc'[q].t \in Line /\ \/ loc[q].exit /\ loc'[q].t = loc[q].t
                                \/ ctty[q] = loc'[q].t
    BY <1>g, <1>l, NoneLeaves
  <2> QED BY <2>1, <1>e, <1>c, CttyKept DEF HomeInv
<1> QED BY <1>5, <1>8, <1>9 DEF HomeInv

(* Both sides are freed, and nothing is left behind.                        *)
LEMMA HomeFree ==
  ASSUME TypeOK, PlacedInv, HomeInv, NEW p \in Proc, release_mem(p)
  PROVE  HomeInv'
<1> DEFINE t == loc[p].t
<1>n. /\ NULL \notin Line /\ \A x \in Line : Link[x] \in Line \cup {NULL} /\ Link[x] # x
      /\ \A x \in Line : Link[x] # NULL => Link[Link[x]] = x
  BY TtyAssumption
<1>g. /\ pc[p] = "free" /\ t \in Line /\ UNCHANGED <<file, ctty, env>>
      /\ \A q \in Proc : q # p => pc'[q] = pc[q] /\ loc'[q] = loc[q]
      /\ pc'[p] = "user" /\ loc'[p] = NoLoc
  <2>1. pc[p] = "free" /\ UNCHANGED <<file, ctty, env>> /\ Back(p)
    BY DEF release_mem
  <2>2. t \in Line
    BY <2>1, OnLine
  <2> HIDE DEF t
  <2> QED BY <2>1, <2>2 DEF Back, Go, TypeOK
<1>e. \A x \in Line :
        /\ Side(x, t) => /\ ~tty'[x].live /\ tty'[x].count = 0 /\ tty'[x].session = 0
                         /\ tty'[x].pgrp = NULL
        /\ ~Side(x, t) => tty'[x] = tty[x]
  <2>1. ~Free.live /\ Free.count = 0 /\ Free.session = 0 /\ Free.pgrp = NULL
    BY DEF Free
  <2>2. \A x \in Line : tty'[x] = IF x \in {t} \cup ({Link[t]} \ {NULL}) THEN Free ELSE tty[x]
    BY DEF release_mem
  <2> QED BY <2>1, <2>2, <1>n DEF Side
<1>d. \A x \in Line : Side(x, t) => Deserted(p, x)
  BY <1>g DEF HomeInv, CloseInv
<1> HIDE DEF t
<1>p. \A x \in Line : Link[x] # NULL => (Side(x, t) <=> Side(Link[x], t))
  BY <1>g, <1>n DEF Side
<1>i. /\ \A q \in Proc : file[q].t # NULL => file[q].t \in Line /\ tty[file[q].t].live
      /\ \A x \in Line : Link[x] # NULL => tty[x].live = tty[Link[x]].live
      /\ \A q, r \in Proc : file[q].t \in Master /\ file[q].t = file[r].t => q = r
      /\ \A x \in Line : tty[x].count = Cardinality(Files(x)) + OnMaster(x)
  BY DEF HomeInv, CountInv, TypeOK, File
<1>1. CountInv'
  <2>1. \A q \in Proc : file'[q].t # NULL => tty'[file'[q].t].live
    <3>1. \A q \in Proc : file[q].t # NULL => ~Side(file[q].t, t)
      BY <1>d, <1>i DEF Deserted, Files
    <3> QED BY <3>1, <1>e, <1>g, <1>i
  <2>2. \A x \in Line : Link[x] # NULL => tty'[x].live = tty'[Link[x]].live
    <3>1. \A x \in Line : Side(x, t) => tty'[x].live = FALSE
      <4>1. \A x \in Line : Side(x, t) => tty'[x] = Free
        <5>1. \A x \in Line : tty'[x] = IF x \in {t} \cup ({Link[t]} \ {NULL}) THEN Free ELSE tty[x]
          BY DEF release_mem, t
        <5> QED BY <5>1, <1>n DEF Side
      <4> QED BY <4>1 DEF Free
    <3> SUFFICES ASSUME NEW x \in Line, Link[x] # NULL PROVE tty'[x].live = tty'[Link[x]].live
      OBVIOUS
    <3>2. Link[x] \in Line /\ tty[x].live = tty[Link[x]].live
      BY <1>i, <1>n
    <3>3. CASE Side(x, t)
      <4>1. Side(Link[x], t)
        BY <3>3, <1>p
      <4> QED BY <3>1, <3>2, <3>3, <4>1
    <3>4. CASE ~Side(x, t)
      <4>1. ~Side(Link[x], t)
        BY <3>4, <1>p
      <4> QED BY <3>2, <3>4, <4>1, <1>e
    <3> QED BY <3>3, <3>4
  <2>3. \A q, r \in Proc : file'[q].t \in Master /\ file'[q].t = file'[r].t => q = r
    BY <1>g, <1>i
  <2>4. ASSUME NEW x \in Line PROVE tty'[x].count = Cardinality(Files(x)') + OnMaster(x)'
    <3>1. Files(x)' = Files(x) /\ OnMaster(x)' = OnMaster(x)
      BY <1>g DEF Files, OnMaster
    <3>2. CASE Side(x, t)
      <4>1. Files(x) = {} /\ (IsSlave(x) => Files(Link[x]) = {})
        BY <3>2, <1>d, <1>n, <1>p DEF Deserted, IsSlave
      <4> QED BY <3>1, <3>2, <4>1, <1>e, FS_EmptySet DEF OnMaster
    <3>3. CASE ~Side(x, t)
      BY <3>1, <3>3, <1>e, <1>i
    <3> QED BY <3>2, <3>3
  <2> QED BY <2>1, <2>2, <2>3, <2>4 DEF CountInv
<1>2. CloseInv'
  <2> SUFFICES ASSUME NEW q \in Proc, pc'[q] \in {"flush", "free"},
                      NEW x \in Line, Side(x, loc'[q].t)
               PROVE  Deserted(q, x)'
    BY DEF CloseInv, Side
  <2>1. q # p /\ pc[q] \in {"flush", "free"} /\ loc'[q] = loc[q]
    BY <1>g
  <2>2. Deserted(q, x) /\ loc[q].t \in Line
    BY <2>1, OnLine DEF HomeInv, CloseInv
  <2>3. ~Side(x, t)
    <3> SUFFICES ASSUME Side(x, t) PROVE FALSE
      OBVIOUS
    <3>1. Side(loc[q].t, t)
      BY <2>1, <2>2, <1>g, <1>n DEF Side
    <3> QED BY <3>1, <2>1, <2>2, <1>d DEF Deserted
  <2>4. tty'[x] = tty[x] /\ Files(x)' = Files(x)
    BY <2>3, <1>e, <1>g DEF Files
  <2>5. loc'[p].t # x
    BY <1>g, <1>n DEF NoLoc
  <2> QED BY <2>2, <2>4, <2>5, <1>g DEF Deserted, Barred, Op
<1>3. CttyInv'
  <2>0. /\ \A q \in Proc : ctty[q] # NULL =>
             ctty[q] \in Line /\ tty[ctty[q]].live /\ tty[ctty[q]].session = Session[q]
        /\ \A x \in Line : tty[x].pgrp # NULL => Session[tty[x].pgrp] = tty[x].session
        /\ \A q \in Proc : loc[q].exit => Leaving(q) /\ loc[q].t \in Line
    BY OnLine DEF HomeInv, CttyInv, CttySound, TypeOK, PlacedInv, Placed, Spot
  <2>1. \A q \in Proc : /\ ctty[q] # NULL => tty'[ctty[q]] = tty[ctty[q]]
                        /\ q # p /\ loc[q].exit => tty'[loc[q].t] = tty[loc[q].t]
    BY <2>0, <1>d, <1>e DEF Deserted
  <2>2. CttySound'
    BY <2>0, <2>1, <1>e, <1>g DEF CttySound
  <2>3. ~NoLoc.exit
    BY DEF NoLoc
  <2>4. \A q \in Proc : loc'[q].exit => Leaving(q)'
    <3> SUFFICES ASSUME NEW q \in Proc, loc'[q].exit PROVE Leaving(q)'
      OBVIOUS
    <3>1. q # p /\ loc'[q] = loc[q] /\ loc[q].exit
      BY <2>3, <1>g
    <3> QED BY <3>1, <2>0, <2>1, <1>g DEF Leaving
  <2> QED BY <2>2, <2>4 DEF CttyInv
<1> QED BY <1>1, <1>2, <1>3 DEF HomeInv

(* The calls that give or take a controlling tty.                           *)
LEMMA HomeCtty ==
  ASSUME TypeOK, PlacedInv, LockInv, HomeInv, NEW p \in Proc, Syscall(p),
         \/ tty_open_end(p) \/ tiocsctty(p) \/ (\E g \in Proc : tiocspgrp(p, g)) \/ tiocnotty(p)
         \/ disassociate_ctty_end(p)
  PROVE  HomeInv'
<1>n. /\ NULL \notin Line /\ NULL \notin Proc /\ Session \in [Proc -> Nat \ {0}]
      /\ \A x \in Line : Link[x] \in Line \cup {NULL}
  BY TtyAssumption
<1>f. /\ env' = env
      /\ \A q \in Proc : q # p => pc'[q] = pc[q] /\ loc'[q] = loc[q] /\ file'[q].t = file[q].t
  BY CallFrame
<1>t. /\ pc \in [Proc -> Place] /\ loc \in [Proc -> Locals] /\ ctty \in [Proc -> Line \cup {NULL}]
  BY DEF TypeOK
<1>o. \A q \in Proc : ctty[q] # NULL =>
        ctty[q] \in Line /\ tty[ctty[q]].live /\ tty[ctty[q]].session = Session[q]
  BY <1>t DEF HomeInv, CttyInv, CttySound
<1>1. ASSUME tty_open_end(p) PROVE HomeInv'
  <2> DEFINE t == file[p].t
             takes == /\ ~(t \in Master \/ file[p].fops = "console" \/ ~Op("CTTY"))
                      /\ p \in Leader /\ ctty[p] = NULL /\ tty[t].session = 0
  <2>1. CASE UNCHANGED <<tty, ctty>>
    BY <1>1, <2>1, HomeStill
  <2>2. CASE /\ takes /\ ctty' = [ctty EXCEPT ![p] = t]
             /\ tty' = [tty EXCEPT ![t] = [tty[t] EXCEPT !.session = Session[p], !.pgrp = p]]
             /\ Go(p, "user") /\ UNCHANGED loc
    <3>1. Bkl(p) /\ t # NULL /\ UNCHANGED file
      BY <1>1 DEF tty_open_end, PlacedInv, Placed, Spot, OnFile
    <3>2. pc'[p] = "user" /\ ctty'[p] = t
      BY <2>2, <1>t DEF Go
    <3>3. \A q \in Proc : q # p => ctty'[q] = ctty[q] /\ ctty'[q] # t
      <4>1. tty[t].session = 0
        BY <2>2
      <4>2. \A q \in Proc : ctty[q] # t
        BY <4>1, <3>1, <1>o, <1>n
      <4> QED BY <4>2, <2>2, <1>t
    <3> HIDE DEF takes
    <3> QED BY <2>2, <3>1, <3>2, <3>3, <1>f, HomeTakes
  <2>3. \/ UNCHANGED <<tty, ctty>>
        \/ /\ takes /\ ctty' = [ctty EXCEPT ![p] = t]
           /\ tty' = [tty EXCEPT ![t] = [tty[t] EXCEPT !.session = Session[p], !.pgrp = p]]
           /\ Go(p, "user") /\ UNCHANGED loc
    BY <1>1 DEF tty_open_end
  <2> HIDE DEF t, takes
  <2> QED BY <2>1, <2>2, <2>3 DEF t, takes
<1>2. ASSUME tiocsctty(p) PROVE HomeInv'
  <2>1. /\ Bkl(p) /\ file[p].t # NULL /\ UNCHANGED <<file, loc, env, pc>> /\ pc[p] = "user"
        /\ tty' = [tty EXCEPT ![file[p].t] = [tty[file[p].t] EXCEPT !.session = Session[p],
                                                                     !.pgrp = p]]
        /\ ctty' = [stolen(file[p].t) EXCEPT ![p] = file[p].t]
    BY <1>2 DEF tiocsctty, InIoctl
  <2>2. stolen(file[p].t) = [q \in Proc |-> IF tty[file[p].t].session > 0
                                               /\ Session[q] = tty[file[p].t].session
                                            THEN NULL ELSE ctty[q]]
    BY DEF stolen
  <2>3. ctty'[p] = file[p].t
    BY <2>1, <2>2
  <2>4. ASSUME NEW q \in Proc, q # p PROVE ctty'[q] \in {NULL, ctty[q]} /\ ctty'[q] # file[p].t
    <3>1. ctty'[q] = IF tty[file[p].t].session > 0 /\ Session[q] = tty[file[p].t].session
                     THEN NULL ELSE ctty[q]
      BY <2>1, <2>2, <2>4
    <3>2. ctty[q] = file[p].t => /\ tty[file[p].t].session = Session[q] /\ Session[q] > 0
      BY <2>1, <1>o, <1>n
    <3> QED BY <3>1, <3>2, <2>1
  <2> QED BY <2>1, <2>3, <2>4, HomeTakes
<1>3. ASSUME NEW g \in Proc, tiocspgrp(p, g) PROVE HomeInv'
  <2> DEFINE t == real_tty(file[p].t)
             r == [tty[t] EXCEPT !.pgrp = g]
  <2>1. /\ file[p].t # NULL /\ UNCHANGED <<file, loc, env, pc, ctty>>
        /\ tty[t].session = Session[p] /\ Session[g] = Session[p] /\ tty' = [tty EXCEPT ![t] = r]
        /\ ctty[p] = t
    BY <1>3 DEF tiocspgrp, InIoctl
  <2>2. t \in Line
    <3>1. file[p].t \in Line
      BY <2>1, OnLine
    <3> QED BY <3>1, <1>n, TtyAssumption DEF real_tty
  <2>3. r.pgrp = g /\ r.session = tty[t].session /\ Owner(tty[t], r)
    <3>1. tty[t] \in TtyStruct
      BY <2>2 DEF TypeOK
    <3> HIDE DEF t
    <3> QED BY <3>1 DEF TtyStruct, Owner
  <2>4. \A x \in Line : tty'[x] = IF x = t THEN r ELSE tty[x]
    BY <2>1, <2>2 DEF TypeOK
  <2> HIDE DEF r, t
  <2>5. \A x \in Line : Owner(tty[x], tty'[x]) /\ tty'[x].session = tty[x].session
    BY <2>3, <2>4 DEF Owner
  <2>6. CttySound'
    <3>1. \A x \in Line : tty'[x].pgrp # NULL => Session[tty'[x].pgrp] = tty'[x].session
      BY <2>1, <2>3, <2>4 DEF HomeInv, CttyInv, CttySound
    <3>2. \A q \in Proc : ctty'[q] # NULL =>
            tty'[ctty'[q]].live /\ tty'[ctty'[q]].session = Session[q]
      BY <2>1, <2>5, <1>o DEF Owner
    <3> QED BY <3>1, <3>2 DEF CttySound
  <2>7. \A q \in Proc : loc'[q].exit => Leaving(q)'
    <3>1. \A q \in Proc : loc[q].exit => loc[q].t \in Line /\ Leaving(q)
      BY OnLine DEF PlacedInv, Placed, Spot, HomeInv, CttyInv
    <3> QED BY <3>1, <2>1, <2>5 DEF Leaving, Owner
  <2> QED BY <2>1, <2>5, <2>6, <2>7, HomeOwner DEF CttyInv
<1>4. ASSUME tiocnotty(p) PROVE HomeInv'
  <2>1. /\ file[p].t \in Line /\ UNCHANGED <<file, loc, env, pc>> /\ ctty[p] = file[p].t
        /\ disown(p, file[p].t) \/ (ctty' = [ctty EXCEPT ![p] = NULL] /\ UNCHANGED tty)
    <3>1. file[p].t # NULL
      BY <1>4 DEF tiocnotty, InIoctl
    <3> QED BY <3>1, <1>4, OnLine DEF tiocnotty
  <2>2. CASE disown(p, file[p].t)
    <3>1. \A q \in Proc : ctty[q] = file[p].t => Session[q] = Session[p]
      BY <2>1, <1>o, <1>n
    <3> QED BY <2>1, <2>2, <3>1, HomeDisowns
  <2>3. CASE ctty' = [ctty EXCEPT ![p] = NULL] /\ UNCHANGED tty
    <3>1. \A q \in Proc : ctty'[q] \in {NULL, ctty[q]}
      BY <2>3, <1>t
    <3>2. \A x \in Line : Owner(tty[x], tty'[x])
      BY <2>3 DEF Owner
    <3>3. CttySound'
      BY <2>3, <3>1 DEF HomeInv, CttyInv, CttySound
    <3>4. \A q \in Proc : loc'[q].exit => Leaving(q)'
      <4>1. \A q \in Proc : loc[q].exit => loc[q].t \in Line /\ Leaving(q)
        BY OnLine DEF PlacedInv, Placed, Spot, HomeInv, CttyInv
      <4> QED BY <4>1, <2>1, <2>3, <3>1, <1>n DEF Leaving
    <3> QED BY <2>1, <3>1, <3>2, <3>3, <3>4, HomeOwner DEF CttyInv
  <2> QED BY <2>1, <2>2, <2>3
<1>5. ASSUME disassociate_ctty_end(p) PROVE HomeInv'
  <2>1. /\ pc[p] = "exit" /\ disown(p, loc[p].t) /\ UNCHANGED <<file, env>>
        /\ pc'[p] = "dead" /\ loc'[p] = NoLoc
    BY <1>5, <1>t DEF disassociate_ctty_end, Go
  <2>2. loc[p].t \in Line /\ loc[p].exit
    BY <2>1, OnLine DEF PlacedInv, Placed, Spot
  <2>3. \A q \in Proc : ctty[q] = loc[p].t => Session[q] = Session[p]
    BY <2>2 DEF HomeInv, CttyInv, Leaving
  <2> QED BY <2>1, <2>2, <2>3, <1>f, HomeDisowns
<1> QED BY <1>1, <1>2, <1>3, <1>4, <1>5

(* Every step keeps the counts, the barred ttys and the owners.             *)
LEMMA HomeStep ==
  ASSUME Gentle, TypeOK, PlacedInv, LockInv, HomeInv, [Next]_vars
  PROVE  HomeInv'
<1>1. ASSUME NEW p \in Proc, Syscall(p) PROVE HomeInv'
  <2>1. CASE CalmCall(p) \/ tty_set_ldisc_lock(p) \/ tty_set_ldisc_open(p) \/ tty_vhangup_end(p)
    BY <1>1, <2>1, HomeStill
  <2>2. CASE \E t \in Line : tty_open(p, t) \/ ptmx_open(p, t)
    BY <2>2, HomeOpen
  <2>3. CASE \/ tty_open_end(p) \/ tiocsctty(p) \/ (\E g \in Proc : tiocspgrp(p, g))
             \/ tiocnotty(p) \/ disassociate_ctty_end(p)
    BY <1>1, <2>3, HomeCtty
  <2>4. CASE release_dev_count(p)
    BY <2>4, HomeCount
  <2>5. CASE release_mem(p)
    BY <2>5, HomeFree
  <2>6. CASE tty_vhangup(p)
    BY <2>6, HomeHangup
  <2> QED BY <1>1, <2>1, <2>2, <2>3, <2>4, <2>5, <2>6 DEF Syscall, CalmCall
<1> QED BY <1>1, HomeDriven, Steps

(* At first the ttys that are open live, and are counted.                   *)
LEMMA HomeInit == Init => LockInv /\ HomeInv
<1> SUFFICES ASSUME Init PROVE LockInv /\ HomeInv
  OBVIOUS
<1>n. /\ NULL \notin Line /\ \A x \in Line : Link[x] \in Line \cup {NULL} /\ Link[x] # x
      /\ \A x \in Line : Link[x] # NULL => Link[Link[x]] = x
      /\ IsFiniteSet(Proc) /\ Master \subseteq Line
  BY TtyAssumption
<1>e. /\ env \in Envs /\ env.opened \in [Proc -> Line \cup {NULL}]
      /\ \A q, r \in Proc : env.opened[q] \in Master /\ env.opened[q] = env.opened[r] => q = r
  BY TtyAssumption DEF Init
<1>f. \A q \in Proc : file[q].t = env.opened[q]
  BY DEF Init, NoFile
<1>0. \A q \in Proc : pc[q] = "user" /\ ~loc[q].exit /\ ctty[q] = NULL
  BY DEF Init, NoLoc
<1>1. LockInv
  BY <1>0 DEF Init, LockInv
<1>2. CloseInv
  BY <1>0 DEF CloseInv
<1> DEFINE n(x) == Cardinality({q \in Proc : env.opened[q] = x})
           o(x) == Cardinality({q \in Proc : Link[x] # NULL /\ env.opened[q] = Link[x]})
<1>3. \A x \in Line : n(x) = Cardinality(Files(x)) /\ n(x) \in Nat /\ o(x) \in Nat
                      /\ o(x) = (IF Link[x] # NULL THEN Cardinality(Files(Link[x])) ELSE 0)
  <2> SUFFICES ASSUME NEW x \in Line
      PROVE n(x) = Cardinality(Files(x)) /\ n(x) \in Nat /\ o(x) \in Nat
            /\ o(x) = (IF Link[x] # NULL THEN Cardinality(Files(Link[x])) ELSE 0)
    OBVIOUS
  <2>1. {q \in Proc : env.opened[q] = x} = Files(x)
    BY <1>f DEF Files
  <2>2. {q \in Proc : Link[x] # NULL /\ env.opened[q] = Link[x]}
          = IF Link[x] # NULL THEN Files(Link[x]) ELSE {}
    BY <1>f DEF Files
  <2> QED BY <2>1, <2>2, FilesFinite, FS_EmptySet
<1>4. \A x \in Line :
        tty[x] = IF n(x) + o(x) = 0 THEN Free
                 ELSE tty_ldisc_enable([initialize_tty_struct EXCEPT
                        !.count = IF IsSlave(x) /\ o(x) > 0 THEN n(x) + 1 ELSE n(x)])
  BY DEF Init
<1> HIDE DEF n, o
<1>5. \A x \in Line : /\ tty[x].live = (n(x) + o(x) # 0) /\ tty[x].pgrp = NULL
                      /\ n(x) + o(x) # 0 =>
                           tty[x].count = IF IsSlave(x) /\ o(x) > 0 THEN n(x) + 1 ELSE n(x)
                      /\ n(x) + o(x) = 0 => tty[x].count = 0
  <2>1. Free.live = FALSE /\ Free.pgrp = NULL /\ Free.count = 0
    BY DEF Free
  <2>2. \A c : LET r == tty_ldisc_enable([initialize_tty_struct EXCEPT !.count = c])
               IN r.live = TRUE /\ r.pgrp = NULL /\ r.count = c
    BY DEF Free, tty_ldisc_enable, initialize_tty_struct
  <2> QED BY <2>1, <2>2, <1>4
<1>6. CttyInv
  BY <1>0, <1>5 DEF CttyInv, CttySound
<1>7. ASSUME NEW x \in Master PROVE Cardinality(Files(x)) \in {0, 1}
  <2>1. CASE Files(x) = {}
    BY <2>1, FS_EmptySet
  <2>2. CASE Files(x) # {}
    <3>1. PICK q \in Proc : q \in Files(x)
      BY <2>2 DEF Files
    <3>2. Files(x) = {q}
      BY <3>1, <1>e, <1>f, <1>7 DEF Files
    <3> QED BY <3>2, FS_Singleton
  <2> QED BY <2>1, <2>2
<1>8. CountInv
  <2>1. ASSUME NEW q \in Proc, file[q].t # NULL PROVE tty[file[q].t].live
    <3>1. file[q].t \in Line /\ Files(file[q].t) # {}
      BY <2>1, <1>e, <1>f DEF Files
    <3>2. Cardinality(Files(file[q].t)) # 0
      BY <3>1, FilesFinite, FS_EmptySet
    <3>3. n(file[q].t) # 0 /\ n(file[q].t) \in Nat /\ o(file[q].t) \in Nat
      BY <3>1, <3>2, <1>3
    <3>4. n(file[q].t) + o(file[q].t) # 0
      BY <3>3
    <3> QED BY <3>1, <3>4, <1>5
  <2>2. ASSUME NEW x \in Line, Link[x] # NULL PROVE tty[x].live = tty[Link[x]].live
    <3>1. Link[x] \in Line /\ o(x) = n(Link[x]) /\ o(Link[x]) = n(x)
      BY <2>2, <1>n, <1>3
    <3>2. n(x) + o(x) = n(Link[x]) + o(Link[x])
      BY <3>1, <1>3
    <3> QED BY <3>1, <3>2, <1>5
  <2>3. \A q, r \in Proc : file[q].t \in Master /\ file[q].t = file[r].t => q = r
    BY <1>e, <1>f
  <2>4. ASSUME NEW x \in Line PROVE tty[x].count = Cardinality(Files(x)) + OnMaster(x)
    <3>1. CASE IsSlave(x)
      <4>1. Link[x] \in Master /\ OnMaster(x) = o(x) /\ o(x) = Cardinality(Files(Link[x]))
        BY <3>1, <1>3, TtyAssumption DEF IsSlave, OnMaster
      <4>2. o(x) \in {0, 1}
        BY <4>1, <1>7
      <4> QED BY <3>1, <4>1, <4>2, <1>3, <1>5
    <3>2. CASE ~IsSlave(x)
      <4>1. OnMaster(x) = 0 /\ n(x) \in Nat /\ o(x) \in Nat /\ n(x) = Cardinality(Files(x))
        BY <3>2, <1>3 DEF OnMaster
      <4>2. CASE n(x) + o(x) # 0
        <5>1. tty[x].count = n(x)
          BY <3>2, <4>2, <1>5
        <5> QED BY <4>1, <5>1
      <4>3. CASE n(x) + o(x) = 0
        <5>1. tty[x].count = 0 /\ n(x) = 0
          BY <4>1, <4>3, <1>5
        <5> QED BY <4>1, <5>1
      <4> QED BY <4>2, <4>3
    <3> QED BY <3>1, <3>2
  <2> QED BY <2>1, <2>2, <2>3, <2>4 DEF CountInv
<1> QED BY <1>1, <1>2, <1>6, <1>8 DEF HomeInv

(* The two invariants hold together.                                        *)
LEMMA HomeAlways == Gentle => (Spec => [](TypeOK /\ PlacedInv /\ LockInv /\ HomeInv))
<1> SUFFICES ASSUME Gentle PROVE Spec => [](TypeOK /\ PlacedInv /\ LockInv /\ HomeInv)
  OBVIOUS
<1>1. Init => TypeOK /\ PlacedInv /\ LockInv /\ HomeInv
  BY TypeInit, HomeInit
<1>2. TypeOK /\ PlacedInv /\ LockInv /\ HomeInv /\ [Next]_vars
      => (TypeOK /\ PlacedInv /\ LockInv /\ HomeInv)'
  BY TypeStep, PlacedStep, LockStep, HomeStep
<1> QED BY <1>1, <1>2, PTL DEF Spec

(* A controlling tty is live and belongs to the session of its process, and *)
(* its foreground process group is one of that session, through opens,      *)
(* steals, hangups, the exit of a leader and the close of either side.      *)
THEOREM TerminalsKeepTheirSession == Gentle => (Spec => []CttySound)
<1>1. HomeInv => CttySound
  BY DEF HomeInv, CttyInv
<1> QED BY <1>1, HomeAlways, PTL

(* tty->count is the number of files on the tty, and one more for a slave   *)
(* whose master is open.                                                    *)
THEOREM OpensAreCounted == Gentle => (Spec => []CountExact)
<1>1. ASSUME TypeOK, HomeInv, NEW t \in Line
      PROVE  tty[t].count = Cardinality(Files(t))
                            + (IF IsSlave(t) /\ tty[Link[t]].count > 0 THEN 1 ELSE 0)
  <2>0. /\ tty[t].count = Cardinality(Files(t)) + OnMaster(t)
        /\ Cardinality(Files(t)) \in Nat
    BY <1>1, FilesFinite DEF HomeInv, CountInv
  <2>1. CASE IsSlave(t)
    <3> DEFINE m == Link[t]
    <3>1. m \in Master /\ m \in Line /\ ~IsSlave(m)
      BY <2>1, TtyAssumption DEF IsSlave
    <3>2. tty[m].count = Cardinality(Files(m)) /\ Cardinality(Files(m)) \in Nat
      BY <1>1, <3>1, FilesFinite DEF HomeInv, CountInv, OnMaster
    <3>3. Cardinality(Files(m)) \in {0, 1}
      <4>1. CASE Files(m) = {}
        BY <4>1, FS_EmptySet
      <4>2. CASE Files(m) # {}
        <5>1. PICK q \in Proc : q \in Files(m)
          BY <4>2 DEF Files
        <5>2. Files(m) = {q}
          BY <1>1, <3>1, <5>1 DEF Files, HomeInv, CountInv
        <5> QED BY <5>2, FS_Singleton
      <4> QED BY <4>1, <4>2
    <3>4. OnMaster(t) = Cardinality(Files(m))
      BY <2>1 DEF OnMaster
    <3> QED BY <2>0, <2>1, <3>2, <3>3, <3>4
  <2>2. CASE ~IsSlave(t)
    BY <2>0, <2>2 DEF OnMaster
  <2> QED BY <2>1, <2>2
<1>2. TypeOK /\ HomeInv => CountExact
  BY <1>1 DEF CountExact
<1> QED BY <1>2, HomeAlways, PTL

-----------------------------------------------------------------------------
(* What is left to do for a tty, and who uses its discipline.               *)

(* A step on one field of a tty: does it count a user, or set TTY_DONT_FLIP? *)
Users0(r, s) == s.refs = r.refs /\ ("DONT_FLIP" \in s.flags => "DONT_FLIP" \in r.flags)

(* What the operations on one tty do to these two fields.                   *)
LEMMA FieldOps ==
  ASSUME NEW r \in TtyStruct
  PROVE  /\ Users0(r, r)
         /\ tty_ldisc_try(r).refs = r.refs + 1 /\ tty_ldisc_try(r).flags = r.flags
         /\ tty_ldisc_deref(r).refs = (IF r.refs > 0 THEN r.refs - 1 ELSE r.refs)
         /\ tty_ldisc_deref(r).flags = r.flags
         /\ \A b : Users0(r, [r EXCEPT !.stopped = b])
         /\ \A n : Users0(r, [r EXCEPT !.flip = n])
         /\ \A n : Users0(r, [r EXCEPT !.inq = n])
         /\ \A m, n : Users0(r, [r EXCEPT !.flip = m, !.inq = n])
         /\ \A g : Users0(r, [r EXCEPT !.writer = g])
         /\ Users0(r, [r EXCEPT !.flags = r.flags \ {"DONT_FLIP"}])
         /\ Users0(r, [r EXCEPT !.flags = r.flags \ {"EXCLUSIVE"}])
         /\ Users0(r, [r EXCEPT !.flags = r.flags \cup {"EXCLUSIVE"}])
         /\ [r EXCEPT !.flags = r.flags \cup {"DONT_FLIP"}, !.inq = 0].refs = r.refs
BY DEF Users0, TtyStruct, tty_ldisc_try, tty_ldisc_deref

TakesRef(p) == tty_read(p) \/ tty_write(p) \/ tty_poll(p) \/ (tty_vhangup(p) /\ loc'[p].ref)

GivesRef(p) == \/ tty_read_end(p) \/ do_tty_write_end(p) \/ tiocsti(p)
               \/ tty_vhangup_end(p) /\ loc[p].ref

(* A tty counts a user more, a user less, or as many; the reader alone sets *)
(* TTY_DONT_FLIP.                                                           *)
Counts(p, x) ==
  /\ tty'[x].refs = IF TakesRef(p) /\ x = loc'[p].t THEN tty[x].refs + 1
                    ELSE IF GivesRef(p) /\ x = loc[p].t /\ tty[x].refs > 0
                         THEN tty[x].refs - 1 ELSE tty[x].refs
  /\ "DONT_FLIP" \in tty'[x].flags =>
       "DONT_FLIP" \in tty[x].flags \/ (n_tty_read(p) /\ x = loc[p].t)

(* Which place a call that takes or gives a reference starts from.          *)
LEMMA RefPlaces ==
  ASSUME NEW p \in Proc
  PROVE  /\ TakesRef(p) => pc[p] \in {"user", "hangup"}
         /\ GivesRef(p) => pc[p] \in {"read", "copy", "write", "use", "hangup_end"}
BY DEF TakesRef, GivesRef, tty_read, tty_write, tty_poll, tty_ldisc_ref_wait, tty_vhangup,
   tty_read_end, do_tty_write_end, tiocsti, tty_vhangup_end

(* The calls that move no reference.                                        *)
LEMMA NoRefMoves ==
  ASSUME NEW p \in Proc, ~TakesRef(p), ~GivesRef(p), NEW x \in Line, Users0(tty[x], tty'[x])
  PROVE  Counts(p, x)
BY DEF Counts, Users0

(* A calm call counts its own reference and nobody else's.                  *)
LEMMA CalmFields ==
  ASSUME TypeOK, PlacedInv, NEW p \in Proc, CalmCall(p), NEW x \in Line
  PROVE  Counts(p, x)
<1>t. tty \in [Line -> TtyStruct] /\ \A y \in Line : tty[y] \in TtyStruct
  BY DEF TypeOK
<1>l. loc[p] \in Locals /\ loc \in [Proc -> Locals]
  BY DEF TypeOK
<1>u. ASSUME NEW t \in Line, NEW r, tty' = [tty EXCEPT ![t] = r]
      PROVE  tty'[x] = IF x = t THEN r ELSE tty[x]
  BY <1>t, <1>u
<1>1. CASE tty_release(p) \/ release_dev_closing(p) \/ release_dev_flush(p)
           \/ (\E d \in Ldisc : tty_set_ldisc(p, d)) \/ tty_set_ldisc_signal(p)
           \/ tioccons(p) \/ disassociate_ctty(p)
  <2>1. /\ UNCHANGED tty
        /\ pc[p] \in {"user", "close", "flush", "setd"}
        /\ pc[p] = "user" => pc'[p] # "read" /\ pc'[p] # "write" /\ pc'[p] # "use"
    <3>1. pc \in [Proc -> Place]
      BY DEF TypeOK
    <3> QED BY <1>1, <3>1 DEF tty_release, release_dev_closing, release_dev_flush, tty_set_ldisc,
       tty_set_ldisc_signal, tioccons, disassociate_ctty, InIoctl, driver_close, Go, Back
  <2>2. ~TakesRef(p) /\ ~GivesRef(p)
    <3>1. pc \in [Proc -> Place]
      BY DEF TypeOK
    <3>2. ~GivesRef(p)
      BY <2>1, RefPlaces
    <3>3. TakesRef(p) => pc[p] = "hangup" \/ pc'[p] \in {"read", "write", "use"}
      BY <3>1 DEF TakesRef, tty_read, tty_write, tty_poll, tty_ldisc_ref_wait, tty_vhangup, Go
    <3>4. TakesRef(p) => pc[p] \in {"user", "hangup"}
      BY RefPlaces
    <3> QED BY <2>1, <3>2, <3>3, <3>4
  <2> QED BY <2>1, <2>2, <1>t, FieldOps, NoRefMoves
(* A reference is taken.                                                    *)
<1>2. ASSUME TakesRef(p), ~GivesRef(p), NEW t \in Line, loc'[p].t = t,
             tty' = [tty EXCEPT ![t] = tty_ldisc_try(tty[t])]
      PROVE  Counts(p, x)
  <2>1. tty'[x] = IF x = t THEN tty_ldisc_try(tty[x]) ELSE tty[x]
    BY <1>2, <1>u
  <2>2. CASE x = t
    BY <2>1, <2>2, <1>2, <1>t, FieldOps DEF Counts
  <2>3. CASE x # t
    BY <2>1, <2>3, <1>2 DEF Counts
  <2> QED BY <2>2, <2>3
<1>3. CASE tty_read(p) \/ tty_poll(p)
  <2>1. file[p].t \in Line /\ tty' = [tty EXCEPT ![file[p].t] = tty_ldisc_try(tty[file[p].t])]
        /\ loc'[p] = [loc[p] EXCEPT !.t = file[p].t]
    BY <1>3, <1>l, OnLine DEF tty_read, tty_poll, tty_ldisc_ref_wait
  <2>2. TakesRef(p) /\ ~GivesRef(p) /\ loc'[p].t = file[p].t
    <3>1. loc'[p].t = file[p].t
      BY <2>1, <1>l, LocalFields
    <3>2. pc[p] = "user"
      BY <1>3 DEF tty_read, tty_poll, tty_ldisc_ref_wait
    <3> QED BY <1>3, <3>1, <3>2, RefPlaces DEF TakesRef
  <2> QED BY <2>1, <2>2, <1>2
<1>4. CASE tty_write(p)
  <2> DEFINE h == redirected_tty_write(p)
  <2>1. /\ file[p].t # NULL /\ tty' = [tty EXCEPT ![file[h].t] = tty_ldisc_try(tty[file[h].t])]
        /\ h = p \/ (h = redirect /\ redirect # NULL)
        /\ pc[p] = "user"
        /\ loc'[p] = [loc[p] EXCEPT !.t = file[h].t, !.via = h, !.left = Chunks]
    BY <1>4, <1>l DEF tty_write, tty_ldisc_ref_wait, redirected_tty_write
  <2> HIDE DEF h
  <2>2. h \in Proc /\ file[h].t # NULL
    <3>1. redirect # NULL => redirect \in Proc /\ Held(redirect) /\ Placed(redirect)
      BY DEF Held, TypeOK, PlacedInv
    <3> QED BY <2>1, <3>1 DEF Placed
  <2>3. file[h].t \in Line
    BY <2>2, OnLine
  <2>4. loc'[p].t = file[h].t
    BY <2>1, <1>l, LocalFields
  <2>5. TakesRef(p) /\ ~GivesRef(p)
    BY <2>1, <1>4, RefPlaces DEF TakesRef
  <2> QED BY <2>1, <2>3, <2>4, <2>5, <1>2
(* A reference is given back.                                               *)
<1>5. ASSUME GivesRef(p), ~TakesRef(p), NEW s \in TtyStruct, loc[p].t \in Line,
             Users0(tty[loc[p].t], s), tty' = [tty EXCEPT ![loc[p].t] = tty_ldisc_deref(s)]
      PROVE  Counts(p, x)
  <2>1. tty'[x] = IF x = loc[p].t THEN tty_ldisc_deref(s) ELSE tty[x]
    BY <1>5, <1>u
  <2>2. CASE x = loc[p].t
    <3>1. /\ tty'[x].refs = IF s.refs > 0 THEN s.refs - 1 ELSE s.refs
          /\ tty'[x].flags = s.flags /\ s.refs = tty[x].refs
          /\ "DONT_FLIP" \in s.flags => "DONT_FLIP" \in tty[x].flags
      BY <2>1, <2>2, <1>5, FieldOps DEF Users0
    <3> QED BY <3>1, <2>2, <1>5 DEF Counts
  <2>3. CASE x # loc[p].t
    BY <2>1, <2>3, <1>5 DEF Counts
  <2> QED BY <2>2, <2>3
<1>6. CASE tty_read_end(p) \/ do_tty_write_end(p) \/ tiocsti(p)
  <2> DEFINE r == tty[loc[p].t]
             w == IF r.writer = p THEN NULL ELSE r.writer
  <2>1. GivesRef(p) /\ pc[p] \in {"copy", "read", "write", "use"}
    BY <1>6 DEF GivesRef, tty_read_end, do_tty_write_end, tiocsti
  <2>2. ~TakesRef(p) /\ loc[p].t \in Line
    BY <2>1, RefPlaces, OnLine
  <2>3. /\ r \in TtyStruct /\ w \in Proc \cup {NULL} /\ \A n \in {0, 1} : r.inq + n \in Nat
    BY <2>2, <1>t DEF TtyStruct
  <2>4. \/ tty' = [tty EXCEPT ![loc[p].t] = tty_ldisc_deref(r)]
        \/ tty' = [tty EXCEPT ![loc[p].t] = tty_ldisc_deref(
                     [r EXCEPT !.flags = r.flags \ {"DONT_FLIP"}])]
        \/ tty' = [tty EXCEPT ![loc[p].t] = tty_ldisc_deref([r EXCEPT !.writer = w])]
        \/ \E n \in {0, 1} : tty' = [tty EXCEPT ![loc[p].t] = tty_ldisc_deref(
                     [r EXCEPT !.inq = r.inq + n])]
    BY <1>6 DEF tty_read_end, do_tty_write_end, tiocsti
  <2> HIDE DEF r, w
  <2>5. /\ r \in TtyStruct /\ Users0(r, r)
        /\ LET s == [r EXCEPT !.flags = r.flags \ {"DONT_FLIP"}] IN s \in TtyStruct /\ Users0(r, s)
        /\ LET s == [r EXCEPT !.writer = w] IN s \in TtyStruct /\ Users0(r, s)
        /\ \A n \in {0, 1} :
             LET s == [r EXCEPT !.inq = r.inq + n] IN s \in TtyStruct /\ Users0(r, s)
    <3>1. r.flags \ {"DONT_FLIP"} \in SUBSET Flag
      BY <2>3 DEF TtyStruct
    <3> QED BY <2>3, <3>1, FieldOps, SetField
  <2>6. ASSUME NEW s \in TtyStruct, Users0(r, s),
               tty' = [tty EXCEPT ![loc[p].t] = tty_ldisc_deref(s)]
        PROVE  Counts(p, x)
    BY <2>1, <2>2, <2>6, <1>5 DEF r
  <2>7. CASE tty' = [tty EXCEPT ![loc[p].t] = tty_ldisc_deref(r)]
    BY <2>5, <2>6, <2>7
  <2>8. CASE tty' = [tty EXCEPT ![loc[p].t] = tty_ldisc_deref(
                     [r EXCEPT !.flags = r.flags \ {"DONT_FLIP"}])]
    BY <2>5, <2>6, <2>8
  <2>9. CASE tty' = [tty EXCEPT ![loc[p].t] = tty_ldisc_deref([r EXCEPT !.writer = w])]
    BY <2>5, <2>6, <2>9
  <2>10. ASSUME NEW n \in {0, 1}, tty' = [tty EXCEPT ![loc[p].t] = tty_ldisc_deref(
                     [r EXCEPT !.inq = r.inq + n])]
         PROVE Counts(p, x)
    BY <2>5, <2>6, <2>10
  <2> QED BY <2>4, <2>7, <2>8, <2>9, <2>10
<1>7. CASE n_tty_read(p)
  <2> DEFINE s == [tty[loc[p].t] EXCEPT !.flags = tty[loc[p].t].flags \cup {"DONT_FLIP"}, !.inq = 0]
  <2>1. loc[p].t \in Line /\ tty' = [tty EXCEPT ![loc[p].t] = s] /\ pc'[p] = "copy"
    BY <1>7, OnLine DEF n_tty_read, Go, TypeOK
  <2>2. s.refs = tty[loc[p].t].refs
    BY <2>1, <1>t, FieldOps
  <2>3. tty'[x] = IF x = loc[p].t THEN s ELSE tty[x]
    BY <2>1, <1>u
  <2>4. ~TakesRef(p) /\ ~GivesRef(p)
    <3>1. pc[p] = "read" /\ pc \in [Proc -> Place]
      BY <1>7 DEF n_tty_read, TypeOK
    <3>2. ~TakesRef(p)
      BY <3>1, RefPlaces
    <3>3. ~GivesRef(p)
      BY <2>1, <3>1 DEF GivesRef, tty_read_end, do_tty_write_end, tiocsti, tty_vhangup_end, Back, Go
    <3> QED BY <3>2, <3>3
  <2> HIDE DEF s
  <2> QED BY <2>2, <2>3, <2>4, <1>7 DEF Counts
<1>8. CASE do_tty_write(p)
  <2> DEFINE s == [tty[loc[p].t] EXCEPT !.writer = p]
  <2>1. loc[p].t \in Line /\ tty' = [tty EXCEPT ![loc[p].t] = s] /\ pc' = pc /\ pc[p] = "write"
    BY <1>8, OnLine DEF do_tty_write
  <2>2. Users0(tty[loc[p].t], s)
    BY <2>1, <1>t, FieldOps
  <2>3. tty'[x] = IF x = loc[p].t THEN s ELSE tty[x]
    BY <2>1, <1>u
  <2>4. ~TakesRef(p) /\ ~GivesRef(p)
    <3>1. ~TakesRef(p)
      BY <2>1, RefPlaces
    <3>2. ~GivesRef(p)
      BY <2>1 DEF GivesRef, tty_read_end, do_tty_write_end, tiocsti, tty_vhangup_end, Back, Go, TypeOK
    <3> QED BY <3>1, <3>2
  <2> HIDE DEF s
  <2>5. Users0(tty[x], tty'[x])
    BY <2>2, <2>3, <1>t, FieldOps
  <2> QED BY <2>4, <2>5, NoRefMoves
<1>9. CASE tiocexcl(p)
  <2> DEFINE r == tty[file[p].t]
  <2>1. /\ file[p].t \in Line /\ pc' = pc /\ pc[p] = "user"
        /\ \/ tty' = [tty EXCEPT ![file[p].t] = [r EXCEPT !.flags = r.flags \ {"EXCLUSIVE"}]]
           \/ tty' = [tty EXCEPT ![file[p].t] = [r EXCEPT !.flags = r.flags \cup {"EXCLUSIVE"}]]
    BY <1>9, OnLine DEF tiocexcl, InIoctl
  <2>2. /\ Users0(r, [r EXCEPT !.flags = r.flags \ {"EXCLUSIVE"}])
        /\ Users0(r, [r EXCEPT !.flags = r.flags \cup {"EXCLUSIVE"}])
    BY <2>1, <1>t, FieldOps
  <2>3. Users0(tty[x], tty'[x])
    <3>1. Users0(tty[x], tty[x])
      BY <1>t, FieldOps
    <3>2. tty'[x] \in {tty[x], [r EXCEPT !.flags = r.flags \ {"EXCLUSIVE"}],
                       [r EXCEPT !.flags = r.flags \cup {"EXCLUSIVE"}]}
          /\ (x # file[p].t => tty'[x] = tty[x])
      BY <2>1, <1>u
    <3> HIDE DEF r
    <3> QED BY <2>2, <3>1, <3>2 DEF r
  <2>4. ~TakesRef(p) /\ ~GivesRef(p)
    <3>1. ~GivesRef(p)
      BY <2>1, RefPlaces
    <3>2. ~TakesRef(p)
      BY <2>1 DEF TakesRef, tty_read, tty_write, tty_poll, tty_ldisc_ref_wait, tty_vhangup, Go, TypeOK
    <3> QED BY <3>1, <3>2
  <2> QED BY <2>3, <2>4, NoRefMoves
<1> QED BY <1>1, <1>3, <1>4, <1>6, <1>7, <1>8, <1>9 DEF CalmCall

(* The calls that are not calm take and give no reference, but for hangups. *)
LEMMA OtherRefs ==
  ASSUME TypeOK, NEW p \in Proc,
         \/ pc[p] \in {"open", "count", "switch", "swflush", "free", "exit"}
         \/ pc[p] = "user" /\ pc'[p] \in {"user", "open"}
  PROVE  ~TakesRef(p) /\ ~GivesRef(p)
<1>1. pc \in [Proc -> Place]
  BY DEF TypeOK
<1>2. ~GivesRef(p)
  BY RefPlaces
<1>3. TakesRef(p) => pc[p] \in {"user", "hangup"}
  BY RefPlaces
<1>4. TakesRef(p) => pc[p] = "hangup" \/ pc'[p] \in {"read", "write", "use"}
  BY <1>1 DEF TakesRef, tty_read, tty_write, tty_poll, tty_ldisc_ref_wait, tty_vhangup, Go
<1> QED BY <1>2, <1>3, <1>4

(* A tty comes to life with its other side, and one is freed with it.       *)
Born(p, x) ==
  /\ pc[p] = "user" /\ pc'[p] = "open" /\ ~tty[x].live /\ tty'[x].live
  /\ tty'[x].flags = {"LDISC"} /\ tty'[x].refs = 0 /\ tty'[x].disc = N_TTY

Freed(p, x) == release_mem(p) /\ Side(x, loc[p].t) /\ tty'[x] = Free

(* Who enables a discipline: a change of it, or the end of a hangup.        *)
Enables(p, x) == \/ tty_set_ldisc_open(p) /\ x = file[p].t
                 \/ tty_vhangup_end(p) /\ loc[p].ref /\ x = loc[p].t

(* Others stay alive, and keep their discipline but for its owner's change. *)
Keeps(p, x) ==
  /\ "LDISC" \in tty'[x].flags => "LDISC" \in tty[x].flags \/ Enables(p, x)
  /\ tty'[x].live = tty[x].live
  /\ tty'[x].disc = tty[x].disc \/ (tty_set_ldisc_open(p) /\ x = file[p].t)

(* The open that brings a tty to life, and the others.                      *)
LEMMA OpenFields ==
  ASSUME TypeOK, PlacedInv, CountInv, NEW p \in Proc, Syscall(p),
         NEW t \in Line, tty_open(p, t) \/ ptmx_open(p, t), NEW x \in Line
  PROVE  Born(p, x) \/ (Counts(p, x) /\ Keeps(p, x))
<1>t. tty[x] \in TtyStruct /\ pc \in [Proc -> Place]
  BY DEF TypeOK
<1>1. init_dev(t) /\ pc[p] = "user" /\ pc'[p] = "open"
  BY <1>t DEF tty_open, ptmx_open, OpenFile, Go
<1>2. ~TakesRef(p) /\ ~GivesRef(p)
  BY <1>1, OtherRefs
<1>3. CASE tty[t].live \/ ~Side(x, t)
  <2>1. tty'[x].flags = tty[x].flags /\ tty'[x].refs = tty[x].refs
        /\ tty'[x].live = tty[x].live /\ tty'[x].disc = tty[x].disc
    <3>1. CASE ~Side(x, t)
      BY <3>1, <1>1, OpenEffect
    <3>2. CASE tty[t].live
      <4>1. /\ Alike([tty'[x] EXCEPT !.count = 0], [tty[x] EXCEPT !.count = 0])
            /\ tty'[x].flags = tty[x].flags /\ tty'[x].refs = tty[x].refs
        BY <3>2, <1>1, OpenEffect
      <4>2. tty'[x] \in TtyStruct
        <5>1. TypeOK'
          BY TypeStep DEF Next
        <5> QED BY <5>1 DEF TypeOK
      <4> QED BY <4>1, <4>2, <1>t DEF Alike, TtyStruct
    <3> QED BY <1>3, <3>1, <3>2
  <2> QED BY <2>1, <1>2, NoRefMoves DEF Users0, Keeps
<1>4. CASE ~tty[t].live /\ Side(x, t)
  <2>1. ~tty[x].live
    <3>1. x = t \/ (x = Link[t] /\ Link[t] # NULL)
      BY <1>4, TtyAssumption DEF Side
    <3> QED BY <3>1, <1>4 DEF CountInv
  <2>2. tty'[x].live /\ tty'[x].flags = {"LDISC"} /\ tty'[x].refs = 0 /\ tty'[x].disc = N_TTY
    BY <1>1, <1>4, OpenEffect
  <2> QED BY <1>1, <2>1, <2>2 DEF Born
<1> QED BY <1>3, <1>4

(* A change of the owner alone counts nothing.                              *)
LEMMA OwnerFields ==
  ASSUME TypeOK, NEW p \in Proc, NEW x \in Line, Owner(tty[x], tty'[x]),
         \/ pc[p] \in {"open", "count", "switch", "swflush", "free", "exit"}
         \/ pc[p] = "user" /\ pc'[p] \in {"user", "open"}
  PROVE  Counts(p, x) /\ Keeps(p, x)
BY OtherRefs, NoRefMoves DEF Owner, Users0, Keeps

(* What a call does to the users of a tty.                                  *)
LEMMA CallFields ==
  ASSUME TypeOK, PlacedInv, CountInv, NEW p \in Proc, Syscall(p), NEW x \in Line
  PROVE  \/ Counts(p, x) /\ Keeps(p, x)
         \/ Born(p, x) \/ Freed(p, x)
<1>t. tty \in [Line -> TtyStruct] /\ pc \in [Proc -> Place] /\ loc \in [Proc -> Locals]
  BY DEF TypeOK
<1>s. Owner(tty[x], tty[x])
  BY DEF Owner
<1>1. CASE CalmCall(p)
  BY <1>1, CalmFields, CalmCalls DEF Calm, Alike, Keeps
<1>2. CASE \E t \in Line : tty_open(p, t) \/ ptmx_open(p, t)
  BY <1>2, OpenFields
<1>3. CASE tty_open_end(p)
  <2>1. pc[p] = "open" /\ (tty' = tty \/ SetOwner(file[p].t, Session[p], p))
    BY <1>3 DEF tty_open_end, SetOwner
  <2>2. file[p].t \in Line /\ Session[p] \in Nat /\ p \in Proc \cup {NULL}
    BY <2>1, OnLine, TtyAssumption DEF OnFile
  <2>3. Owner(tty[x], tty'[x])
    BY <2>1, <2>2, <1>s, OwnerStep
  <2> QED BY <2>1, <2>3, OwnerFields
<1>4. CASE tiocsctty(p)
  <2>1. /\ pc[p] = "user" /\ pc' = pc /\ file[p].t # NULL
        /\ SetOwner(file[p].t, Session[p], p)
    BY <1>4 DEF tiocsctty, InIoctl, SetOwner
  <2>2. file[p].t \in Line /\ Session[p] \in Nat /\ p \in Proc \cup {NULL}
    BY <2>1, OnLine, TtyAssumption
  <2>3. Owner(tty[x], tty'[x])
    BY <2>1, <2>2, OwnerStep
  <2> QED BY <2>1, <2>3, OwnerFields
<1>5. ASSUME NEW g \in Proc, tiocspgrp(p, g)
      PROVE  Counts(p, x) /\ Keeps(p, x)
  <2> DEFINE t == real_tty(file[p].t)
             r == [tty[t] EXCEPT !.pgrp = g]
  <2>1. /\ pc[p] = "user" /\ pc' = pc /\ file[p].t # NULL /\ tty' = [tty EXCEPT ![t] = r]
    BY <1>5 DEF tiocspgrp, InIoctl
  <2>2. t \in Line
    <3>1. file[p].t \in Line
      BY <2>1, OnLine
    <3> QED BY <3>1, TtyAssumption DEF real_tty
  <2>3. Owner(tty[t], r)
    <3>1. tty[t] \in TtyStruct
      BY <2>2, <1>t
    <3> HIDE DEF t
    <3> QED BY <3>1 DEF TtyStruct, Owner
  <2>4. tty'[x] = IF x = t THEN r ELSE tty[x]
    BY <2>1, <2>2, <1>t
  <2> HIDE DEF r, t
  <2>5. Owner(tty[x], tty'[x])
    BY <2>3, <2>4, <1>s
  <2> QED BY <2>1, <2>5, OwnerFields
<1>6. CASE tiocnotty(p)
  <2>1. /\ pc[p] = "user" /\ pc' = pc /\ file[p].t # NULL
        /\ tty' = tty \/ SetOwner(file[p].t, 0, NULL)
    BY <1>6 DEF tiocnotty, InIoctl, SetOwner, disown
  <2>2. file[p].t \in Line /\ 0 \in Nat /\ NULL \in Proc \cup {NULL}
    BY <2>1, OnLine
  <2>3. Owner(tty[x], tty'[x])
    BY <2>1, <2>2, <1>s, OwnerStep
  <2> QED BY <2>1, <2>3, OwnerFields
<1>7. CASE disassociate_ctty_end(p)
  <2>1. pc[p] = "exit" /\ SetOwner(loc[p].t, 0, NULL)
    BY <1>7 DEF disassociate_ctty_end, SetOwner, disown
  <2>2. loc[p].t \in Line /\ 0 \in Nat /\ NULL \in Proc \cup {NULL}
    BY <2>1, OnLine
  <2>3. Owner(tty[x], tty'[x])
    BY <2>1, <2>2, OwnerStep
  <2> QED BY <2>1, <2>3, OwnerFields
<1>8. CASE release_dev_count(p)
  <2>1. pc[p] = "count"
    BY <1>8 DEF release_dev_count
  <2>2. ~TakesRef(p) /\ ~GivesRef(p)
    BY <2>1, OtherRefs
  <2>3. Keeps(p, x) /\ Users0(tty[x], tty'[x])
    BY <1>8, CountEffect DEF Users0, Keeps
  <2> QED BY <2>2, <2>3, NoRefMoves
<1>9. CASE tty_set_ldisc_lock(p) \/ tty_set_ldisc_open(p)
  <2>1. pc[p] \in {"switch", "swflush"}
    BY <1>9 DEF tty_set_ldisc_lock, tty_set_ldisc_open
  <2>2. ~TakesRef(p) /\ ~GivesRef(p) /\ file[p].t \in Line
    BY <2>1, OtherRefs, OnLine DEF OnFile
  <2>3. Keeps(p, x) /\ Users0(tty[x], tty'[x])
    BY <1>9, <2>2, LockEffect, SetEffect DEF Users0, Keeps, Enables
  <2> QED BY <2>2, <2>3, NoRefMoves
<1>10. CASE release_mem(p)
  <2> DEFINE t == loc[p].t
  <2>1. tty'[x] = IF x \in {t} \cup ({Link[t]} \ {NULL}) THEN Free ELSE tty[x]
    BY <1>10 DEF release_mem
  <2>2. pc[p] = "free" /\ NULL \notin Line
    BY <1>10, TtyAssumption DEF release_mem
  <2>3. CASE Side(x, t)
    BY <2>1, <2>2, <2>3, <1>10 DEF Side, Freed
  <2>4. CASE ~Side(x, t)
    <3>1. Owner(tty[x], tty'[x])
      BY <2>1, <2>4, <1>s DEF Side
    <3> QED BY <3>1, <2>2, OwnerFields
  <2> QED BY <2>3, <2>4
<1>11. CASE tty_vhangup(p)
  <2>1. pc[p] = "hangup" /\ hangup(loc[p].t) /\ pc'[p] = "hangup_end"
        /\ loc' = [loc EXCEPT ![p] = [loc[p] EXCEPT !.ref = "LDISC" \in tty[loc[p].t].flags]]
    BY <1>11, <1>t DEF tty_vhangup, Go
  <2>2. loc[p].t \in Line /\ loc[p] \in Locals
    BY <2>1, <1>t, OnLine
  <2>3. loc'[p].t = loc[p].t /\ (loc'[p].ref <=> "LDISC" \in tty[loc[p].t].flags)
    <3> DEFINE b == "LDISC" \in tty[loc[p].t].flags
    <3>1. b \in BOOLEAN /\ loc'[p] = [loc[p] EXCEPT !.ref = b]
      BY <2>1, <1>t
    <3> HIDE DEF b
    <3>2. loc'[p].t = loc[p].t /\ loc'[p].ref = b
      BY <3>1, <2>2 DEF Locals
    <3> QED BY <3>2 DEF b
  <2>4. ~GivesRef(p) /\ (TakesRef(p) <=> loc'[p].ref)
    <3>1. ~tty_read(p) /\ ~tty_write(p) /\ ~tty_poll(p)
      BY <2>1 DEF tty_read, tty_write, tty_poll, tty_ldisc_ref_wait
    <3> QED BY <3>1, <2>1, <1>11, RefPlaces DEF TakesRef
  <2>5. CASE x = loc[p].t
    <3>1. /\ Keeps(p, x) /\ tty'[x].flags = {}
          /\ tty'[x].refs = IF "LDISC" \in tty[x].flags THEN tty[x].refs + 1 ELSE tty[x].refs
      BY <2>1, <2>2, <2>5, HangupEffect DEF Keeps
    <3> QED BY <3>1, <2>3, <2>4, <2>5 DEF Counts
  <2>6. CASE x # loc[p].t
    <3>1. tty'[x] = tty[x]
      BY <2>1, <2>2, <2>6, HangupEffect
    <3> QED BY <3>1, <2>3, <2>4, <2>6 DEF Counts, Keeps
  <2> QED BY <2>5, <2>6
<1>12. CASE tty_vhangup_end(p)
  <2>1. pc[p] = "hangup_end" /\ hangup_end(loc[p].t, loc[p].ref)
    BY <1>12 DEF tty_vhangup_end
  <2>2. loc[p].t \in Line /\ loc[p].ref \in BOOLEAN
    BY <2>1, <1>t, OnLine DEF Locals
  <2>3. ~TakesRef(p) /\ (GivesRef(p) <=> loc[p].ref)
    <3>1. ~tty_read_end(p) /\ ~do_tty_write_end(p) /\ ~tiocsti(p)
      BY <2>1 DEF tty_read_end, do_tty_write_end, tiocsti
    <3> QED BY <3>1, <2>1, <1>12, RefPlaces DEF GivesRef
  <2>4. /\ Keeps(p, x)
        /\ "DONT_FLIP" \in tty'[x].flags <=> "DONT_FLIP" \in tty[x].flags
        /\ x # loc[p].t => tty'[x] = tty[x]
        /\ x = loc[p].t =>
             tty'[x].refs = IF loc[p].ref /\ tty[x].refs > 0 THEN tty[x].refs - 1 ELSE tty[x].refs
    BY <1>12, <2>1, <2>2, HangupEndEffect DEF Keeps, Enables
  <2> QED BY <2>3, <2>4 DEF Counts
<1> QED BY <1>1, <1>2, <1>3, <1>4, <1>5, <1>6, <1>7, <1>8, <1>9, <1>10, <1>11, <1>12
        DEF Syscall, CalmCall

(* The thread of the work queue uses the discipline of a tty.               *)
WorkUses(x) == wk.t = x /\ wk.ld

DriverCounts(x) ==
  /\ tty'[x].live = tty[x].live
  /\ "DONT_FLIP" \in tty'[x].flags => "DONT_FLIP" \in tty[x].flags
  /\ tty'[x].refs = IF ~WorkUses(x) /\ WorkUses(x)' THEN tty[x].refs + 1
                    ELSE IF WorkUses(x) /\ ~WorkUses(x)' /\ tty[x].refs > 0
                         THEN tty[x].refs - 1 ELSE tty[x].refs

(* Outside calls the thread of the work queue takes and gives references.   *)
LEMMA DrivenFields ==
  ASSUME TypeOK, WorkInv, Driven, NEW x \in Line
  PROVE  DriverCounts(x)
<1>t. /\ tty \in [Line -> TtyStruct] /\ \A y \in Line : tty[y] \in TtyStruct
      /\ NULL \notin Line /\ wk.t \in Line \cup {NULL} /\ wk.ld \in BOOLEAN
  BY TtyAssumption DEF TypeOK
<1>k. Idle.t = NULL /\ ~Idle.ld
  BY DEF Idle
<1>u. ASSUME NEW t \in Line, NEW r, tty' = [tty EXCEPT ![t] = r]
      PROVE  tty'[x] = IF x = t THEN r ELSE tty[x]
  BY <1>t, <1>u
<1>0. ASSUME Users0(tty[x], tty'[x]), tty'[x].live = tty[x].live, WorkUses(x) <=> WorkUses(x)'
      PROVE  DriverCounts(x)
  BY <1>0 DEF DriverCounts, Users0
<1>c. ASSUME Calm PROVE tty'[x].live = tty[x].live
  BY <1>c DEF Calm, Alike
<1>d. Calm \/ (\E t \in Line : do_tty_hangup(t)) \/ do_tty_hangup_end
  BY DrivenFrame
<1>1. ASSUME NEW t \in Line, Driver(t) PROVE DriverCounts(x)
  <2>1. Calm /\ UNCHANGED wk
    BY <1>1, CalmDriver DEF Driver, stop_tty, tty_flip_buffer_push, delayed_work, tty_hangup,
       do_SAK, Queue
  <2>2. Users0(tty[x], tty'[x])
    <3>1. \/ tty' = tty \/ tty' = [tty EXCEPT ![t] = [tty[t] EXCEPT !.stopped = ~tty[t].stopped]]
          \/ tty' = [tty EXCEPT ![t] = [tty[t] EXCEPT !.flip = tty[t].flip + 1]]
      BY <1>1 DEF Driver, stop_tty, tty_flip_buffer_push, delayed_work, tty_hangup, do_SAK, Queue
    <3>2. /\ Users0(tty[x], tty[x])
          /\ Users0(tty[t], [tty[t] EXCEPT !.stopped = ~tty[t].stopped])
          /\ Users0(tty[t], [tty[t] EXCEPT !.flip = tty[t].flip + 1])
      BY <1>t, FieldOps
    <3> QED BY <3>1, <3>2, <1>u
  <2> QED BY <2>1, <2>2, <1>c, <1>0 DEF WorkUses
<1>2. ASSUME NEW t \in Line, flush_to_ldisc(t) PROVE DriverCounts(x)
  <2>1. Calm /\ wk = Idle
    BY <1>2, CalmDriver DEF flush_to_ldisc, keventd, Driven
  <2>2. CASE UNCHANGED <<tty, wk>>
    <3>1. Users0(tty[x], tty'[x])
      BY <2>2, <1>t, FieldOps
    <3> QED BY <2>1, <2>2, <3>1, <1>0, <1>c DEF WorkUses
  <2>3. CASE tty' = [tty EXCEPT ![t] = tty_ldisc_try(tty[t])]
             /\ wk' = [pc |-> "flip", t |-> t, ld |-> TRUE]
    <3>1. wk'.t = t /\ wk'.ld
      BY <2>3
    <3>2. tty'[x] = IF x = t THEN tty_ldisc_try(tty[x]) ELSE tty[x]
      BY <2>3, <1>u
    <3>3. ~WorkUses(x) /\ (WorkUses(x)' <=> x = t)
      BY <2>1, <3>1, <1>k, <1>t DEF WorkUses
    <3>4. /\ tty_ldisc_try(tty[x]).refs = tty[x].refs + 1
          /\ tty_ldisc_try(tty[x]).flags = tty[x].flags
      BY <1>t, FieldOps
    <3> QED BY <2>1, <3>2, <3>3, <3>4, <1>c DEF DriverCounts
  <2> QED BY <1>2, <2>2, <2>3 DEF flush_to_ldisc
<1>3. ASSUME NEW t \in Line, __do_SAK(t) PROVE DriverCounts(x)
  <2>1. Calm /\ wk = Idle
    BY <1>3, CalmDriver DEF __do_SAK, keventd, Driven
  <2>2. ~WorkUses(x) /\ ~WorkUses(x)'
    <3>1. wk'.t = NULL
      BY <1>3, <2>1, <1>k DEF __do_SAK, Idle
    <3> QED BY <2>1, <3>1, <1>k, <1>t DEF WorkUses
  <2>3. Users0(tty[x], tty'[x])
    <3>1. tty' = tty \/ tty' = [tty EXCEPT ![t] = [tty[t] EXCEPT !.inq = 0]]
      BY <1>3 DEF __do_SAK
    <3>2. Users0(tty[x], tty[x]) /\ Users0(tty[t], [tty[t] EXCEPT !.inq = 0])
      BY <1>t, FieldOps
    <3> QED BY <3>1, <3>2, <1>u
  <2> QED BY <2>1, <2>2, <2>3, <1>0, <1>c
<1>4. ASSUME flush_to_ldisc_end PROVE DriverCounts(x)
  <2> DEFINE n == tty[wk.t].inq + tty[wk.t].flip
             m == IF n > FlipMax THEN FlipMax ELSE n
             s == [tty[wk.t] EXCEPT !.flip = 0, !.inq = m]
  <2>1. Calm /\ wk.t \in Line /\ wk.ld /\ wk' = Idle
    BY <1>4, CalmDriver DEF flush_to_ldisc_end, keventd, Driven, TypeOK, WorkInv
  <2>2. m \in Nat
    <3>1. n \in Nat
      BY <2>1, <1>t DEF TtyStruct
    <3> QED BY <3>1, TtyAssumption
  <2>3. \/ tty' = [tty EXCEPT ![wk.t] = tty_ldisc_deref(tty[wk.t])]
        \/ tty' = [tty EXCEPT ![wk.t] = tty_ldisc_deref(s)]
    BY <1>4 DEF flush_to_ldisc_end
  <2> HIDE DEF m
  <2>4. s \in TtyStruct /\ Users0(tty[wk.t], s) /\ Users0(tty[wk.t], tty[wk.t])
    <3>1. tty[wk.t] \in TtyStruct
      BY <2>1, <1>t
    <3>2. s \in TtyStruct
      BY <3>1, <2>2 DEF TtyStruct
    <3>3. Users0(tty[wk.t], s) /\ Users0(tty[wk.t], tty[wk.t])
      BY <3>1, FieldOps
    <3> QED BY <3>2, <3>3
  <2> HIDE DEF s
  <2>5. WorkUses(x)' = FALSE /\ (WorkUses(x) <=> x = wk.t)
    BY <2>1, <1>k, <1>t DEF WorkUses
  <2>6. ASSUME NEW r \in TtyStruct, Users0(tty[wk.t], r),
               tty' = [tty EXCEPT ![wk.t] = tty_ldisc_deref(r)]
        PROVE  DriverCounts(x)
    <3>1. tty'[x] = IF x = wk.t THEN tty_ldisc_deref(r) ELSE tty[x]
      BY <2>1, <2>6, <1>u
    <3>2. /\ tty_ldisc_deref(r).refs = IF r.refs > 0 THEN r.refs - 1 ELSE r.refs
          /\ tty_ldisc_deref(r).flags = r.flags
      BY FieldOps
    <3>3. /\ r.refs = tty[wk.t].refs
          /\ "DONT_FLIP" \in r.flags => "DONT_FLIP" \in tty[wk.t].flags
      BY <2>6 DEF Users0
    <3>4. tty'[x].live = tty[x].live
      BY <2>1, <1>c
    <3>5. CASE x = wk.t
      BY <3>1, <3>2, <3>3, <3>4, <3>5, <2>5 DEF DriverCounts
    <3>6. CASE x # wk.t
      BY <3>1, <3>4, <3>6, <2>5 DEF DriverCounts
    <3> QED BY <3>5, <3>6
  <2> QED BY <2>1, <2>3, <2>4, <2>6, <1>t
<1>5. ASSUME NEW t \in Line, do_tty_hangup(t) PROVE DriverCounts(x)
  <2>1. /\ hangup(t) /\ wk = Idle
        /\ wk' = [pc |-> "hangup", t |-> t, ld |-> "LDISC" \in tty[t].flags]
    BY <1>5 DEF do_tty_hangup
  <2>2. ~WorkUses(x) /\ (WorkUses(x)' <=> x = t /\ "LDISC" \in tty[t].flags)
    <3>1. wk'.t = t /\ (wk'.ld <=> "LDISC" \in tty[t].flags)
      BY <2>1
    <3> QED BY <2>1, <3>1, <1>k, <1>t DEF WorkUses
  <2>3. /\ tty'[x].live = tty[x].live /\ (x # t => tty'[x] = tty[x])
        /\ x = t => /\ tty'[x].flags = {}
                    /\ tty'[x].refs = IF "LDISC" \in tty[t].flags THEN tty[t].refs + 1
                                                                  ELSE tty[t].refs
    BY <2>1, HangupEffect
  <2> QED BY <2>2, <2>3 DEF DriverCounts
<1>6. ASSUME do_tty_hangup_end PROVE DriverCounts(x)
  <2>1. wk.t \in Line /\ hangup_end(wk.t, wk.ld) /\ wk' = Idle
    BY <1>6 DEF do_tty_hangup_end, TypeOK
  <2>2. WorkUses(x)' = FALSE /\ (WorkUses(x) <=> x = wk.t /\ wk.ld)
    BY <2>1, <1>k, <1>t DEF WorkUses
  <2>3. /\ tty'[x].live = tty[x].live /\ (x # wk.t => tty'[x] = tty[x])
        /\ "DONT_FLIP" \in tty'[x].flags <=> "DONT_FLIP" \in tty[x].flags
        /\ x = wk.t => tty'[x].refs = IF wk.ld /\ tty[x].refs > 0 THEN tty[x].refs - 1
                                                                  ELSE tty[x].refs
    BY <2>1, <1>t, HangupEndEffect
  <2> QED BY <2>2, <2>3 DEF DriverCounts
<1>7. CASE (\E d \in Ldisc : tty_register_ldisc(d)) \/ UNCHANGED vars
  <2>1. UNCHANGED <<tty, wk>>
    BY <1>7 DEF tty_register_ldisc, vars
  <2>2. Users0(tty[x], tty'[x])
    BY <2>1, <1>t, FieldOps
  <2> QED BY <2>1, <2>2, <1>0 DEF WorkUses
<1> QED BY <1>1, <1>2, <1>3, <1>4, <1>5, <1>6, <1>7 DEF Driven, keventd

(* Who is about to free a tty or to restart its delayed work, and how a     *)
(* call leaves work behind.                                                 *)
LEMMA WorkArrivals ==
  ASSUME TypeOK, PlacedInv, NEW p \in Proc, Syscall(p)
  PROVE  /\ pc'[p] = "flush" => release_dev_count(p)
         /\ pc'[p] = "free" => release_dev_flush(p)
         /\ pc'[p] = "swflush" => tty_set_ldisc_lock(p)
         /\ \A x \in timer' : \/ x \in timer
                              \/ tty_set_ldisc_open(p) /\ loc[p].work /\ x = file[p].t
<1>t. /\ pc \in [Proc -> Place] /\ loc \in [Proc -> Locals]
  BY DEF TypeOK
<1>f. pc[p] = "flush" => release_dev_flush(p)
  BY DEF Syscall, tty_open, ptmx_open, OpenFile, tty_open_end, tty_release, release_dev_closing,
     release_dev_count, release_mem, tty_set_ldisc, tty_set_ldisc_lock, tty_set_ldisc_signal,
     tty_set_ldisc_open, tty_read, n_tty_read, tty_read_end, tty_write, do_tty_write,
     do_tty_write_end, tty_poll, tiocsti, tiocsctty, tiocspgrp, tiocnotty, tiocexcl, tioccons,
     InIoctl, tty_ldisc_ref_wait, disassociate_ctty, disassociate_ctty_end, tty_vhangup,
     tty_vhangup_end
<1>g. pc[p] = "free" => release_mem(p)
  BY DEF Syscall, tty_open, ptmx_open, OpenFile, tty_open_end, tty_release, release_dev_closing,
     release_dev_count, release_dev_flush, tty_set_ldisc, tty_set_ldisc_lock, tty_set_ldisc_signal,
     tty_set_ldisc_open, tty_read, n_tty_read, tty_read_end, tty_write, do_tty_write,
     do_tty_write_end, tty_poll, tiocsti, tiocsctty, tiocspgrp, tiocnotty, tiocexcl, tioccons,
     InIoctl, tty_ldisc_ref_wait, disassociate_ctty, disassociate_ctty_end, tty_vhangup,
     tty_vhangup_end
<1>h. pc[p] = "swflush" => tty_set_ldisc_open(p)
  BY DEF Syscall, tty_open, ptmx_open, OpenFile, tty_open_end, tty_release, release_dev_closing,
     release_dev_count, release_dev_flush, release_mem, tty_set_ldisc, tty_set_ldisc_lock,
     tty_set_ldisc_signal, tty_read, n_tty_read, tty_read_end, tty_write, do_tty_write,
     do_tty_write_end, tty_poll, tiocsti, tiocsctty, tiocspgrp, tiocnotty, tiocexcl, tioccons,
     InIoctl, tty_ldisc_ref_wait, disassociate_ctty, disassociate_ctty_end, tty_vhangup,
     tty_vhangup_end
<1>l. /\ release_dev_flush(p) => pc'[p] = "free"
      /\ release_mem(p) => pc'[p] = "user"
      /\ tty_set_ldisc_open(p) => pc'[p] = "user"
  BY <1>t DEF release_dev_flush, release_mem, tty_set_ldisc_open, Go, Back
<1>1. pc[p] \notin {"flush", "free", "swflush"} /\ pc'[p] \in {"flush", "free", "swflush"} =>
        \/ release_dev_count(p) /\ pc'[p] = "flush"
        \/ tty_set_ldisc_lock(p) /\ pc'[p] = "swflush"
  <2> SUFFICES ASSUME pc[p] \notin {"flush", "free", "swflush"}, ~release_dev_count(p),
                      ~tty_set_ldisc_lock(p)
               PROVE  pc'[p] \notin {"flush", "free", "swflush"}
    <3>1. release_dev_count(p) => pc'[p] \in {"flush", "user"}
      BY <1>t DEF release_dev_count, Go, Back
    <3>2. tty_set_ldisc_lock(p) => pc'[p] \in {"setd", "swflush"}
      BY <1>t DEF tty_set_ldisc_lock, Go
    <3> QED BY <3>1, <3>2
  <2>1. CASE tty_open_end(p) \/ tty_release(p) \/ release_dev_closing(p)
             \/ (\E t \in Line : tty_open(p, t) \/ ptmx_open(p, t))
             \/ (\E d \in Ldisc : tty_set_ldisc(p, d)) \/ tty_set_ldisc_signal(p)
             \/ disassociate_ctty(p) \/ disassociate_ctty_end(p) \/ tty_vhangup(p)
             \/ tty_vhangup_end(p)
    BY <2>1, <1>t DEF tty_open, ptmx_open, OpenFile, tty_open_end, tty_release, driver_close,
       release_dev_closing, tty_set_ldisc, tty_set_ldisc_signal, disassociate_ctty,
       disassociate_ctty_end, tty_vhangup, tty_vhangup_end, Go, Back
  <2>2. CASE \/ tty_read(p) \/ n_tty_read(p) \/ tty_read_end(p) \/ tty_write(p)
             \/ do_tty_write(p) \/ do_tty_write_end(p) \/ tty_poll(p) \/ tiocsti(p)
             \/ tiocsctty(p) \/ (\E g \in Proc : tiocspgrp(p, g)) \/ tiocnotty(p)
             \/ tiocexcl(p) \/ tioccons(p)
    BY <2>2, <1>t DEF tty_read, n_tty_read, tty_read_end, tty_write, do_tty_write,
       do_tty_write_end, tty_poll, tiocsti, tty_ldisc_ref_wait, tiocsctty, tiocspgrp, tiocnotty,
       tiocexcl, tioccons, Go, Back
  <2>3. ~release_dev_flush(p) /\ ~release_mem(p) /\ ~tty_set_ldisc_open(p)
    BY DEF release_dev_flush, release_mem, tty_set_ldisc_open
  <2> QED BY <2>1, <2>2, <2>3 DEF Syscall
<1>2. ASSUME NEW x \in timer', x \notin timer
      PROVE  tty_set_ldisc_open(p) /\ loc[p].work /\ x = file[p].t
  BY <1>2 DEF Syscall, tty_open, ptmx_open, OpenFile, tty_open_end, tty_release,
     release_dev_closing, release_dev_count, release_dev_flush, release_mem, tty_set_ldisc,
     tty_set_ldisc_lock, tty_set_ldisc_signal, tty_set_ldisc_open, tty_read, n_tty_read,
     tty_read_end, tty_write, do_tty_write, do_tty_write_end, tty_poll, tiocsti, tiocsctty,
     tiocspgrp, tiocnotty, tiocexcl, tioccons, disassociate_ctty,
     disassociate_ctty_end, tty_vhangup, tty_vhangup_end
<1> QED BY <1>f, <1>g, <1>h, <1>l, <1>1, <1>2

(* The tty a process works on is open, or its own to free or to hang up.    *)
LEMMA LocalsLive ==
  ASSUME TypeOK, PlacedInv, HomeInv
  PROVE  LiveLocals
<1>n. /\ NULL \notin Line /\ Master \subseteq Line /\ \A x \in Master : Link[x] # NULL
      /\ \A x \in Line : Link[x] \in Line \cup {NULL}
  BY TtyAssumption
<1> SUFFICES ASSUME NEW p \in Proc, loc[p].t # NULL PROVE tty[loc[p].t].live
  BY DEF LiveLocals
<1>p. Spot(p) /\ pc[p] \in Place /\ \A q \in Proc : file[q].t # NULL => tty[file[q].t].live
  BY DEF PlacedInv, Placed, TypeOK, HomeInv, CountInv
<1>1. CASE pc[p] \in {"read", "copy", "use"}
  BY <1>1, <1>p DEF Spot, OnFile
<1>2. CASE pc[p] = "write"
  BY <1>2, <1>p, OnLine DEF Spot
<1>3. CASE pc[p] \in {"flush", "free"}
  <2>1. loc[p].t \in Line
    BY <1>3, OnLine
  <2> QED BY <1>3, <2>1 DEF HomeInv, CloseInv, Side, Deserted
<1>4. CASE loc[p].exit
  BY <1>4 DEF HomeInv, CttyInv, Leaving
<1>5. CASE pc[p] \in {"hangup", "hangup_end"} /\ ~loc[p].exit
  <2>1. file[p].t \in Master /\ loc[p].t = Link[file[p].t]
    BY <1>5, <1>p DEF Spot
  <2>2. tty[file[p].t].live /\ Link[file[p].t] # NULL
    BY <2>1, <1>n, <1>p
  <2> QED BY <2>1, <2>2, <1>n DEF HomeInv, CountInv
<1>6. CASE pc[p] = "exit"
  BY <1>4, <1>6, <1>p DEF Spot
<1> QED BY <1>1, <1>2, <1>3, <1>4, <1>5, <1>6, <1>p DEF Spot, Place

(* The calls leave no work behind for a tty they free, and none for a tty   *)
(* somebody else frees.                                                     *)
LEMMA WorkCall ==
  ASSUME TypeOK, PlacedInv, HomeInv, WorkInv, FlushInv, NEW p \in Proc, Syscall(p)
  PROVE  WorkInv' /\ FlushInv'
<1>n. /\ NULL \notin Line /\ \A x \in Line : Link[x] \in Line \cup {NULL} /\ Link[x] # x
      /\ \A x \in Line : Link[x] # NULL => Link[Link[x]] = x
  BY TtyAssumption
<1>t. /\ pc \in [Proc -> Place] /\ loc \in [Proc -> Locals] /\ tty \in [Line -> TtyStruct]
      /\ timer \subseteq Line /\ wk.t \in Line \cup {NULL}
      /\ \A w \in work : w[2] \in Line
      /\ \A q \in Proc : file[q].t \in Line \cup {NULL} /\ loc[q].t \in Line \cup {NULL}
  BY DEF TypeOK, File, Locals
<1>f. /\ UNCHANGED <<work, wk>>
      /\ \A q \in Proc : q # p => pc'[q] = pc[q] /\ loc'[q] = loc[q] /\ file'[q].t = file[q].t
  BY CallFrame
<1>a. /\ pc'[p] = "flush" => release_dev_count(p)
      /\ pc'[p] = "free" => release_dev_flush(p)
      /\ pc'[p] = "swflush" => tty_set_ldisc_lock(p)
      /\ \A x \in timer' : \/ x \in timer
                           \/ tty_set_ldisc_open(p) /\ loc[p].work /\ x = file[p].t
  BY WorkArrivals
<1>c. \A x \in Line : \/ Counts(p, x) /\ Keeps(p, x)
                      \/ Born(p, x) \/ Freed(p, x)
  BY CallFields DEF HomeInv
<1>l. \A x \in Line : tty[x].live => tty'[x].live \/ Freed(p, x)
  BY <1>c DEF Born, Keeps
<1>d. ASSUME NEW x \in Line, Freed(p, x)
      PROVE  x \notin timer /\ wk.t # x /\ \A w \in work : w[2] # x
  <2>1. pc[p] = "free" /\ Side(x, loc[p].t)
    BY <1>d DEF Freed, release_mem
  <2> QED BY <2>1 DEF FlushInv
<1>s. tty_set_ldisc_open(p) /\ loc[p].work =>
        file[p].t \in Line /\ Link[file[p].t] = NULL /\ tty[file[p].t].live
        /\ \A x : ~Freed(p, x)
  <2> SUFFICES ASSUME tty_set_ldisc_open(p), loc[p].work
               PROVE  file[p].t \in Line /\ Link[file[p].t] = NULL /\ tty[file[p].t].live
                      /\ \A x : ~Freed(p, x)
    OBVIOUS
  <2>1. pc[p] = "swflush"
    BY DEF tty_set_ldisc_open
  <2>2. file[p].t \in Line
    BY <2>1, OnLine DEF OnFile
  <2> QED BY <2>1, <2>2, <1>n DEF WorkInv, HomeInv, CountInv, Freed, release_mem
<1>1. \A x \in timer' : tty'[x].live /\ Link[x] = NULL
  <2> SUFFICES ASSUME NEW x \in timer' PROVE tty'[x].live /\ Link[x] = NULL
    OBVIOUS
  <2>1. CASE x \in timer
    BY <2>1, <1>t, <1>l, <1>d DEF WorkInv
  <2>2. CASE tty_set_ldisc_open(p) /\ loc[p].work /\ x = file[p].t
    BY <2>2, <1>s, <1>l
  <2> QED BY <2>1, <2>2, <1>a
<1>2. \A w \in work' : tty'[w[2]].live /\ (w[1] = "flip" => Link[w[2]] = NULL)
  BY <1>f, <1>t, <1>l, <1>d DEF WorkInv
<1>3. wk'.t # NULL => tty'[wk'.t].live
  BY <1>f, <1>t, <1>l, <1>d DEF WorkInv
<1>4. \A q \in Proc : pc'[q] = "swflush" /\ loc'[q].work => Link[file'[q].t] = NULL
  <2> SUFFICES ASSUME NEW q \in Proc, pc'[q] = "swflush", loc'[q].work
               PROVE  Link[file'[q].t] = NULL
    OBVIOUS
  <2>1. CASE q # p
    BY <2>1, <1>f DEF WorkInv
  <2>2. CASE q = p
    <3> DEFINE b == file[p].t \in timer
    <3>1. UNCHANGED file /\ loc'[p] = [loc[p] EXCEPT !.work = b]
      <4>1. tty_set_ldisc_lock(p)
        BY <2>2, <1>a
      <4>2. Go(p, "setd") => pc'[p] # "swflush"
        BY <1>t DEF Go
      <4> QED BY <4>1, <4>2, <2>2, <1>t DEF tty_set_ldisc_lock
    <3>2. loc'[p].work = b
      <4> HIDE DEF b
      <4> QED BY <3>1, <1>t DEF Locals
    <3> QED BY <2>2, <3>1, <3>2 DEF WorkInv
  <2> QED BY <2>1, <2>2
<1>5. WorkInv'
  BY <1>1, <1>2, <1>3, <1>4, <1>f DEF WorkInv
<1>6. ASSUME NEW q \in Proc, pc'[q] \in {"flush", "free"}, NEW x \in Line, Side(x, loc'[q].t)
      PROVE  /\ x \notin timer' /\ (Link[x] = NULL => "DONT_FLIP" \notin tty'[x].flags)
             /\ pc'[q] = "free" => wk'.t # x /\ \A w \in work' : w[2] # x
  <2>1. CASE q # p
    <3>1. /\ x \notin timer /\ (Link[x] = NULL => "DONT_FLIP" \notin tty[x].flags)
          /\ pc'[q] = "free" => wk.t # x /\ \A w \in work : w[2] # x
      BY <1>6, <2>1, <1>f DEF FlushInv
    <3>2. Files(x) = {} /\ loc[p].t # x
      BY <1>6, <2>1, <1>f DEF HomeInv, CloseInv, Deserted
    <3>3. x \notin timer'
      BY <3>1, <3>2, <1>a DEF Files
    <3>4. Link[x] = NULL => "DONT_FLIP" \notin tty'[x].flags
      <4>1. Free.flags = {}
        BY DEF Free
      <4> QED BY <3>1, <3>2, <4>1, <1>c DEF Counts, Born, Freed
    <3> QED BY <3>1, <3>3, <3>4, <1>f
  <2>2. CASE q = p /\ pc'[p] = "flush"
    <3> DEFINE t == file[p].t
    <3>1. release_dev_count(p)
      BY <2>2, <1>a
    <3>2. pc[p] = "count" /\ t \in Line
      BY <3>1, OnLine DEF release_dev_count, OnFile
    <3>3. /\ loc' = [loc EXCEPT ![p] = [loc[p] EXCEPT !.t = t]] /\ timer' = timer \ {t}
          /\ loc[p].closing /\ (Link[t] = NULL \/ loc[p].o_closing)
      <4>1. Go(p, "user") => pc'[p] # "flush"
        BY <1>t DEF Go
      <4> QED BY <3>1, <4>1, <2>2 DEF release_dev_count, Back
    <3>4. loc'[p].t = t
      BY <3>3, <1>t, LocalFields
    <3> HIDE DEF t
    <3>5. x = t \/ (x = Link[t] /\ Link[x] # NULL)
      BY <1>6, <2>2, <3>2, <3>4, <1>n DEF Side
    <3>6. x \notin timer'
      BY <3>3, <3>5 DEF WorkInv
    <3>7. x = t => "DONT_FLIP" \notin tty'[x].flags
      <4> SUFFICES ASSUME x = t PROVE "DONT_FLIP" \notin tty'[x].flags
        OBVIOUS
      <4> DEFINE n == uncount(t, tty[x], x)
                 g == (tty[x].flags \cup (IF (x = t /\ loc[p].closing)
                                             \/ (x = Link[t] /\ loc[p].o_closing)
                                          THEN {"CLOSING"} ELSE {})) \ {"LDISC", "DONT_FLIP"}
      <4>1. tty'[x] = [tty[x] EXCEPT !.count = n, !.flags = g]
        BY <3>1, <3>3 DEF release_dev_count, t
      <4>2. "DONT_FLIP" \notin g
        OBVIOUS
      <4> HIDE DEF n, g
      <4>3. tty'[x].flags = g
        BY <4>1, <1>t DEF TtyStruct
      <4> QED BY <4>2, <4>3
    <3> QED BY <2>2, <3>5, <3>6, <3>7
  <2>3. CASE q = p /\ pc'[p] = "free"
    <3>1. pc[p] = "flush" /\ flushed /\ UNCHANGED <<tty, timer, loc>>
      BY <2>3, <1>a DEF release_dev_flush
    <3>2. work = {} /\ wk.t = NULL
      BY <3>1 DEF flushed, Idle
    <3> QED BY <1>6, <2>3, <3>1, <3>2, <1>f, <1>n DEF FlushInv
  <2> QED BY <1>6, <2>1, <2>2, <2>3
<1> QED BY <1>5, <1>6 DEF FlushInv, Side

(* Where the driver's input and the queued work come from.                  *)
LEMMA WorkSources ==
  ASSUME TypeOK, WorkInv, Driven
  PROVE  /\ \A x \in timer' : \/ x \in timer \/ (x \in Line /\ Link[x] = NULL /\ Files(x) # {})
                              \/ wk.pc = "flip" /\ x = wk.t /\ "DONT_FLIP" \in tty[x].flags
         /\ \A w \in work' : \/ w \in work \/ (w[1] = "flip" /\ w[2] \in timer)
                             \/ w[1] # "flip" /\ w[2] \in Line /\ Files(w[2]) # {}
         /\ \/ wk' = wk \/ (wk'.t = NULL /\ wk'.pc # "flip")
            \/ wk'.pc = "flip" /\ wk'.ld /\ <<"flip", wk'.t>> \in work
            \/ wk'.pc = "hangup" /\ <<"hangup", wk'.t>> \in work
<1>k. Idle.t = NULL /\ Idle.pc = "idle"
  BY DEF Idle
<1>1. ASSUME NEW t \in Line, stop_tty(t) \/ tty_flip_buffer_push(t)
      PROVE  /\ UNCHANGED <<work, wk>>
             /\ \A x \in timer' : x \in timer \/ (x \in Line /\ Link[x] = NULL /\ Files(x) # {})
  BY <1>1 DEF stop_tty, tty_flip_buffer_push, delay
<1>2. ASSUME NEW t \in Line, delayed_work(t)
      PROVE  /\ UNCHANGED wk /\ timer' \subseteq timer
             /\ \A w \in work' : w \in work \/ (w[1] = "flip" /\ w[2] \in timer)
  BY <1>2 DEF delayed_work
<1>3. ASSUME NEW t \in Line, tty_hangup(t) \/ do_SAK(t)
      PROVE  /\ UNCHANGED <<timer, wk>>
             /\ \A w \in work' : w \in work \/ (w[1] # "flip" /\ w[2] \in Line /\ Files(w[2]) # {})
  BY <1>3 DEF tty_hangup, do_SAK, Queue
<1>4. ASSUME NEW t \in Line, flush_to_ldisc(t)
      PROVE  /\ timer' = timer /\ work' \subseteq work
             /\ wk' = wk \/ (wk'.pc = "flip" /\ wk'.ld /\ <<"flip", wk'.t>> \in work)
  BY <1>4 DEF flush_to_ldisc
<1>5. ASSUME NEW t \in Line, do_tty_hangup(t)
      PROVE  /\ timer' = timer /\ work' \subseteq work
             /\ wk'.pc = "hangup" /\ <<"hangup", wk'.t>> \in work
  BY <1>5 DEF do_tty_hangup
<1>6. ASSUME NEW t \in Line, __do_SAK(t)
      PROVE  /\ timer' = timer /\ work' \subseteq work
             /\ wk' = wk \/ (wk'.t = NULL /\ wk'.pc # "flip")
  BY <1>6 DEF __do_SAK, Idle
<1>7. ASSUME flush_to_ldisc_end
      PROVE  /\ UNCHANGED work /\ wk' = Idle
             /\ \A x \in timer' : \/ x \in timer
                                  \/ wk.pc = "flip" /\ x = wk.t /\ "DONT_FLIP" \in tty[x].flags
  BY <1>7 DEF flush_to_ldisc_end, delay
<1>8. ASSUME do_tty_hangup_end PROVE UNCHANGED <<work, timer>> /\ wk' = Idle
  BY <1>8 DEF do_tty_hangup_end
<1>9. ASSUME (\E d \in Ldisc : tty_register_ldisc(d)) \/ UNCHANGED vars
      PROVE  UNCHANGED <<work, timer, wk>>
  BY <1>9 DEF tty_register_ldisc, vars
<1>10. CASE \E t \in Line : Driver(t)
  BY <1>10, <1>1, <1>2, <1>3 DEF Driver
<1>11. CASE keventd
  BY <1>11, <1>4, <1>5, <1>6, <1>7, <1>8, <1>k DEF keventd
<1> QED BY <1>9, <1>10, <1>11 DEF Driven

(* The driver and the work queue bring nothing to a tty that nobody has     *)
(* open.                                                                    *)
LEMMA WorkDriven ==
  ASSUME TypeOK, PlacedInv, HomeInv, WorkInv, FlushInv, Driven
  PROVE  WorkInv' /\ FlushInv'
<1>n. NULL \notin Line
  BY TtyAssumption
<1>t. /\ timer \subseteq Line /\ wk.t \in Line \cup {NULL} /\ (wk.pc = "flip" => wk.t \in Line)
      /\ \A w \in work : w[2] \in Line
      /\ \A a, b : <<a, b>>[1] = a /\ <<a, b>>[2] = b
  BY DEF TypeOK
<1>f. UNCHANGED <<pc, loc>> /\ \A q \in Proc : file'[q].t = file[q].t
  BY DrivenFrame
<1>s. /\ \A x \in timer' : \/ x \in timer \/ (x \in Line /\ Link[x] = NULL /\ Files(x) # {})
                           \/ wk.pc = "flip" /\ x = wk.t /\ "DONT_FLIP" \in tty[x].flags
      /\ \A w \in work' : \/ w \in work \/ (w[1] = "flip" /\ w[2] \in timer)
                          \/ w[1] # "flip" /\ w[2] \in Line /\ Files(w[2]) # {}
      /\ \/ wk' = wk \/ (wk'.t = NULL /\ wk'.pc # "flip")
         \/ wk'.pc = "flip" /\ wk'.ld /\ <<"flip", wk'.t>> \in work
         \/ wk'.pc = "hangup" /\ <<"hangup", wk'.t>> \in work
  BY WorkSources
<1>l. \A x \in Line : /\ tty'[x].live = tty[x].live
                      /\ "DONT_FLIP" \in tty'[x].flags => "DONT_FLIP" \in tty[x].flags
  BY DrivenFields DEF DriverCounts
<1>o. \A x \in Line : Files(x) # {} => tty[x].live
  BY <1>n DEF Files, HomeInv, CountInv
<1>1. \A x \in timer' : tty'[x].live /\ Link[x] = NULL
  BY <1>n, <1>t, <1>s, <1>l, <1>o DEF WorkInv
<1>2. \A w \in work' : tty'[w[2]].live /\ (w[1] = "flip" => Link[w[2]] = NULL)
  BY <1>t, <1>s, <1>l, <1>o DEF WorkInv
<1>3. /\ wk'.t # NULL => tty'[wk'.t].live
      /\ wk'.pc = "flip" => Link[wk'.t] = NULL /\ wk'.ld
  BY <1>t, <1>s, <1>l DEF WorkInv
<1>4. WorkInv'
  BY <1>1, <1>2, <1>3, <1>f DEF WorkInv
<1>5. ASSUME NEW q \in Proc, pc'[q] \in {"flush", "free"}, NEW x \in Line, Side(x, loc'[q].t)
      PROVE  /\ x \notin timer' /\ (Link[x] = NULL => "DONT_FLIP" \notin tty'[x].flags)
             /\ pc'[q] = "free" => wk'.t # x /\ \A w \in work' : w[2] # x
  <2>1. /\ x \notin timer /\ (Link[x] = NULL => "DONT_FLIP" \notin tty[x].flags)
        /\ pc'[q] = "free" => wk.t # x /\ \A w \in work : w[2] # x
    BY <1>5, <1>f DEF FlushInv
  <2>2. Files(x) = {}
    BY <1>5, <1>f DEF HomeInv, CloseInv, Deserted
  <2>3. x \notin timer'
    BY <2>1, <2>2, <1>s DEF WorkInv
  <2>4. pc'[q] = "free" => wk'.t # x
    BY <2>1, <1>s, <1>t, <1>n
  <2>5. pc'[q] = "free" => \A w \in work' : w[2] # x
    BY <2>1, <2>2, <1>s
  <2> QED BY <2>1, <2>3, <2>4, <2>5, <1>l
<1> QED BY <1>4, <1>5 DEF FlushInv, Side

(* Nothing is left for a tty that is freed, at any time.                    *)
LEMMA WorkAlways ==
  Gentle => (Spec => [](TypeOK /\ PlacedInv /\ LockInv /\ HomeInv /\ WorkInv /\ FlushInv))
<1> SUFFICES ASSUME Gentle
    PROVE Spec => [](TypeOK /\ PlacedInv /\ LockInv /\ HomeInv /\ WorkInv /\ FlushInv)
  OBVIOUS
<1>1. Init => WorkInv /\ FlushInv
  BY DEF Init, WorkInv, FlushInv, Idle
<1>2. TypeOK /\ PlacedInv /\ HomeInv /\ WorkInv /\ FlushInv /\ [Next]_vars
        => WorkInv' /\ FlushInv'
  <2> SUFFICES ASSUME TypeOK, PlacedInv, HomeInv, WorkInv, FlushInv, [Next]_vars
      PROVE WorkInv' /\ FlushInv'
    OBVIOUS
  <2>1. CASE Driven
    BY <2>1, WorkDriven
  <2>2. ASSUME NEW p \in Proc, Syscall(p) PROVE WorkInv' /\ FlushInv'
    BY <2>2, WorkCall
  <2> QED BY <2>1, <2>2, Steps
<1> QED BY <1>1, <1>2, HomeAlways, PTL DEF Spec

(* Nothing refers to a tty_struct that release_mem freed: no file, no       *)
(* controlling tty, no delayed or queued work, no call in progress.         *)
THEOREM NothingDangles == Gentle => (Spec => []NoDangling)
<1>1. TypeOK /\ PlacedInv /\ HomeInv /\ WorkInv => NoDangling
  <2> SUFFICES ASSUME TypeOK, PlacedInv, HomeInv, WorkInv, NEW t \in Line, ~tty[t].live
      PROVE /\ Files(t) = {} /\ \A p \in Proc : ctty[p] # t /\ loc[p].t # t
            /\ t \notin timer /\ wk.t # t /\ \A w \in work : w[2] # t
    BY DEF NoDangling
  <2>1. NULL \notin Line /\ LiveLocals
    BY LocalsLive, TtyAssumption
  <2>2. Files(t) = {}
    BY <2>1 DEF Files, HomeInv, CountInv
  <2>3. \A p \in Proc : ctty[p] # t /\ loc[p].t # t
    BY <2>1 DEF LiveLocals, HomeInv, CttyInv, CttySound
  <2>4. t \notin timer /\ wk.t # t /\ \A w \in work : w[2] # t
    BY <2>1 DEF WorkInv
  <2> QED BY <2>2, <2>3, <2>4
<1> QED BY <1>1, WorkAlways, PTL

-----------------------------------------------------------------------------
(* The users of a discipline are counted.                                   *)

Uses(p, x) ==
  /\ loc[p].t = x
  /\ pc[p] \in {"read", "copy", "write", "use"} \/ (pc[p] = "hangup_end" /\ loc[p].ref)

InUse == {"read", "copy", "write", "use", "hangup_end"}

(* The calls that begin or end a use, and the steps of one.                 *)
LEMMA UserMoves ==
  ASSUME TypeOK, NEW p \in Proc, Syscall(p)
  PROVE  \/ pc[p] \notin InUse /\ pc'[p] \notin InUse
         \/ TakesRef(p) \/ GivesRef(p) \/ n_tty_read(p) \/ do_tty_write(p)
         \/ tty_vhangup(p) \/ tty_vhangup_end(p)
<1>t. /\ pc \in [Proc -> Place] /\ loc \in [Proc -> Locals]
  BY DEF TypeOK
<1> USE DEF InUse
<1>1. CASE tty_open_end(p) \/ tty_release(p) \/ release_dev_closing(p) \/ release_dev_count(p)
           \/ release_dev_flush(p) \/ release_mem(p)
           \/ (\E t \in Line : tty_open(p, t) \/ ptmx_open(p, t))
  BY <1>1, <1>t DEF tty_open, ptmx_open, OpenFile, tty_open_end, tty_release, driver_close,
     release_dev_closing, release_dev_count, release_dev_flush, release_mem, Go, Back
<1>2. CASE (\E d \in Ldisc : tty_set_ldisc(p, d)) \/ tty_set_ldisc_signal(p)
           \/ tty_set_ldisc_lock(p) \/ tty_set_ldisc_open(p)
           \/ disassociate_ctty(p) \/ disassociate_ctty_end(p)
  BY <1>2, <1>t DEF tty_set_ldisc, tty_set_ldisc_signal, tty_set_ldisc_lock, tty_set_ldisc_open,
     disassociate_ctty, disassociate_ctty_end, Go, Back
<1>3. CASE tiocsctty(p) \/ (\E g \in Proc : tiocspgrp(p, g)) \/ tiocnotty(p)
           \/ tiocexcl(p) \/ tioccons(p)
  BY <1>3, <1>t DEF tiocsctty, tiocspgrp, tiocnotty, tiocexcl, tioccons, InIoctl
<1> QED BY <1>1, <1>2, <1>3 DEF Syscall, TakesRef, GivesRef

(* A call begins a use with the reference it takes and ends it with the one *)
(* it gives back.                                                           *)
LEMMA UsesStep ==
  ASSUME TypeOK, PlacedInv, NEW p \in Proc, Syscall(p), NEW x \in Line
  PROVE  /\ TakesRef(p) /\ x = loc'[p].t => ~Uses(p, x) /\ Uses(p, x)'
         /\ GivesRef(p) /\ x = loc[p].t => Uses(p, x) /\ ~Uses(p, x)'
         /\ ~(TakesRef(p) /\ x = loc'[p].t) /\ ~(GivesRef(p) /\ x = loc[p].t) =>
              (Uses(p, x)' <=> Uses(p, x))
<1>t. /\ pc \in [Proc -> Place] /\ loc \in [Proc -> Locals] /\ NULL \notin Line
  BY TtyAssumption DEF TypeOK
<1>l. NoLoc.t = NULL
  BY DEF NoLoc
<1>r. /\ TakesRef(p) => pc[p] \in {"user", "hangup"}
      /\ GivesRef(p) => pc[p] \in InUse
  BY RefPlaces DEF InUse
<1>v. pc[p] \notin InUse => ~Uses(p, x)
  BY DEF InUse, Uses
<1>1. CASE pc[p] \notin InUse /\ pc'[p] \notin InUse
  <2>1. ~Uses(p, x) /\ ~Uses(p, x)'
    BY <1>1 DEF InUse, Uses
  <2>2. ~TakesRef(p) /\ ~GivesRef(p)
    <3>1. TakesRef(p) => pc'[p] \in InUse
      BY <1>t DEF TakesRef, tty_read, tty_write, tty_poll, tty_ldisc_ref_wait, tty_vhangup, Go, InUse
    <3> QED BY <1>1, <3>1, <1>r
  <2> QED BY <2>1, <2>2
<1>2. CASE TakesRef(p)
  <2>1. pc[p] \notin InUse
    BY <1>2, <1>r DEF InUse
  <2>2. pc'[p] \in {"read", "copy", "write", "use"} \/ (pc'[p] = "hangup_end" /\ loc'[p].ref)
    BY <1>2, <1>t DEF TakesRef, tty_read, tty_write, tty_poll, tty_ldisc_ref_wait, tty_vhangup, Go
  <2>3. ~GivesRef(p) /\ ~Uses(p, x) /\ (Uses(p, x)' <=> x = loc'[p].t)
    BY <2>1, <2>2, <1>r, <1>v DEF Uses
  <2> QED BY <1>2, <2>3
<1>3. CASE GivesRef(p)
  <2>1. ~TakesRef(p)
    BY <1>3, <1>r DEF InUse
  <2>2. Uses(p, x) <=> x = loc[p].t
    BY <1>3 DEF GivesRef, tty_read_end, do_tty_write_end, tiocsti, tty_vhangup_end, Uses
  <2>3. ~Uses(p, x)'
    <3>1. pc'[p] \in {"user", "exit", "close"}
      BY <1>3, <1>t DEF GivesRef, tty_read_end, do_tty_write_end, tiocsti, tty_vhangup_end, Back, Go
    <3> QED BY <3>1 DEF Uses
  <2> QED BY <1>3, <2>1, <2>2, <2>3
<1>4. CASE n_tty_read(p)
  <2>1. pc[p] = "read" /\ pc'[p] = "copy" /\ loc'[p] = loc[p]
    BY <1>4, <1>t DEF n_tty_read, Go
  <2>2. ~TakesRef(p) /\ ~GivesRef(p)
    <3>1. GivesRef(p) => pc'[p] \in {"user", "exit", "close"}
      BY <1>t DEF GivesRef, tty_read_end, do_tty_write_end, tiocsti, tty_vhangup_end, Back, Go
    <3> QED BY <2>1, <3>1, <1>r
  <2> QED BY <2>1, <2>2 DEF Uses
<1>5. CASE do_tty_write(p)
  <2>1. pc[p] = "write" /\ pc'[p] = "write" /\ loc'[p] = [loc[p] EXCEPT !.left = loc[p].left - 1]
    BY <1>5, <1>t DEF do_tty_write
  <2>2. loc'[p].t = loc[p].t
    BY <2>1, <1>t, LocalFields
  <2>3. ~TakesRef(p) /\ ~GivesRef(p)
    <3>1. GivesRef(p) => pc'[p] \in {"user", "exit", "close"}
      BY <1>t DEF GivesRef, tty_read_end, do_tty_write_end, tiocsti, tty_vhangup_end, Back, Go
    <3> QED BY <2>1, <3>1, <1>r
  <2> QED BY <2>1, <2>2, <2>3 DEF Uses
<1>6. CASE tty_vhangup(p) /\ ~TakesRef(p)
  <2>1. pc[p] = "hangup" /\ pc'[p] = "hangup_end" /\ ~loc'[p].ref
    BY <1>6, <1>t DEF tty_vhangup, Go, TakesRef
  <2>2. ~GivesRef(p)
    BY <2>1, <1>r DEF InUse
  <2> QED BY <1>6, <2>1, <2>2 DEF Uses
<1>7. CASE tty_vhangup_end(p) /\ ~GivesRef(p)
  <2>1. pc[p] = "hangup_end" /\ pc'[p] \in {"exit", "close"} /\ ~loc[p].ref
    BY <1>7, <1>t DEF tty_vhangup_end, Go, GivesRef
  <2>2. ~TakesRef(p)
    BY <2>1, <1>r
  <2> QED BY <1>7, <2>1, <2>2 DEF Uses
<1> QED BY <1>1, <1>2, <1>3, <1>4, <1>5, <1>6, <1>7, UserMoves

(* The calls that use a discipline are finitely many.                       *)
LEMMA UsersFinite ==
  \A x : /\ Users(x) = {q \in Proc : Uses(q, x)} /\ IsFiniteSet(Users(x))
         /\ Cardinality(Users(x)) \in Nat
<1> TAKE x
<1>1. Users(x) \subseteq Proc /\ Users(x) = {q \in Proc : Uses(q, x)}
  BY DEF Users, Uses
<1> QED BY <1>1, TtyAssumption, FS_Subset, FS_CardinalityType

(* A call counts itself.                                                    *)
LEMMA UsersCall ==
  ASSUME TypeOK, PlacedInv, HomeInv, WorkInv, FlushInv, UsersExact, NEW p \in Proc, Syscall(p)
  PROVE  UsersExact'
<1> SUFFICES ASSUME NEW x \in Line
    PROVE tty'[x].refs = Cardinality(Users(x)') + (IF WorkUses(x) THEN 1 ELSE 0)
  <2>1. wk' = wk
    BY CallFrame
  <2> QED BY <2>1 DEF UsersExact, WorkUses
<1> DEFINE U == Users(x)
           V == Users(x)'
           w == IF WorkUses(x) THEN 1 ELSE 0
<1>n. NULL \notin Line /\ w \in {0, 1}
  BY TtyAssumption
<1>t. /\ pc \in [Proc -> Place] /\ loc \in [Proc -> Locals] /\ tty[x].refs \in Nat
      /\ tty[x].refs = Cardinality(U) + w
  BY DEF TypeOK, TtyStruct, UsersExact, WorkUses
<1>u. /\ U = {q \in Proc : Uses(q, x)} /\ IsFiniteSet(U) /\ Cardinality(U) \in Nat
      /\ V = {q \in Proc : Uses(q, x)'}
  <2>1. V = {q \in Proc : Uses(q, x)'}
    BY DEF Users, Uses
  <2> QED BY <2>1, UsersFinite
<1>f. \A q \in Proc : q # p => pc'[q] = pc[q] /\ loc'[q] = loc[q] /\ (Uses(q, x)' <=> Uses(q, x))
  BY CallFrame DEF Uses
<1>s. /\ TakesRef(p) /\ x = loc'[p].t => ~Uses(p, x) /\ Uses(p, x)'
      /\ GivesRef(p) /\ x = loc[p].t => Uses(p, x) /\ ~Uses(p, x)'
      /\ ~(TakesRef(p) /\ x = loc'[p].t) /\ ~(GivesRef(p) /\ x = loc[p].t) =>
           (Uses(p, x)' <=> Uses(p, x))
  BY UsesStep
<1>e. Cardinality({}) = 0
  BY FS_EmptySet
<1> HIDE DEF U, V, w
<1>1. CASE Counts(p, x)
  <2>1. CASE TakesRef(p) /\ x = loc'[p].t
    <3>1. V = U \cup {p} /\ p \notin U
      BY <2>1, <1>s, <1>u, <1>f
    <3>2. Cardinality(V) = Cardinality(U) + 1
      BY <3>1, <1>u, FS_AddElement
    <3>3. tty'[x].refs = tty[x].refs + 1
      BY <1>1, <2>1 DEF Counts
    <3> QED BY <3>2, <3>3, <1>t, <1>u, <1>n DEF V, w
  <2>2. CASE GivesRef(p) /\ x = loc[p].t /\ ~(TakesRef(p) /\ x = loc'[p].t)
    <3>1. V = U \ {p} /\ p \in U
      BY <2>2, <1>s, <1>u, <1>f
    <3>2. Cardinality(V) = Cardinality(U) - 1 /\ Cardinality(V) \in Nat
      <4>1. Cardinality(V) = Cardinality(U) - 1
        BY <3>1, <1>u, FS_RemoveElement
      <4>2. IsFiniteSet(V)
        BY <3>1, <1>u, FS_Subset
      <4> QED BY <4>1, <4>2, FS_CardinalityType
    <3>3. tty[x].refs > 0
      BY <3>2, <1>t, <1>u, <1>n
    <3>4. tty'[x].refs = tty[x].refs - 1
      BY <1>1, <2>2, <3>3 DEF Counts
    <3> QED BY <3>2, <3>4, <1>t, <1>u, <1>n DEF V, w
  <2>3. CASE ~(TakesRef(p) /\ x = loc'[p].t) /\ ~(GivesRef(p) /\ x = loc[p].t)
    <3>1. V = U
      BY <2>3, <1>s, <1>u, <1>f
    <3>2. tty'[x].refs = tty[x].refs
      BY <1>1, <2>3 DEF Counts
    <3> QED BY <3>1, <3>2, <1>t DEF V, w
  <2> QED BY <2>1, <2>2, <2>3
<1>2. CASE Born(p, x)
  <2>1. /\ pc'[p] = "open" /\ tty'[x].refs = 0 /\ ~tty[x].live
    BY <1>2 DEF Born
  <2>2. ~WorkUses(x) /\ \A q \in Proc : loc[q].t # x
    BY <2>1, <1>n, LocalsLive DEF WorkInv, WorkUses, LiveLocals
  <2>3. \A q \in Proc : ~Uses(q, x)'
    BY <2>1, <2>2, <1>f DEF Uses
  <2>4. V = {} /\ w = 0
    BY <2>2, <2>3, <1>u DEF w
  <2> QED BY <2>1, <2>4, <1>e DEF V, w
<1>3. CASE Freed(p, x)
  <2>1. pc[p] = "free" /\ Side(x, loc[p].t) /\ tty'[x].refs = 0 /\ pc'[p] = "user"
    BY <1>3, <1>t DEF Freed, release_mem, Free, Back, Go
  <2>2. wk.t # x /\ \A q \in Proc : q # p => loc[q].t # x
    BY <2>1 DEF FlushInv, HomeInv, CloseInv, Deserted
  <2>3. \A q \in Proc : ~Uses(q, x)'
    BY <2>1, <2>2, <1>f DEF Uses
  <2>4. V = {} /\ w = 0
    BY <2>2, <2>3, <1>u DEF w, WorkUses
  <2> QED BY <2>1, <2>4, <1>e DEF V, w
<1> QED BY <1>1, <1>2, <1>3, CallFields DEF HomeInv

(* So does the thread of the work queue.                                    *)
LEMMA UsersDriven ==
  ASSUME TypeOK, PlacedInv, WorkInv, UsersExact, Driven
  PROVE  UsersExact'
<1> SUFFICES ASSUME NEW x \in Line
    PROVE tty'[x].refs = Cardinality(Users(x)') + (IF WorkUses(x)' THEN 1 ELSE 0)
  BY DEF UsersExact, WorkUses
<1>1. Users(x)' = Users(x)
  BY DrivenFrame DEF Users
<1>2. /\ tty[x].refs = Cardinality(Users(x)) + (IF WorkUses(x) THEN 1 ELSE 0)
      /\ Cardinality(Users(x)) \in Nat
  BY UsersFinite DEF UsersExact, WorkUses
<1>3. tty'[x].refs = IF ~WorkUses(x) /\ WorkUses(x)' THEN tty[x].refs + 1
                     ELSE IF WorkUses(x) /\ ~WorkUses(x)' /\ tty[x].refs > 0
                          THEN tty[x].refs - 1 ELSE tty[x].refs
  BY DrivenFields DEF DriverCounts
<1> QED BY <1>1, <1>2, <1>3

(* The reference count of a tty's discipline is the number of calls that    *)
(* use it, of hangups that hold it and of flushes of its buffer: a count of *)
(* zero, which tty_set_ldisc and release_mem wait for, means no user.       *)
THEOREM UsersAreCounted == Gentle => (Spec => []UsersExact)
<1> SUFFICES ASSUME Gentle PROVE Spec => []UsersExact
  OBVIOUS
<1>1. Init => UsersExact
  <2> SUFFICES ASSUME Init, NEW x \in Line
      PROVE tty[x].refs = Cardinality(Users(x)) + (IF wk.t = x /\ wk.ld THEN 1 ELSE 0)
    BY DEF UsersExact
  <2>1. Users(x) = {}
    BY DEF Init, Users
  <2>2. ~wk.ld
    BY DEF Init, Idle
  <2>3. tty[x].refs = 0
    <3>1. Free.refs = 0
      BY DEF Free
    <3>2. \A c : tty_ldisc_enable([initialize_tty_struct EXCEPT !.count = c]).refs = 0
      BY DEF Free, tty_ldisc_enable, initialize_tty_struct
    <3> QED BY <3>1, <3>2 DEF Init
  <2> QED BY <2>1, <2>2, <2>3, FS_EmptySet
<1>2. TypeOK /\ PlacedInv /\ HomeInv /\ WorkInv /\ FlushInv /\ UsersExact /\ [Next]_vars
        => UsersExact'
  BY UsersCall, UsersDriven, Steps
<1> QED BY <1>1, <1>2, WorkAlways, PTL DEF Spec

-----------------------------------------------------------------------------
(* The table of disciplines.                                                *)

(* No two processes change the discipline of one tty: those that may are at *)
(* different ttys at first, and no others are opened.                       *)
Apart == \A e \in Envs : \A p, q \in e.setd : p # q =>
  e.opened[p] # e.opened[q] /\ e.ops \cap {"OPEN", "PTMX", "CONSOLE"} = {}

ApartInv ==
  \A p, q \in env.setd : p # q /\ file[p].t # NULL => file[p].t # file[q].t

(* What a change remembers as the old discipline is still the tty's.        *)
ChangeInv ==
  \A p \in Proc :
    /\ pc[p] \in {"setd", "switch", "swflush"} => p \in env.setd
    /\ pc[p] \in {"switch", "swflush"} =>
         loc[p].o = tty[file[p].t].disc /\ loc[p].d # loc[p].o

DeadInv == \A x \in Line : ~tty[x].live => tty[x].disc = N_TTY

TableInv == TableExact /\ ApartInv /\ ChangeInv /\ DeadInv

Changes(p, d) == pc[p] \in {"switch", "swflush"} /\ loc[p].d = d

(* The holders of a discipline are finitely many.                           *)
LEMMA HoldersFinite ==
  \A d : /\ IsFiniteSet(Holders(d)) /\ Cardinality(Holders(d)) \in Nat
         /\ Holders(d) = {t \in Line : tty[t].disc = d} \cup {p \in Proc : Changes(p, d)}
<1> TAKE d
<1>1. Holders(d) = {t \in Line : tty[t].disc = d} \cup {p \in Proc : Changes(p, d)}
  BY DEF Holders, Changes
<1>2. Holders(d) \subseteq Line \cup Proc /\ IsFiniteSet(Line) /\ IsFiniteSet(Proc)
  BY <1>1, TtyAssumption
<1>3. IsFiniteSet(Line \cup Proc)
  BY <1>2, FS_Union
<1> QED BY <1>1, <1>2, <1>3, FS_Subset, FS_CardinalityType

(* A step that changes no discipline, moves no change and leaves the table  *)
(* alone.                                                                   *)
LEMMA TableStill ==
  ASSUME TableExact, UNCHANGED <<ldrefs, defined>>,
         \A x \in Line : tty'[x].disc = tty[x].disc,
         \A q \in Proc : \A d : Changes(q, d)' <=> Changes(q, d)
  PROVE  TableExact'
<1>1. \A d : Holders(d)' = Holders(d)
  BY DEF Holders, Changes
<1> QED BY <1>1 DEF TableExact

(* The calls that move a change of discipline or the table.                 *)
LEMMA ChangeMoves ==
  ASSUME TypeOK, NEW p \in Proc, Syscall(p), ~tty_set_ldisc_lock(p), ~tty_set_ldisc_open(p),
         ~release_mem(p), \A d \in Ldisc : ~tty_set_ldisc(p, d)
  PROVE  /\ pc[p] \notin {"switch", "swflush"} /\ pc'[p] \notin {"setd", "switch", "swflush"}
         /\ UNCHANGED <<ldrefs, defined>>
<1>t. /\ pc \in [Proc -> Place] /\ loc \in [Proc -> Locals]
  BY DEF TypeOK
<1>1. CASE tty_open_end(p) \/ tty_release(p) \/ release_dev_closing(p) \/ release_dev_count(p)
           \/ release_dev_flush(p) \/ (\E t \in Line : tty_open(p, t) \/ ptmx_open(p, t))
           \/ tty_set_ldisc_signal(p)
  BY <1>1, <1>t DEF tty_open, ptmx_open, OpenFile, tty_open_end, tty_release, driver_close,
     release_dev_closing, release_dev_count, release_dev_flush, tty_set_ldisc_signal, Go, Back
<1>2. CASE tty_read(p) \/ n_tty_read(p) \/ tty_read_end(p) \/ tty_write(p) \/ do_tty_write(p)
           \/ do_tty_write_end(p) \/ tty_poll(p) \/ tiocsti(p)
  BY <1>2, <1>t DEF tty_read, n_tty_read, tty_read_end, tty_write, do_tty_write,
       do_tty_write_end, tty_poll, tiocsti, tty_ldisc_ref_wait, Go, Back
<1>3. CASE tiocsctty(p) \/ (\E g \in Proc : tiocspgrp(p, g)) \/ tiocnotty(p)
           \/ tiocexcl(p) \/ tioccons(p) \/ disassociate_ctty(p) \/ disassociate_ctty_end(p)
           \/ tty_vhangup(p) \/ tty_vhangup_end(p)
  BY <1>3, <1>t DEF tiocsctty, tiocspgrp, tiocnotty, tiocexcl, tioccons, InIoctl,
     disassociate_ctty, disassociate_ctty_end, tty_vhangup, tty_vhangup_end, Go
<1> QED BY <1>1, <1>2, <1>3 DEF Syscall

(* A change that takes its reference to the new discipline.                 *)
LEMMA TableSet ==
  ASSUME TypeOK, TableExact, NEW p \in Proc, NEW d \in Ldisc, tty_set_ldisc(p, d)
  PROVE  TableExact'
<1>t. /\ pc \in [Proc -> Place] /\ loc \in [Proc -> Locals] /\ loc[p] \in Locals
      /\ DOMAIN ldrefs = Ldisc \ {N_TTY} /\ p \notin Line
  BY TtyAssumption DEF TypeOK
<1>1. tty' = tty /\ defined' = defined /\ pc[p] \in {"user", "setd"}
  BY DEF tty_set_ldisc
<1>n. \A e : ~Changes(p, e)
  BY <1>1 DEF Changes
<1>2. CASE Back(p) /\ ldrefs' = ldrefs
  <2>1. \A q \in Proc : \A e : Changes(q, e)' <=> Changes(q, e)
    BY <1>1, <1>2, <1>t DEF Changes, Back, Go
  <2> QED BY <1>1, <1>2, <2>1, TableStill
<1>3. CASE /\ ldrefs' = tty_ldisc_get(d) /\ Go(p, "switch") /\ d \in defined
           /\ loc' = [loc EXCEPT ![p] = [loc[p] EXCEPT !.d = d, !.o = tty[file[p].t].disc]]
  <2>1. loc'[p].d = d /\ pc'[p] = "switch"
    <3> DEFINE o == tty[file[p].t].disc
    <3>1. loc'[p] = [loc[p] EXCEPT !.d = d, !.o = o] /\ pc'[p] = "switch"
      BY <1>3, <1>t DEF Go
    <3> HIDE DEF o
    <3> QED BY <3>1, <1>t DEF Locals
  <2>2. \A q \in Proc : \A e : Changes(q, e)' <=> Changes(q, e) \/ (q = p /\ e = d)
    BY <2>1, <1>1, <1>3, <1>t DEF Changes, Go
  <2>3. \A e : Holders(e)' = IF e = d THEN Holders(e) \cup {p} ELSE Holders(e)
    BY <2>2, <1>1 DEF Holders, Changes
  <2>4. p \notin Holders(d)
    BY <1>n, <1>t DEF Holders, Changes
  <2>5. Cardinality(Holders(d) \cup {p}) = Cardinality(Holders(d)) + 1
    BY <2>4, HoldersFinite, FS_AddElement
  <2>6. \A e \in DOMAIN ldrefs : ldrefs'[e] = IF e = d THEN ldrefs[e] + 1 ELSE ldrefs[e]
    BY <1>3 DEF tty_ldisc_get
  <2>7. DOMAIN ldrefs' = DOMAIN ldrefs
    BY <1>3 DEF tty_ldisc_get
  <2> SUFFICES ASSUME NEW e \in DOMAIN ldrefs
      PROVE ldrefs'[e] = Cardinality(Holders(e)') /\ (Holders(e)' # {} => e \in defined)
    BY <1>1, <2>7 DEF TableExact
  <2>8. ldrefs[e] = Cardinality(Holders(e)) /\ (Holders(e) # {} => e \in defined)
    BY DEF TableExact
  <2> QED BY <2>3, <2>5, <2>6, <2>8, <1>3
<1> QED BY <1>2, <1>3 DEF tty_set_ldisc

(* A change that gives it back because the old discipline is in use, or     *)
(* disables the old one.                                                    *)
LEMMA TableLock ==
  ASSUME TypeOK, PlacedInv, TableExact, NEW p \in Proc, tty_set_ldisc_lock(p)
  PROVE  TableExact'
<1>t. /\ pc \in [Proc -> Place] /\ loc \in [Proc -> Locals] /\ loc[p] \in Locals
      /\ ldrefs \in [Ldisc \ {N_TTY} -> Int] /\ p \notin Line
  BY TtyAssumption DEF TypeOK
<1>1. defined' = defined /\ pc[p] = "switch" /\ \A q \in Proc : q # p => pc'[q] = pc[q] /\ loc'[q] = loc[q]
  BY <1>t DEF tty_set_ldisc_lock, Go
<1>2. \A x \in Line : tty'[x].disc = tty[x].disc
  <2>1. file[p].t \in Line
    BY <1>1, OnLine DEF OnFile
  <2> QED BY <2>1, LockEffect
<1>3. CASE ldrefs' = ldrefs /\ Go(p, "swflush")
           /\ loc' = [loc EXCEPT ![p] = [loc[p] EXCEPT !.work = file[p].t \in timer]]
  <2>1. loc'[p].d = loc[p].d /\ pc'[p] = "swflush"
    <3> DEFINE b == file[p].t \in timer
    <3>1. loc'[p] = [loc[p] EXCEPT !.work = b] /\ pc'[p] = "swflush"
      BY <1>3, <1>t DEF Go
    <3> HIDE DEF b
    <3> QED BY <3>1, <1>t DEF Locals
  <2>2. \A q \in Proc : \A e : Changes(q, e)' <=> Changes(q, e)
    BY <2>1, <1>1 DEF Changes
  <2> QED BY <1>1, <1>2, <1>3, <2>2, TableStill
<1>4. CASE ldrefs' = tty_ldisc_put(ldrefs, loc[p].d) /\ Go(p, "setd")
  <2> DEFINE d == loc[p].d
  <2>1. pc'[p] = "setd"
    BY <1>4, <1>t DEF Go
  <2>2. \A q \in Proc : \A e : Changes(q, e)' <=> Changes(q, e) /\ ~(q = p /\ e = d)
    BY <2>1, <1>1 DEF Changes
  <2>3. \A e : Holders(e)' = IF e = d THEN Holders(e) \ {p} ELSE Holders(e)
    <3> SUFFICES ASSUME NEW e PROVE Holders(e)' = IF e = d THEN Holders(e) \ {p} ELSE Holders(e)
      OBVIOUS
    <3>1. Holders(e)' = {x \in Line : tty[x].disc = e} \cup {q \in Proc : Changes(q, e)'}
      BY <1>2 DEF Holders, Changes
    <3>2. Holders(e) = {x \in Line : tty[x].disc = e} \cup {q \in Proc : Changes(q, e)}
      BY HoldersFinite
    <3> QED BY <2>2, <3>1, <3>2, <1>t
  <2>4. p \in Holders(d)
    BY <1>1 DEF Holders
  <2>5. Cardinality(Holders(d) \ {p}) = Cardinality(Holders(d)) - 1
    <3> DEFINE H == Holders(d)
    <3>1. IsFiniteSet(H) /\ p \in H
      BY <2>4, HoldersFinite
    <3> HIDE DEF H
    <3>2. Cardinality(H \ {p}) = Cardinality(H) - 1
      BY <3>1, FS_RemoveElement
    <3> QED BY <3>2 DEF H
  <2>6. \A e \in DOMAIN ldrefs : ldrefs'[e] = IF e = d THEN ldrefs[e] - 1 ELSE ldrefs[e]
    BY <1>4 DEF tty_ldisc_put
  <2>7. DOMAIN ldrefs' = DOMAIN ldrefs
    BY <1>4 DEF tty_ldisc_put
  <2> SUFFICES ASSUME NEW e \in DOMAIN ldrefs
      PROVE ldrefs'[e] = Cardinality(Holders(e)') /\ (Holders(e)' # {} => e \in defined)
    BY <1>1, <2>7 DEF TableExact
  <2>8. ldrefs[e] = Cardinality(Holders(e)) /\ (Holders(e) # {} => e \in defined)
    BY DEF TableExact
  <2> HIDE DEF d
  <2> QED BY <2>3, <2>5, <2>6, <2>8
<1> QED BY <1>3, <1>4 DEF tty_set_ldisc_lock

(* The change itself: the old discipline is put, and so is the new one when *)
(* it does not open.                                                        *)
LEMMA TableOpen ==
  ASSUME TypeOK, PlacedInv, TableInv, NEW p \in Proc, tty_set_ldisc_open(p)
  PROVE  TableExact'
<1> DEFINE t == file[p].t
           l == loc[p]
<1>t. /\ pc \in [Proc -> Place] /\ loc \in [Proc -> Locals] /\ tty \in [Line -> TtyStruct]
      /\ ldrefs \in [Ldisc \ {N_TTY} -> Int] /\ Line \cap Proc = {}
  BY TtyAssumption DEF TypeOK
<1>1. /\ defined' = defined /\ pc[p] = "swflush" /\ pc'[p] = "user"
      /\ \A q \in Proc : q # p => pc'[q] = pc[q] /\ loc'[q] = loc[q]
  BY <1>t DEF tty_set_ldisc_open, Go, Back
<1>2. t \in Line /\ l.o = tty[t].disc /\ l.d # l.o
  BY <1>1, OnLine DEF OnFile, TableInv, ChangeInv
<1>3. PICK d \in {l.d, l.o, N_TTY} :
        /\ tty' = [tty EXCEPT ![t] = tty_ldisc_enable([tty[t] EXCEPT !.disc = d])]
        /\ ldrefs' = [e \in DOMAIN ldrefs |-> ldrefs[e] - (IF e = l.d /\ d # l.d THEN 1 ELSE 0)
                                                       + (IF e = d /\ d # l.d THEN 1 ELSE 0)
                                                       - (IF e = l.o THEN 1 ELSE 0)]
  <2>1. {l.d} \cup (IF Op("FAIL") THEN {l.o, N_TTY} ELSE {}) \subseteq {l.d, l.o, N_TTY}
    OBVIOUS
  <2> QED BY <2>1 DEF tty_set_ldisc_open
<1> HIDE DEF t, l
<1>4. \A x \in Line : tty'[x].disc = IF x = t THEN d ELSE tty[x].disc
  <2> DEFINE s == tty_ldisc_enable([tty[t] EXCEPT !.disc = d])
  <2>1. s.disc = d
    BY <1>2, <1>t DEF tty_ldisc_enable, TtyStruct
  <2>2. \A x \in Line : tty'[x] = IF x = t THEN s ELSE tty[x]
    BY <1>3, <1>t
  <2> HIDE DEF s
  <2> QED BY <2>1, <2>2
<1>5. \A q \in Proc : \A e : Changes(q, e)' <=> Changes(q, e) /\ q # p
  BY <1>1 DEF Changes
<1>6. \A e : Changes(p, e) <=> e = l.d
  BY <1>1 DEF Changes, l
<1>7. DOMAIN ldrefs' = DOMAIN ldrefs /\ N_TTY \notin DOMAIN ldrefs
  BY <1>3, <1>t
<1> SUFFICES ASSUME NEW e \in DOMAIN ldrefs
    PROVE ldrefs'[e] = Cardinality(Holders(e)') /\ (Holders(e)' # {} => e \in defined)
  BY <1>1, <1>7 DEF TableExact
<1> DEFINE H == Holders(e)
           G == Holders(e)'
           n == Cardinality(H)
<1>8. /\ ldrefs[e] = n /\ (H # {} => e \in defined) /\ IsFiniteSet(H) /\ n \in Nat /\ e # N_TTY
  BY <1>7, HoldersFinite DEF TableInv, TableExact
<1>9. /\ H = {x \in Line : tty[x].disc = e} \cup {q \in Proc : Changes(q, e)}
      /\ G = {x \in Line : tty'[x].disc = e} \cup {q \in Proc : Changes(q, e)'}
  BY DEF Holders, Changes
<1>10. /\ p \in H <=> e = l.d
       /\ t \in H <=> e = l.o
       /\ p \notin G
       /\ t \in G <=> e = d
       /\ \A z : z # p /\ z # t => (z \in G <=> z \in H)
       /\ p # t
  BY <1>2, <1>4, <1>5, <1>6, <1>9, <1>t
<1>11. ldrefs'[e] = n - (IF e = l.d /\ d # l.d THEN 1 ELSE 0) + (IF e = d /\ d # l.d THEN 1 ELSE 0)
                      - (IF e = l.o THEN 1 ELSE 0)
  BY <1>3, <1>8
<1> HIDE DEF H, G, n
<1>12. CASE e = l.d /\ d = l.d
  <2>1. G = (H \ {p}) \cup {t} /\ p \in H /\ t \notin H \ {p}
    BY <1>10, <1>12, <1>2
  <2>2. Cardinality(H \ {p}) = n - 1 /\ IsFiniteSet(H \ {p})
    BY <2>1, <1>8, FS_RemoveElement DEF n
  <2>3. Cardinality(G) = (n - 1) + 1
    BY <2>1, <2>2, FS_AddElement
  <2> QED BY <2>1, <2>3, <1>8, <1>11, <1>12, <1>2 DEF G
<1>13. CASE e = l.d /\ d # l.d
  <2>1. G = H \ {p} /\ p \in H
    BY <1>10, <1>13, <1>2
  <2>2. Cardinality(G) = n - 1
    BY <2>1, <1>8, FS_RemoveElement DEF n
  <2> QED BY <2>1, <2>2, <1>8, <1>11, <1>13, <1>2 DEF G
<1>14. CASE e = l.o /\ d = l.o
  <2>1. G = H
    BY <1>10, <1>14, <1>2
  <2> QED BY <2>1, <1>8, <1>11, <1>14, <1>2 DEF G, n
<1>15. CASE e = l.o /\ d # l.o
  <2>1. G = H \ {t} /\ t \in H
    BY <1>10, <1>15, <1>2
  <2>2. Cardinality(G) = n - 1
    BY <2>1, <1>8, FS_RemoveElement DEF n
  <2> QED BY <2>1, <2>2, <1>8, <1>11, <1>15, <1>2 DEF G
<1>16. CASE e # l.d /\ e # l.o
  <2>1. G = H /\ e # d
    <3>1. e # d
      BY <1>16, <1>8
    <3>2. \A z : z \in G <=> z \in H
      BY <3>1, <1>10, <1>16
    <3> QED BY <3>1, <3>2 DEF G, H
  <2> QED BY <2>1, <1>8, <1>11, <1>16 DEF G, n
<1> QED BY <1>12, <1>13, <1>14, <1>15, <1>16

(* Freeing a tty gives back the disciplines of both sides.                  *)
LEMMA TableFree ==
  ASSUME TypeOK, PlacedInv, TableExact, NEW p \in Proc, release_mem(p)
  PROVE  TableExact'
<1> DEFINE t == loc[p].t
           sides == {t} \cup ({Link[t]} \ {NULL})
<1>t. /\ pc \in [Proc -> Place] /\ loc \in [Proc -> Locals] /\ tty \in [Line -> TtyStruct]
      /\ ldrefs \in [Ldisc \ {N_TTY} -> Int] /\ Line \cap Proc = {}
      /\ \A x \in Line : Link[x] \in Line \cup {NULL}
  BY TtyAssumption DEF TypeOK
<1>1. /\ defined' = defined /\ pc[p] = "free" /\ pc'[p] = "user"
      /\ \A q \in Proc : q # p => pc'[q] = pc[q] /\ loc'[q] = loc[q]
  BY <1>t DEF release_mem, Go, Back
<1>2. t \in Line /\ sides \subseteq Line
  BY <1>1, <1>t, OnLine
<1>3. /\ tty' = [x \in Line |-> IF x \in sides THEN Free ELSE tty[x]]
      /\ ldrefs' = [d \in DOMAIN ldrefs |-> ldrefs[d] - Cardinality({x \in sides : tty[x].disc = d})]
  BY DEF release_mem
<1> HIDE DEF t, sides
<1>4. Free.disc = N_TTY
  BY DEF Free
<1>5. \A q \in Proc : \A e : Changes(q, e)' <=> Changes(q, e)
  BY <1>1 DEF Changes
<1>7. DOMAIN ldrefs' = DOMAIN ldrefs /\ N_TTY \notin DOMAIN ldrefs
  BY <1>3, <1>t
<1> SUFFICES ASSUME NEW e \in DOMAIN ldrefs
    PROVE ldrefs'[e] = Cardinality(Holders(e)') /\ (Holders(e)' # {} => e \in defined)
  BY <1>1, <1>7 DEF TableExact
<1> DEFINE H == Holders(e)
           G == Holders(e)'
           D == {x \in sides : tty[x].disc = e}
<1>8. /\ ldrefs[e] = Cardinality(H) /\ (H # {} => e \in defined) /\ IsFiniteSet(H) /\ e # N_TTY
  BY <1>7, HoldersFinite DEF TableExact
<1>9. /\ H = {x \in Line : tty[x].disc = e} \cup {q \in Proc : Changes(q, e)}
      /\ G = {x \in Line : tty'[x].disc = e} \cup {q \in Proc : Changes(q, e)'}
  BY DEF Holders, Changes
<1>10. G = H \ sides /\ H \cap sides = D
  BY <1>2, <1>3, <1>4, <1>5, <1>8, <1>9, <1>t
<1>11. ldrefs'[e] = ldrefs[e] - Cardinality(D)
  BY <1>3
<1> HIDE DEF H, G, D
<1>12. Cardinality(H \ sides) = Cardinality(H) - Cardinality(H \cap sides)
  BY <1>8, FS_Difference
<1> QED BY <1>8, <1>10, <1>11, <1>12 DEF G

(* Only an open gives a process a tty.                                      *)
LEMMA FileMoves ==
  ASSUME TypeOK, NEW p \in Proc, Syscall(p), file'[p].t # file[p].t, file'[p].t # NULL
  PROVE  env.ops \cap {"OPEN", "PTMX", "CONSOLE"} # {}
<1>t. file \in [Proc -> File]
  BY DEF TypeOK
<1>1. CASE \E t \in Line : tty_open(p, t) \/ ptmx_open(p, t)
  BY <1>1 DEF tty_open, ptmx_open, Op
<1>2. CASE release_dev_count(p)
  <2>1. file'[p] = NoFile
    BY <1>2, <1>t DEF release_dev_count
  <2> QED BY <2>1 DEF NoFile
<1>3. CASE tty_vhangup(p)
  <2>1. file'[p].t = file[p].t
    BY <1>3 DEF tty_vhangup, hangup
  <2> QED BY <2>1
<1>4. CASE UNCHANGED file
  BY <1>4
<1>5. CASE tty_open_end(p) \/ tty_release(p) \/ release_dev_closing(p) \/ release_dev_flush(p)
           \/ release_mem(p) \/ (\E d \in Ldisc : tty_set_ldisc(p, d)) \/ tty_set_ldisc_lock(p)
           \/ tty_set_ldisc_signal(p) \/ tty_set_ldisc_open(p)
  BY <1>5, <1>4 DEF tty_open_end, tty_release, release_dev_closing, release_dev_flush,
     release_mem, tty_set_ldisc, tty_set_ldisc_lock, tty_set_ldisc_signal, tty_set_ldisc_open
<1>6. CASE tty_read(p) \/ n_tty_read(p) \/ tty_read_end(p) \/ tty_write(p) \/ do_tty_write(p)
           \/ do_tty_write_end(p) \/ tty_poll(p) \/ tiocsti(p)
  BY <1>6, <1>4 DEF tty_read, n_tty_read, tty_read_end, tty_write, do_tty_write,
     do_tty_write_end, tty_poll, tiocsti
<1>7. CASE tiocsctty(p) \/ (\E g \in Proc : tiocspgrp(p, g)) \/ tiocnotty(p)
           \/ tiocexcl(p) \/ tioccons(p) \/ disassociate_ctty(p) \/ disassociate_ctty_end(p)
           \/ tty_vhangup_end(p)
  BY <1>7, <1>4 DEF tiocsctty, tiocspgrp, tiocnotty, tiocexcl, tioccons, disassociate_ctty,
     disassociate_ctty_end, tty_vhangup_end
<1> QED BY <1>1, <1>2, <1>3, <1>5, <1>6, <1>7 DEF Syscall

(* The processes that may change a discipline stay apart.                   *)
LEMMA ApartCall ==
  ASSUME TypeOK, Apart, ApartInv, NEW p \in Proc, Syscall(p)
  PROVE  ApartInv'
<1>1. /\ env' = env /\ env \in Envs /\ env.setd \subseteq Proc
      /\ \A q \in Proc : q # p => file'[q].t = file[q].t
  BY CallFrame, TtyAssumption DEF TypeOK
<1> SUFFICES ASSUME NEW q \in env.setd, NEW r \in env.setd, q # r, file'[q].t # NULL
    PROVE file'[q].t # file'[r].t
  BY <1>1 DEF ApartInv
<1>2. env.ops \cap {"OPEN", "PTMX", "CONSOLE"} = {}
  BY <1>1 DEF Apart
<1>3. file'[p].t \in {file[p].t, NULL}
  BY <1>2, FileMoves
<1> QED BY <1>1, <1>3 DEF ApartInv

(* A call leaves the disciplines alone, but for a change, a new tty and a   *)
(* freed one.                                                               *)
LEMMA DiscCall ==
  ASSUME TypeOK, PlacedInv, HomeInv, TableInv, NEW p \in Proc, Syscall(p), NEW x \in Line
  PROVE  /\ ~tty'[x].live => tty'[x].disc = N_TTY
         /\ tty'[x].disc = tty[x].disc \/ (tty_set_ldisc_open(p) /\ x = file[p].t)
            \/ Freed(p, x)
<1>1. CASE Keeps(p, x)
  <2>1. CASE tty'[x].disc = tty[x].disc
    BY <2>1, <1>1 DEF Keeps, TableInv, DeadInv
  <2>2. CASE tty_set_ldisc_open(p) /\ x = file[p].t
    <3>1. tty[x].live
      BY <2>2, TtyAssumption DEF HomeInv, CountInv
    <3> QED BY <2>2, <3>1, <1>1 DEF Keeps
  <2> QED BY <2>1, <2>2, <1>1 DEF Keeps
<1>2. CASE Born(p, x)
  BY <1>2 DEF Born, TableInv, DeadInv
<1>3. CASE Freed(p, x)
  BY <1>3 DEF Freed, Free
<1> QED BY <1>1, <1>2, <1>3, CallFields DEF HomeInv

(* No call changes a discipline under somebody else's change of it.         *)
LEMMA ChangeCall ==
  ASSUME TypeOK, PlacedInv, HomeInv, TableInv, NEW p \in Proc, Syscall(p)
  PROVE  ChangeInv'
<1>t. pc \in [Proc -> Place] /\ loc \in [Proc -> Locals]
  BY DEF TypeOK
<1>f. /\ env' = env /\ \A q \in Proc : q # p => pc'[q] = pc[q] /\ loc'[q] = loc[q]
                                                /\ file'[q].t = file[q].t
  BY CallFrame
<1>1. ASSUME NEW q \in Proc, q # p, pc[q] \in {"switch", "swflush"}
      PROVE  tty'[file[q].t].disc = tty[file[q].t].disc
  <2> DEFINE x == file[q].t
  <2>1. x \in Line
    BY <1>1, OnLine DEF OnFile
  <2>2. ~Freed(p, x)
    <3>1. q \in Files(x)
      BY DEF Files
    <3>2. Freed(p, x) => Files(x) = {}
      BY <2>1 DEF Freed, release_mem, HomeInv, CloseInv, Deserted
    <3> QED BY <3>1, <3>2
  <2>3. ~(tty_set_ldisc_open(p) /\ x = file[p].t)
    <3> SUFFICES ASSUME tty_set_ldisc_open(p), x = file[p].t PROVE FALSE
      OBVIOUS
    <3>1. p \in env.setd /\ q \in env.setd
      BY <1>1 DEF tty_set_ldisc_open, TableInv, ChangeInv
    <3> QED BY <3>1, <1>1, <2>1, TtyAssumption DEF TableInv, ApartInv
  <2> HIDE DEF x
  <2>4. tty'[x].disc = tty[x].disc
    BY <2>1, <2>2, <2>3, DiscCall
  <2> QED BY <2>4 DEF x
<1>2. ASSUME NEW q \in Proc, q # p
      PROVE  /\ pc'[q] \in {"setd", "switch", "swflush"} => q \in env.setd
             /\ pc'[q] \in {"switch", "swflush"} =>
                  loc'[q].o = tty'[file'[q].t].disc /\ loc'[q].d # loc'[q].o
  BY <1>f, <1>1, <1>2 DEF TableInv, ChangeInv
<1> DEFINE P == /\ pc'[p] \in {"setd", "switch", "swflush"} => p \in env.setd
                /\ pc'[p] \in {"switch", "swflush"} =>
                     loc'[p].o = tty'[file'[p].t].disc /\ loc'[p].d # loc'[p].o
<1>3. ASSUME NEW d \in Ldisc, tty_set_ldisc(p, d) PROVE P
  <2>1. tty' = tty /\ file' = file /\ p \in env.setd
    BY <1>3 DEF tty_set_ldisc, TableInv, ChangeInv
  <2>2. CASE Back(p)
    BY <2>2, <1>t DEF Back, Go
  <2>3. CASE /\ tty[file[p].t].disc # d /\ Go(p, "switch")
             /\ loc' = [loc EXCEPT ![p] = [loc[p] EXCEPT !.d = d, !.o = tty[file[p].t].disc]]
    <3> DEFINE o == tty[file[p].t].disc
    <3>1. loc'[p] = [loc[p] EXCEPT !.d = d, !.o = o] /\ loc[p] \in Locals
      BY <2>3, <1>t
    <3>2. loc'[p].d = d /\ loc'[p].o = o
      <4> HIDE DEF o
      <4> QED BY <3>1 DEF Locals
    <3> QED BY <3>2, <2>1, <2>3
  <2> QED BY <1>3, <2>2, <2>3 DEF tty_set_ldisc
<1>4. ASSUME tty_set_ldisc_lock(p) PROVE P
  <2>1. file' = file /\ pc[p] = "switch" /\ file[p].t \in Line
    BY <1>4, OnLine DEF tty_set_ldisc_lock, OnFile
  <2>2. tty'[file[p].t].disc = tty[file[p].t].disc
    BY <1>4, <2>1, LockEffect
  <2>3. loc'[p].d = loc[p].d /\ loc'[p].o = loc[p].o
    <3> DEFINE b == file[p].t \in timer
    <3>1. loc[p] \in Locals /\ (loc' = loc \/ loc'[p] = [loc[p] EXCEPT !.work = b])
      BY <1>4, <1>t DEF tty_set_ldisc_lock
    <3> HIDE DEF b
    <3> QED BY <3>1 DEF Locals
  <2> QED BY <2>1, <2>2, <2>3 DEF TableInv, ChangeInv
<1>5. ASSUME tty_set_ldisc_open(p) \/ release_mem(p) PROVE P
  BY <1>5, <1>t DEF tty_set_ldisc_open, release_mem, Back, Go
<1>6. P
  <2>1. CASE ~tty_set_ldisc_lock(p) /\ ~tty_set_ldisc_open(p) /\ ~release_mem(p)
             /\ \A d \in Ldisc : ~tty_set_ldisc(p, d)
    BY <2>1, ChangeMoves
  <2> QED BY <2>1, <1>3, <1>4, <1>5
<1> QED BY <1>2, <1>6, <1>f DEF ChangeInv

(* A call keeps the table exact.                                            *)
LEMMA TableCall ==
  ASSUME TypeOK, PlacedInv, HomeInv, TableInv, Apart, NEW p \in Proc, Syscall(p)
  PROVE  TableInv'
<1>1. TableExact'
  <2>1. CASE \E d \in Ldisc : tty_set_ldisc(p, d)
    BY <2>1, TableSet DEF TableInv
  <2>2. CASE tty_set_ldisc_lock(p)
    BY <2>2, TableLock DEF TableInv
  <2>3. CASE tty_set_ldisc_open(p)
    BY <2>3, TableOpen
  <2>4. CASE release_mem(p)
    BY <2>4, TableFree DEF TableInv
  <2>5. CASE ~tty_set_ldisc_lock(p) /\ ~tty_set_ldisc_open(p) /\ ~release_mem(p)
             /\ \A d \in Ldisc : ~tty_set_ldisc(p, d)
    <3>1. \A x \in Line : tty'[x].disc = tty[x].disc
      BY <2>5, DiscCall DEF Freed
    <3>2. \A q \in Proc : \A d : Changes(q, d)' <=> Changes(q, d)
      BY <2>5, ChangeMoves, CallFrame DEF Changes
    <3> QED BY <3>1, <3>2, <2>5, ChangeMoves, TableStill DEF TableInv
  <2> QED BY <2>1, <2>2, <2>3, <2>4, <2>5
<1>2. ApartInv'
  BY ApartCall DEF TableInv
<1>3. ChangeInv'
  BY ChangeCall
<1>4. DeadInv'
  BY DiscCall DEF DeadInv
<1> QED BY <1>1, <1>2, <1>3, <1>4 DEF TableInv

(* Outside calls a discipline is only registered, or removed when no tty    *)
(* has it.                                                                  *)
LEMMA TableDriven ==
  ASSUME TypeOK, PlacedInv, TableInv, WorkInv, Driven
  PROVE  TableInv'
<1>f. UNCHANGED <<pc, loc, env>> /\ \A q \in Proc : file'[q].t = file[q].t
  BY DrivenFrame
<1>t. /\ NULL \notin Line /\ wk.t \in Line \cup {NULL} /\ wk.ld \in BOOLEAN
      /\ env.setd \subseteq Proc
  BY TtyAssumption DEF TypeOK
<1>d. ASSUME NEW x \in Line PROVE tty'[x].disc = tty[x].disc /\ tty'[x].live = tty[x].live
  <2>1. ASSUME NEW t \in Line, do_tty_hangup(t)
        PROVE  tty'[x].disc = tty[x].disc
    BY <2>1, HangupEffect DEF do_tty_hangup
  <2>2. CASE do_tty_hangup_end
    <3>1. hangup_end(wk.t, wk.ld) /\ wk.t \in Line
      BY <2>2, <1>t DEF do_tty_hangup_end, TypeOK
    <3> QED BY <3>1, <1>t, HangupEndEffect
  <2>3. CASE Calm
    BY <2>3 DEF Calm, Alike
  <2>4. tty'[x].live = tty[x].live
    BY DrivenFields DEF DriverCounts
  <2> QED BY <2>1, <2>2, <2>3, <2>4, DrivenFrame
<1>1. ApartInv' /\ DeadInv'
  <2>1. \A q \in env.setd : file'[q].t = file[q].t
    BY <1>f, <1>t
  <2>2. ApartInv'
    BY <2>1, <1>f DEF TableInv, ApartInv
  <2>3. DeadInv'
    BY <1>d DEF TableInv, DeadInv
  <2> QED BY <2>2, <2>3
<1>2. ChangeInv'
  <2>1. ASSUME NEW q \in Proc, pc[q] \in {"switch", "swflush"}
        PROVE  tty'[file'[q].t].disc = tty[file[q].t].disc
    <3>1. file[q].t \in Line /\ file'[q].t = file[q].t
      BY <2>1, <1>f, OnLine DEF OnFile
    <3> QED BY <3>1, <1>d
  <2> QED BY <2>1, <1>f DEF TableInv, ChangeInv
<1>h. \A d : Holders(d)' = Holders(d)
  BY <1>f, <1>d DEF Holders
<1>3. TableExact'
  <2>1. ASSUME NEW d \in Ldisc, tty_register_ldisc(d) PROVE TableExact'
    <3>1. d \in Ldisc \ {N_TTY} /\ ldrefs \in [Ldisc \ {N_TTY} -> Int]
      BY <2>1 DEF tty_register_ldisc, TypeOK
    <3>2. \A e \in DOMAIN ldrefs :
            ldrefs[e] = Cardinality(Holders(e)) /\ (Holders(e) # {} => e \in defined)
      BY DEF TableInv, TableExact
    <3>3. CASE d \in defined
      <4>1. ldrefs[d] = 0 /\ ldrefs' = ldrefs /\ defined' = defined \ {d}
        BY <2>1, <3>3 DEF tty_register_ldisc
      <4>2. Holders(d) = {}
        <5>1. Cardinality(Holders(d)) = 0
          BY <3>1, <3>2, <4>1
        <5> QED BY <5>1, HoldersFinite, FS_EmptySet
      <4> QED BY <1>h, <3>2, <4>1, <4>2 DEF TableExact
    <3>4. CASE d \notin defined
      <4>1. ldrefs' = [ldrefs EXCEPT ![d] = 0] /\ defined' = defined \cup {d}
        BY <2>1, <3>4 DEF tty_register_ldisc
      <4>2. Holders(d) = {} /\ Cardinality(Holders(d)) = 0
        BY <3>1, <3>2, <3>4, FS_EmptySet
      <4> QED BY <1>h, <3>1, <3>2, <4>1, <4>2 DEF TableExact
    <3> QED BY <3>3, <3>4
  <2>2. CASE UNCHANGED <<ldrefs, defined>>
    BY <2>2, <1>h DEF TableInv, TableExact
  <2>3. (\E d \in Ldisc : tty_register_ldisc(d)) \/ UNCHANGED <<ldrefs, defined>>
    BY DEF Driven, Driver, keventd, stop_tty, tty_flip_buffer_push, delayed_work, tty_hangup,
       do_SAK, Queue, flush_to_ldisc, flush_to_ldisc_end, do_tty_hangup, do_tty_hangup_end,
       __do_SAK, vars
  <2> QED BY <2>1, <2>2, <2>3
<1> QED BY <1>1, <1>2, <1>3 DEF TableInv

(* At first every tty has the default discipline.                           *)
LEMMA TableInit ==
  ASSUME Apart, Init
  PROVE  TableInv
<1>1. \A x \in Line : tty[x].disc = N_TTY
  <2>1. Free.disc = N_TTY
    BY DEF Free
  <2>2. \A c : tty_ldisc_enable([initialize_tty_struct EXCEPT !.count = c]).disc = N_TTY
    BY DEF tty_ldisc_enable, initialize_tty_struct, Free
  <2> QED BY <2>1, <2>2 DEF Init
<1>2. /\ ldrefs = [d \in Ldisc \ {N_TTY} |-> 0] /\ pc = [p \in Proc |-> "user"]
      /\ env \in Envs /\ env.setd \subseteq Proc
      /\ file = [p \in Proc |-> IF env.opened[p] = NULL THEN NoFile
                                 ELSE [t |-> env.opened[p], fops |-> "tty"]]
  BY TtyAssumption DEF Init
<1>3. TableExact
  <2> SUFFICES ASSUME NEW d \in Ldisc \ {N_TTY}
      PROVE ldrefs[d] = Cardinality(Holders(d)) /\ (Holders(d) # {} => d \in defined)
    BY <1>2 DEF TableExact
  <2>1. Holders(d) = {} /\ ldrefs[d] = 0
    BY <1>1, <1>2 DEF Holders
  <2> QED BY <2>1, FS_EmptySet
<1>4. ApartInv
  <2> SUFFICES ASSUME NEW p \in env.setd, NEW q \in env.setd, p # q, file[p].t # NULL
      PROVE file[p].t # file[q].t
    BY DEF ApartInv
  <2>1. \A r \in Proc : file[r].t = env.opened[r]
    BY <1>2 DEF NoFile
  <2>2. env.opened[p] # env.opened[q]
    BY <1>2 DEF Apart
  <2> QED BY <2>1, <2>2, <1>2
<1>5. ChangeInv
  BY <1>2 DEF ChangeInv
<1>6. DeadInv
  BY <1>1 DEF DeadInv
<1> QED BY <1>3, <1>4, <1>5, <1>6 DEF TableInv

(* The counts of the files, of the users of a tty's discipline and of those *)
(* of a discipline are exact: tty_release frees, and tty_set_ldisc and      *)
(* tty_register_ldisc replace and remove, by what they say.                 *)
THEOREM CountsAreExact == Gentle /\ Apart => (Spec => []CountsExact)
<1> SUFFICES ASSUME Gentle, Apart PROVE Spec => []CountsExact
  OBVIOUS
<1>1. Init => TableInv
  BY TableInit
<1>2. TypeOK /\ PlacedInv /\ HomeInv /\ WorkInv /\ TableInv /\ [Next]_vars => TableInv'
  BY TableCall, TableDriven, Steps
<1>3. CountExact /\ UsersExact /\ TableInv => CountsExact
  BY DEF CountsExact, TableInv
<1>4. Spec => [](TypeOK /\ PlacedInv /\ LockInv /\ HomeInv /\ WorkInv /\ FlushInv)
  BY WorkAlways
<1>5. Spec => []CountExact
  BY OpensAreCounted
<1>6. Spec => []UsersExact
  BY UsersAreCounted
<1> QED BY <1>1, <1>2, <1>3, <1>4, <1>5, <1>6, PTL DEF Spec

-----------------------------------------------------------------------------
(* The ttys implement what module Ldisc promises.                           *)

(* A discipline about to be replaced is disabled and has no user.           *)
ReadyInv ==
  \A p \in Proc : pc[p] = "swflush" =>
    "LDISC" \notin tty[file[p].t].flags /\ tty[file[p].t].refs = 0

(* Who uses a discipline holds a reference to it, and nobody else does.     *)
LEMMA UsersHold ==
  ASSUME UsersExact, NEW x \in Line
  PROVE  /\ ((\E q \in Proc : Uses(q, x)) \/ WorkUses(x)) => tty[x].refs > 0
         /\ (\A q \in Proc : ~Uses(q, x)) /\ ~WorkUses(x) => tty[x].refs = 0
<1> DEFINE U == Users(x)
           n == Cardinality(U)
<1>1. /\ U = {q \in Proc : Uses(q, x)} /\ IsFiniteSet(U) /\ n \in Nat
      /\ tty[x].refs = n + (IF WorkUses(x) THEN 1 ELSE 0)
  BY UsersFinite DEF UsersExact, WorkUses
<1>2. n = 0 <=> U = {}
  <2> HIDE DEF U
  <2> QED BY <1>1, FS_EmptySet
<1>3. ASSUME NEW q \in Proc, Uses(q, x) PROVE n # 0
  <2>1. q \in U
    BY <1>1, <1>3
  <2> QED BY <2>1, <1>2
<1>4. (\A q \in Proc : ~Uses(q, x)) => n = 0
  BY <1>1, <1>2
<1> HIDE DEF U, n
<1> QED BY <1>1, <1>3, <1>4

(* A reference is only taken to an enabled discipline, by somebody who can  *)
(* reach the tty.                                                           *)
LEMMA TakesEnabled ==
  ASSUME TypeOK, NEW p \in Proc, Syscall(p), TakesRef(p), NEW x \in Line, x = loc'[p].t
  PROVE  "LDISC" \in tty[x].flags /\ Reachable(x)
<1>t. /\ pc \in [Proc -> Place] /\ loc \in [Proc -> Locals] /\ redirect \in Proc \cup {NULL}
      /\ loc[p] \in Locals
  BY DEF TypeOK
<1>1. ASSUME NEW q \in Proc, file[q].t = x PROVE Reachable(x)
  BY <1>1 DEF Reachable, Files
<1>2. CASE tty_read(p) \/ tty_poll(p)
  <2>1. x = file[p].t
    <3> DEFINE t == file[p].t
    <3>1. loc'[p] = [loc[p] EXCEPT !.t = t]
      BY <1>2, <1>t DEF tty_read, tty_poll
    <3> HIDE DEF t
    <3>2. loc'[p].t = t
      BY <3>1, <1>t DEF Locals
    <3> QED BY <3>2 DEF t
  <2>2. "LDISC" \in tty[file[p].t].flags
    BY <1>2 DEF tty_read, tty_poll, tty_ldisc_ref_wait
  <2> QED BY <2>1, <2>2, <1>1
<1>3. CASE tty_write(p)
  <2> DEFINE q == redirected_tty_write(p)
             t == file[q].t
  <2>1. q \in Proc
    BY <1>t DEF redirected_tty_write
  <2>2. /\ loc'[p] = [loc[p] EXCEPT !.t = t, !.via = q, !.left = Chunks]
        /\ "LDISC" \in tty[t].flags
    BY <1>3, <1>t DEF tty_write, tty_ldisc_ref_wait
  <2> HIDE DEF q, t
  <2>3. x = t
    BY <2>2, <1>t DEF Locals
  <2> QED BY <2>1, <2>2, <2>3, <1>1 DEF t
<1>4. CASE tty_vhangup(p) /\ loc'[p].ref
  <2> DEFINE b == "LDISC" \in tty[loc[p].t].flags
  <2>1. pc[p] = "hangup" /\ loc'[p] = [loc[p] EXCEPT !.ref = b]
    BY <1>4, <1>t DEF tty_vhangup
  <2>2. b \in BOOLEAN
    OBVIOUS
  <2>3. loc'[p].t = loc[p].t /\ b
    <3> HIDE DEF b
    <3> QED BY <2>1, <1>4, <1>t DEF Locals
  <2> QED BY <2>1, <2>3 DEF Reachable
<1> QED BY <1>2, <1>3, <1>4 DEF TakesRef

(* Neither do the driver and the work queue enable a discipline but at the  *)
(* end of a hangup, or take a reference to one that is disabled.            *)
LEMMA DrivenEnabled ==
  ASSUME TypeOK, Driven, NEW x \in Line
  PROVE  /\ "LDISC" \in tty'[x].flags => "LDISC" \in tty[x].flags \/ WorkUses(x)
         /\ ~WorkUses(x) /\ WorkUses(x)' => "LDISC" \in tty[x].flags /\ Reachable(x)
<1>t. NULL \notin Line /\ wk.t \in Line \cup {NULL} /\ wk.ld \in BOOLEAN
  BY TtyAssumption DEF TypeOK
<1>1. "LDISC" \in tty'[x].flags => "LDISC" \in tty[x].flags \/ WorkUses(x)
  <2>1. ASSUME NEW t \in Line, do_tty_hangup(t)
        PROVE  "LDISC" \in tty'[x].flags => "LDISC" \in tty[x].flags
    <3>1. x # t => tty'[x] = tty[x]
      BY <2>1, HangupEffect DEF do_tty_hangup
    <3>2. x = t => tty'[x].flags = {}
      BY <2>1, HangupEffect DEF do_tty_hangup
    <3> QED BY <3>1, <3>2
  <2>2. CASE do_tty_hangup_end
    <3>1. hangup_end(wk.t, wk.ld) /\ wk.t \in Line
      BY <2>2, <1>t DEF do_tty_hangup_end, TypeOK
    <3> QED BY <3>1, <1>t, HangupEndEffect DEF WorkUses
  <2>3. CASE Calm
    BY <2>3 DEF Calm, Alike
  <2> QED BY <2>1, <2>2, <2>3, DrivenFrame
<1>2. ASSUME NEW t \in Line, flush_to_ldisc(t), ~WorkUses(x), WorkUses(x)'
      PROVE  "LDISC" \in tty[x].flags /\ Reachable(x)
  <2>1. wk'.t = x /\ wk' # wk
    BY <1>2 DEF WorkUses
  <2>2. wk' = [pc |-> "flip", t |-> t, ld |-> TRUE] /\ "LDISC" \in tty[t].flags
        /\ <<"flip", t>> \in work
    BY <1>2, <2>1 DEF flush_to_ldisc
  <2> QED BY <2>1, <2>2 DEF Reachable
<1>3. ASSUME NEW t \in Line, do_tty_hangup(t), ~WorkUses(x), WorkUses(x)'
      PROVE  "LDISC" \in tty[x].flags /\ Reachable(x)
  <2> DEFINE b == "LDISC" \in tty[t].flags
  <2>1. wk' = [pc |-> "hangup", t |-> t, ld |-> b] /\ <<"hangup", t>> \in work
    BY <1>3 DEF do_tty_hangup
  <2>2. t = x /\ b
    <3> HIDE DEF b
    <3> QED BY <2>1, <1>3 DEF WorkUses
  <2> QED BY <2>1, <2>2 DEF Reachable
<1>4. ~WorkUses(x) /\ WorkUses(x)' =>
        (\E t \in Line : flush_to_ldisc(t) \/ do_tty_hangup(t))
  <2>1. (\E t \in Line : flush_to_ldisc(t) \/ do_tty_hangup(t)) \/ wk' = wk
        \/ wk'.t = NULL
    <3>1. ASSUME NEW t \in Line, __do_SAK(t) PROVE wk' = wk \/ wk'.t = NULL
      <4>1. [Idle EXCEPT !.pc = "BUG"].t = NULL
        BY DEF Idle
      <4> QED BY <3>1, <4>1 DEF __do_SAK
    <3>2. ASSUME NEW t \in Line, Driver(t) PROVE wk' = wk
      BY <3>2 DEF Driver, stop_tty, tty_flip_buffer_push, delayed_work, tty_hangup, do_SAK, Queue
    <3>3. CASE flush_to_ldisc_end \/ do_tty_hangup_end
      <4>1. wk'.t = NULL
        BY <3>3 DEF flush_to_ldisc_end, do_tty_hangup_end, Idle
      <4> QED BY <4>1
    <3>4. CASE (\E d \in Ldisc : tty_register_ldisc(d)) \/ UNCHANGED vars
      BY <3>4 DEF tty_register_ldisc, vars
    <3> QED BY <3>1, <3>2, <3>3, <3>4 DEF Driven, keventd
  <2> QED BY <2>1, <1>t DEF WorkUses
<1> QED BY <1>1, <1>2, <1>3, <1>4

(* No call enables or uses a discipline that another process replaces.      *)
LEMMA ReadyCall ==
  ASSUME TypeOK, PlacedInv, HomeInv, TableInv, UsersExact, ReadyInv, NEW p \in Proc, Syscall(p)
  PROVE  ReadyInv'
<1>t. tty \in [Line -> TtyStruct] /\ pc \in [Proc -> Place]
  BY DEF TypeOK
<1> SUFFICES ASSUME NEW q \in Proc, pc'[q] = "swflush"
    PROVE "LDISC" \notin tty'[file'[q].t].flags /\ tty'[file'[q].t].refs = 0
  BY DEF ReadyInv
<1>1. CASE q = p
  <2>1. tty_set_ldisc_lock(p)
    BY <1>1, WorkArrivals
  <2>2. file' = file /\ pc[p] = "switch" /\ tty[file[p].t].refs = 0
    BY <1>1, <2>1, <1>t DEF tty_set_ldisc_lock, Go
  <2>3. file[p].t \in Line
    BY <2>2, OnLine DEF OnFile
  <2>4. "LDISC" \notin tty'[file[p].t].flags /\ tty'[file[p].t].refs = tty[file[p].t].refs
    BY <2>1, <2>2, <2>3, LockEffect
  <2> QED BY <1>1, <2>2, <2>4
<1>2. CASE q # p
  <2> DEFINE x == file[q].t
  <2>1. pc[q] = "swflush" /\ file'[q].t = x
    BY <1>2, CallFrame
  <2>2. x \in Line
    BY <2>1, OnLine DEF OnFile
  <2>3. "LDISC" \notin tty[x].flags /\ tty[x].refs = 0
    BY <2>1 DEF ReadyInv
  <2>4. q \in Files(x) /\ tty[x].live
    BY <2>2, TtyAssumption DEF Files, HomeInv, CountInv
  <2>5. ~(tty_set_ldisc_open(p) /\ x = file[p].t)
    <3> SUFFICES ASSUME tty_set_ldisc_open(p), x = file[p].t PROVE FALSE
      OBVIOUS
    <3>1. p \in env.setd /\ q \in env.setd
      BY <2>1 DEF tty_set_ldisc_open, TableInv, ChangeInv
    <3> QED BY <3>1, <1>2, <2>2, TtyAssumption DEF TableInv, ApartInv
  <2> HIDE DEF x
  <2>6. ~Freed(p, x) /\ ~Born(p, x)
    <3>1. Freed(p, x) => Files(x) = {}
      BY <2>2 DEF Freed, release_mem, HomeInv, CloseInv, Deserted
    <3> QED BY <3>1, <2>4 DEF Born
  <2>7. Counts(p, x) /\ Keeps(p, x)
    BY <2>2, <2>6, CallFields DEF HomeInv
  <2>8. ~(tty_vhangup_end(p) /\ loc[p].ref /\ x = loc[p].t)
    <3>1. tty_vhangup_end(p) /\ loc[p].ref /\ x = loc[p].t => Uses(p, x)
      BY DEF tty_vhangup_end, Uses
    <3>2. tty[x].refs > 0 => FALSE
      BY <2>3
    <3> QED BY <3>1, <3>2, <2>2, UsersHold
  <2>9. "LDISC" \notin tty'[x].flags
    BY <2>3, <2>5, <2>7, <2>8 DEF Keeps, Enables
  <2>10. ~(TakesRef(p) /\ x = loc'[p].t)
    BY <2>2, <2>3, TakesEnabled
  <2>11. tty'[x].refs = 0
    BY <2>3, <2>7, <2>10 DEF Counts
  <2> QED BY <2>1, <2>9, <2>11
<1> QED BY <1>1, <1>2

(* Nor does the thread of the work queue.                                   *)
LEMMA ReadyDriven ==
  ASSUME TypeOK, PlacedInv, WorkInv, UsersExact, ReadyInv, Driven
  PROVE  ReadyInv'
<1> SUFFICES ASSUME NEW q \in Proc, pc'[q] = "swflush"
    PROVE "LDISC" \notin tty'[file'[q].t].flags /\ tty'[file'[q].t].refs = 0
  BY DEF ReadyInv
<1>0. pc[q] = "swflush" /\ file'[q].t = file[q].t
  BY DrivenFrame
<1>2. PICK x \in Line : x = file[q].t
  BY <1>0, OnLine DEF OnFile
<1>1. pc[q] = "swflush" /\ file'[q].t = x
  BY <1>0, <1>2
<1>3. "LDISC" \notin tty[x].flags /\ tty[x].refs = 0
  BY <1>1, <1>2 DEF ReadyInv
<1>4. ~WorkUses(x)
  <2>1. WorkUses(x) => tty[x].refs > 0
    BY <1>2, UsersHold
  <2> QED BY <2>1, <1>3
<1>5. "LDISC" \notin tty'[x].flags /\ ~WorkUses(x)'
  BY <1>2, <1>3, <1>4, DrivenEnabled
<1>6. tty'[x].refs = 0
  BY <1>2, <1>3, <1>4, <1>5, DrivenFields DEF DriverCounts
<1> QED BY <1>1, <1>5, <1>6

Usable(x) == "LDISC" \in tty[x].flags /\ Reachable(x)

(* What module Ldisc allows to happen to one tty.                           *)
Kept(x) ==
  \/ /\ tty'[x].disc = tty[x].disc
     /\ \/ tty'[x].refs = tty[x].refs
        \/ tty[x].refs > 0 /\ tty'[x].refs = tty[x].refs - 1
        \/ Usable(x) /\ tty'[x].refs = tty[x].refs + 1
  \/ ~Usable(x) /\ tty[x].refs = 0 /\ tty'[x].refs = 0 /\ tty'[x].disc \in Ldisc

(* A call keeps the promise: it takes references to enabled disciplines     *)
(* only, and replaces and frees those alone that have no user and can get   *)
(* none.                                                                    *)
LEMMA KeptCall ==
  ASSUME TypeOK, PlacedInv, HomeInv, WorkInv, FlushInv, TableInv, UsersExact, ReadyInv,
         NEW p \in Proc, Syscall(p), NEW x \in Line
  PROVE  Kept(x)
<1>t. /\ tty \in [Line -> TtyStruct] /\ tty[x].refs \in Nat /\ pc \in [Proc -> Place]
      /\ NULL \notin Line /\ tty'[x].disc \in Ldisc
  <2>1. TypeOK'
    BY TypeStep DEF Next
  <2> QED BY <2>1, TtyAssumption DEF TypeOK, TtyStruct
<1>1. CASE Counts(p, x) /\ Keeps(p, x)
  <2>1. CASE tty'[x].disc = tty[x].disc
    <3>1. TakesRef(p) /\ x = loc'[p].t => Usable(x)
      BY TakesEnabled DEF Usable
    <3> QED BY <1>1, <2>1, <3>1, <1>t DEF Counts, Kept
  <2>2. CASE tty_set_ldisc_open(p) /\ x = file[p].t
    <3>1. pc[p] = "swflush"
      BY <2>2 DEF tty_set_ldisc_open
    <3>2. "LDISC" \notin tty[x].flags /\ tty[x].refs = 0
      BY <2>2, <3>1 DEF ReadyInv
    <3>3. tty'[x].refs = tty[x].refs
      BY <2>2, SetEffect
    <3> QED BY <3>2, <3>3, <1>t DEF Kept, Usable
  <2> QED BY <1>1, <2>1, <2>2 DEF Keeps
<1>2. CASE Born(p, x)
  <2>1. tty[x].disc = N_TTY /\ tty'[x].disc = N_TTY /\ tty'[x].refs = 0 /\ ~tty[x].live
    BY <1>2 DEF Born, TableInv, DeadInv
  <2>2. ~WorkUses(x) /\ \A q \in Proc : ~Uses(q, x)
    BY <2>1, <1>t, LocalsLive DEF WorkInv, WorkUses, LiveLocals, Uses
  <2>3. tty[x].refs = 0
    BY <2>2, UsersHold
  <2> QED BY <2>1, <2>3 DEF Kept
<1>3. CASE Freed(p, x)
  <2>1. pc[p] = "free" /\ Side(x, loc[p].t) /\ tty'[x].refs = 0
    BY <1>3 DEF Freed, release_mem, Free
  <2>2. /\ wk.t # x /\ (\A w \in work : w[2] # x) /\ Files(x) = {}
        /\ \A q \in Proc : q # p => loc[q].t # x
    BY <2>1 DEF FlushInv, HomeInv, CloseInv, Deserted
  <2>3. ~WorkUses(x) /\ \A q \in Proc : ~Uses(q, x)
    BY <2>1, <2>2 DEF WorkUses, Uses
  <2>4. ~Usable(x)
    BY <2>1, <2>2 DEF Usable, Reachable
  <2>5. tty[x].refs = 0
    BY <2>3, UsersHold
  <2> QED BY <2>1, <2>4, <2>5, <1>t DEF Kept
<1> QED BY <1>1, <1>2, <1>3, CallFields DEF HomeInv

(* So do the driver and the thread of the work queue.                       *)
LEMMA KeptDriven ==
  ASSUME TypeOK, WorkInv, UsersExact, Driven, NEW x \in Line
  PROVE  Kept(x)
<1>1. tty[x].refs \in Nat /\ wk.t \in Line \cup {NULL} /\ wk.ld \in BOOLEAN
  BY DEF TypeOK, TtyStruct
<1>2. tty'[x].disc = tty[x].disc
  <2>1. ASSUME NEW t \in Line, do_tty_hangup(t)
        PROVE  tty'[x].disc = tty[x].disc
    BY <2>1, HangupEffect DEF do_tty_hangup
  <2>2. CASE do_tty_hangup_end
    <3>1. hangup_end(wk.t, wk.ld) /\ wk.t \in Line
      BY <2>2, <1>1 DEF do_tty_hangup_end, TypeOK
    <3> QED BY <3>1, <1>1, HangupEndEffect
  <2>3. CASE Calm
    BY <2>3 DEF Calm, Alike
  <2> QED BY <2>1, <2>2, <2>3, DrivenFrame
<1>3. ~WorkUses(x) /\ WorkUses(x)' => Usable(x)
  BY DrivenEnabled DEF Usable
<1> QED BY <1>1, <1>2, <1>3, DrivenFields DEF DriverCounts, Kept

(* A step that keeps it for every tty is a step of module Ldisc.            *)
LEMMA PromiseStep ==
  ASSUME TypeOK, \A x \in Line : Kept(x)
  PROVE  LD!LNext
<1>t. \A x \in Line : tty[x].refs \in Nat
  BY DEF TypeOK, TtyStruct
<1> SUFFICES ASSUME NEW x \in Line
    PROVE LD!Take(x) \/ LD!Drop(x) \/ LD!Bar(x) \/ LD!Unbar(x) \/ LD!Replace(x) \/ LD!Still(x)
  BY DEF LD!LNext
<1> DEFINE u == "LDISC" \in tty[x].flags /\ Reachable(x)
           v == u'
<1>1. /\ u \in BOOLEAN /\ v \in BOOLEAN /\ tty[x].refs \in Nat
      /\ \/ /\ tty'[x].disc = tty[x].disc
            /\ \/ tty'[x].refs = tty[x].refs
               \/ tty[x].refs > 0 /\ tty'[x].refs = tty[x].refs - 1
               \/ u /\ tty'[x].refs = tty[x].refs + 1
         \/ ~u /\ tty[x].refs = 0 /\ tty'[x].refs = 0 /\ tty'[x].disc \in Ldisc
  BY <1>t DEF Kept, Usable
<1>2. /\ LD!Take(x) <=> u /\ tty'[x].refs = tty[x].refs + 1 /\ tty'[x].disc = tty[x].disc /\ v
      /\ LD!Drop(x) <=> tty[x].refs > 0 /\ tty'[x].refs = tty[x].refs - 1
                        /\ tty'[x].disc = tty[x].disc /\ (v => u)
      /\ LD!Bar(x) <=> u /\ ~v /\ tty'[x].refs \in {tty[x].refs, tty[x].refs + 1}
                       /\ tty'[x].disc = tty[x].disc
      /\ LD!Unbar(x) <=> ~u /\ v /\ tty'[x].disc = tty[x].disc
           /\ (tty'[x].refs = tty[x].refs \/ (tty[x].refs > 0 /\ tty'[x].refs = tty[x].refs - 1))
      /\ LD!Replace(x) <=> ~u /\ tty[x].refs = 0 /\ tty'[x].refs = 0 /\ tty'[x].disc \in Ldisc
      /\ LD!Still(x) <=> tty'[x].disc = tty[x].disc /\ tty'[x].refs = tty[x].refs /\ (v <=> u)
  BY DEF LD!Take, LD!Drop, LD!Bar, LD!Unbar, LD!Replace, LD!Still
<1> HIDE DEF u, v
<1> QED BY <1>1, <1>2

(* A behaviour of the ttys is one of module Ldisc: no discipline is closed  *)
(* or replaced under a user, or while somebody could become one, through    *)
(* changes, hangups and closes in any order.                                *)
THEOREM DisciplinesKeepTheirPromise == Gentle /\ Apart => (Spec => LdiscPromise)
<1> SUFFICES ASSUME Gentle, Apart PROVE Spec => LdiscPromise
  OBVIOUS
<1> DEFINE I == TypeOK /\ PlacedInv /\ HomeInv /\ WorkInv /\ FlushInv /\ UsersExact
<1>1. Spec => []I
  <2>1. Spec => [](TypeOK /\ PlacedInv /\ LockInv /\ HomeInv /\ WorkInv /\ FlushInv)
    BY WorkAlways
  <2>2. Spec => []UsersExact
    BY UsersAreCounted
  <2> QED BY <2>1, <2>2, PTL
<1>2. Init => TableInv /\ ReadyInv
  <2>1. Init => ReadyInv
    BY DEF Init, ReadyInv
  <2> QED BY <2>1, TableInit
<1>3. I /\ TableInv /\ ReadyInv /\ [Next]_vars => TableInv' /\ ReadyInv'
  BY TableCall, TableDriven, ReadyCall, ReadyDriven, Steps
<1>4. I /\ TableInv /\ ReadyInv /\ [Next]_vars => LD!LNext
  <2> SUFFICES ASSUME I, TableInv, ReadyInv, [Next]_vars PROVE LD!LNext
    OBVIOUS
  <2>1. \A x \in Line : Kept(x)
    BY KeptCall, KeptDriven, Steps
  <2> QED BY <2>1, PromiseStep
<1>5. Init => LD!LInit
  <2> SUFFICES ASSUME Init PROVE LD!LInit
    OBVIOUS
  <2>1. Free.disc = N_TTY /\ Free.refs = 0
    BY DEF Free
  <2>2. \A c : LET r == tty_ldisc_enable([initialize_tty_struct EXCEPT !.count = c])
               IN r.disc = N_TTY /\ r.refs = 0
    BY DEF tty_ldisc_enable, initialize_tty_struct, Free
  <2>3. \A x \in Line : tty[x].disc = N_TTY /\ tty[x].refs = 0
    BY <2>1, <2>2 DEF Init
  <2> QED BY <2>3 DEF LD!LInit
<1> HIDE DEF I
<1> QED BY <1>1, <1>2, <1>3, <1>4, <1>5, PTL DEF Spec, LdiscPromise, LD!LSpec
=============================================================================
