------------------------------- MODULE Unimap -------------------------------
(***************************************************************************)
(* The unicode maps of the consoles: reference counted page directories    *)
(* shared between consoles, their inverse tables, and the place where a    *)
(* console keeps the pointer to its map: in the console itself, or for the *)
(* VGA driver in one place for all consoles.                               *)
(*                                                                         *)
(* Source: drivers/char/consolemap.c, the callers in vt.c (visual_init,    *)
(* vc_allocate, vc_disallocate, take_over_console), vt_ioctl.c and         *)
(* drivers/video/console/vgacon.c (vgacon_init, vgacon_deinit).            *)
(*                                                                         *)
(* One display.  The functions map a record s of the variables; a request  *)
(* is one step under the big kernel lock, and each kmalloc may fail.  A    *)
(* map that was freed keeps its contents until its memory is given out     *)
(* again (the slab allocator without its debugging, and nobody else takes  *)
(* the memory); a step through a NULL pointer, and the second release of   *)
(* the same memory, end the behaviour.                                     *)
(***************************************************************************)
EXTENDS Integers, FiniteSets, FiniteSetsExt

CONSTANTS
  Cons,          \* the consoles of the display, numbers
  Kept,          \* the consoles VT_DISALLOCATE never frees
  Dirs,          \* memory for struct uni_pagedir, a set of numbers
  NPages,        \* a character is in one of the pages 0 .. NPages - 1 ...
  NOffsets,      \* ... at one of the offsets 0 .. NOffsets - 1
  DefaultPairs,  \* dfont_unitable: pairs <<character, glyph>>
  Lists,         \* the lists of pairs programs load, each with one glyph for a character
  UserTables,    \* contents of translations[USER_MAP]
  Shortages,     \* what may find no memory in a request: pages, or INVERSE
  MaxRefs,       \* bound: references, those that leak included
  Word,          \* the sums are kept modulo Word
  MaxFailed,     \* bound: consoles whose allocation failed half-way
  MaxMisfreed,   \* bound: maps freed under their users
  NULL

VARIABLES
  driver,        \* vt_sw: "vga" or "own", a driver that leaves the pointers alone
  st,            \* con, shared, users, dir, dflt: see below
  user,          \* translations[USER_MAP]
  failed,        \* history: allocations that failed after vgacon_init
  misfreed       \* history: maps that UseDefault freed under a pointer to them

vars == <<driver, st, user, failed, misfreed>>

Pages == 0 .. NPages - 1
NONE == -1                               \* 0xffff, no glyph

Empty == [g \in Pages |-> NULL]

(* st.con[c]: NULL, or loc, where the pointer of console c is, and own, the *)
(* pointer in the console; st.shared, st.users: vgacon_uni_pagedir[0], [1]; *)
(* st.dflt; st.dir[d]: free, refcount, sum, map (a page of glyphs, or NULL, *)
(* for each page) and inv, the pair of the map and the user table the       *)
(* inverse tables were computed from; st.oops: nothing happens any more.    *)
(* A negative refcount is one that wrapped around.                          *)
Unused == [free |-> TRUE, refcount |-> 0, sum |-> 0, map |-> Empty, inv |-> NULL]

(***************************************************************************)
(* Pointers.                                                               *)
(***************************************************************************)
Get(s, c) == IF s.con[c].loc = "own" THEN s.con[c].own ELSE s.shared
Put(s, c, d) ==
  IF s.con[c].loc = "own" THEN [s EXCEPT !.con[c].own = d] ELSE [s EXCEPT !.shared = d]

AddRef(s, d, n) == [s EXCEPT !.dir[d].refcount = @ + n]

con_release_unimap(s, d) ==
  [s EXCEPT !.dflt = IF @ = d THEN NULL ELSE @, !.dir[d].map = Empty, !.dir[d].inv = NULL]

FreeDir(s, d) == [con_release_unimap(s, d) EXCEPT !.dir[d].free = TRUE, !.oops = s.dir[d].free]

con_free_unimap(s, c) ==
  LET d == Get(s, c)
      t == AddRef(Put(s, c, NULL), d, -1)
  IN IF d = NULL THEN s ELSE IF t.dir[d].refcount # 0 THEN t ELSE FreeDir(t, d)

FreeDirs(s) == {d \in Dirs : s.dir[d].free}
NewDir(s, c) ==
  LET d == Min(FreeDirs(s)) IN
  Put([s EXCEPT !.dir[d] = [Unused EXCEPT !.free = FALSE, !.refcount = 1]], c, d)

(***************************************************************************)
(* Maps.                                                                   *)
(***************************************************************************)
PageOf(ch) == ch \div NOffsets

INVERSE == -1                            \* in a set full: no memory for inverse tables

(* con_insert_unipair for all pairs; a page in full cannot be allocated.    *)
Taken(map, pairs, full) ==
  {x \in pairs : map[PageOf(x[1])] # NULL \/ PageOf(x[1]) \notin full}

Inserted(dir, pairs, full) ==
  LET taken == Taken(dir.map, pairs, full)
      page(g) == IF dir.map[g] = NULL THEN [o \in 0 .. NOffsets - 1 |-> NONE] ELSE dir.map[g]
  IN [dir EXCEPT
        !.sum = (@ + SumSet({x[2] * NPages * NOffsets + x[1] : x \in taken})) % Word,
        !.map = [g \in Pages |->
           LET here == {x \in taken : PageOf(x[1]) = g} IN
           IF here = {} THEN @[g]
           ELSE [o \in 0 .. NOffsets - 1 |->
                   LET hits == {x \in here : x[1] = g * NOffsets + o} IN
                   IF hits = {} THEN page(g)[o] ELSE (CHOOSE x \in hits : TRUE)[2]]]]

(* The pairs of the copy of a shared map: l counts the characters of the    *)
(* pages that exist, so that the k-th page there is becomes page k.         *)
Existing(map) == {g \in Pages : map[g] # NULL}
Copied(map) ==
  {<<Cardinality({h \in Existing(map) : h < g}) * NOffsets + o, map[g][o]>> :
     <<g, o>> \in {x \in Existing(map) \X (0 .. NOffsets - 1) : map[x[1]][x[2]] # NONE}}

(* The inverse tables of map d; they stay away when there is no memory.     *)
\* Faulty variant: inverse tables that exist are not computed again.
set_inverse_translOnce(s, d, u, full) ==
  IF s.dir[d].inv # NULL THEN s ELSE [s EXCEPT !.dir[d].inv = <<s.dir[d].map, u>>]
set_inverse_transl(s, d, u, full) ==
  IF s.dir[d].inv = NULL /\ INVERSE \in full THEN s
  ELSE [s EXCEPT !.dir[d].inv = <<s.dir[d].map, u>>]

(* The first console whose map is another one with the same contents; its   *)
(* map is then shared.  The sums are compared first: the same contents      *)
(* loaded in another way need not be found.                                 *)
\* Faulty variant: the map found gets no reference for its new user.
con_unify_unimapUncounted(s, c) ==
  LET p == Get(s, c)
      same == {x \in Cons : /\ s.con[x] # NULL /\ Get(s, x) \notin {NULL, p}
                            /\ s.dir[Get(s, x)].sum = s.dir[p].sum
                            /\ s.dir[Get(s, x)].map = s.dir[p].map}
      q == Get(s, Min(same))
  IN IF same = {} THEN s ELSE FreeDir(Put(s, c, q), p)
con_unify_unimap(s, c) ==
  LET p == Get(s, c)
      same == {x \in Cons : /\ s.con[x] # NULL /\ Get(s, x) \notin {NULL, p}
                            /\ s.dir[Get(s, x)].sum = s.dir[p].sum
                            /\ s.dir[Get(s, x)].map = s.dir[p].map}
      q == Get(s, Min(same))
  IN IF same = {} THEN s ELSE FreeDir(Put(AddRef(s, q, 1), c, q), p)

CanClear(s, c) ==
  FreeDirs(s) # {} \/ (Get(s, c) # NULL /\ s.dir[Get(s, c)].refcount = 1)

con_clear_unimap(s, c) ==
  LET p == Get(s, c) IN
  IF p = NULL THEN NewDir(s, c)
  ELSE IF s.dir[p].refcount # 1 THEN NewDir(AddRef(s, p, -1), c)
  ELSE [con_release_unimap(s, p) EXCEPT !.dir[p].sum = 0]

(* The map of console c has been filled: shared if possible, else its       *)
(* inverse tables are computed.                                             *)
Filled(s, c, pairs, full) ==
  LET t == [s EXCEPT !.dir[Get(s, c)] = Inserted(@, pairs, full)]
      u == con_unify_unimap(t, c)
  IN IF Get(u, c) # Get(t, c) THEN u ELSE set_inverse_transl(t, Get(t, c), user, full)

Shared(s, p) == s.dir[p].refcount \notin {0, 1}

(* A shared map is copied first; if a page of the copy finds no memory the  *)
(* copy is dropped.                                                         *)
con_set_unimap(s, c, pairs, full) ==
  LET p == Get(s, c)
      q == con_clear_unimap(s, c)
      copy == Copied(q.dir[p].map)
  IN IF pairs = {} THEN s
     ELSE IF ~ Shared(s, p)
     THEN Filled([s EXCEPT !.dflt = IF @ = p THEN NULL ELSE @], c, pairs, full)
     ELSE IF Taken(Empty, copy, full) # copy THEN s
     ELSE Filled([q EXCEPT !.dir[Get(q, c)] = Inserted(@, copy, full)], c, pairs, full)

(* With a default map the console takes it, and the map it had is freed     *)
(* when others still use it, and kept when none does (the test is inverted).*)
UseDefault(s, c) ==
  LET p == Get(s, c)
      t == Put(AddRef(s, s.dflt, 1), c, s.dflt)
      u == AddRef(t, p, -1)
  IN IF p = s.dflt THEN s
     ELSE IF p = NULL THEN t
     ELSE IF u.dir[p].refcount # 0 THEN FreeDir(u, p) ELSE u

con_set_default_unimap(s, c, full) ==
  IF s.dflt # NULL THEN UseDefault(s, c)
  ELSE IF ~ CanClear(s, c) THEN s
  ELSE LET t == Filled(con_clear_unimap(s, c), c, DefaultPairs, full) IN
       [t EXCEPT !.dflt = Get(t, c)]

(***************************************************************************)
(* The drivers.                                                            *)
(***************************************************************************)
(* vgacon_init; the pointer of the console itself was cleared before.       *)
vgacon_init(s, c, full) ==
  LET p == Get(s, c)
      t == [(IF s.con[c].loc = "own" THEN con_free_unimap(s, c) ELSE s)
              EXCEPT !.con[c].loc = "shared", !.users = @ + 1]
  IN IF t.shared = NULL /\ p # NULL THEN con_set_default_unimap(t, c, full) ELSE t

vgacon_deinit(s, c, full) ==
  LET last == s.users = 1
      t == [s EXCEPT !.users = @ - 1]
      u == IF last THEN con_free_unimap(t, c) ELSE t
  IN con_set_default_unimap([u EXCEPT !.con[c].loc = "own"], c, full)

(* visual_init: a console with a pointer of its own, cleared, is handed to  *)
(* the driver.                                                              *)
visual_init(s, c, drv, full) ==
  LET t == [s EXCEPT !.con[c] = [loc |-> "own", own |-> NULL]] IN
  IF drv = "vga" THEN vgacon_init(t, c, full) ELSE t

con_deinit(s, c, full) == IF driver = "vga" THEN vgacon_deinit(s, c, full) ELSE s

(***************************************************************************)
(* Requests.                                                               *)
(***************************************************************************)
Init ==
  /\ driver \in {"vga", "own"}
  /\ LET loc == IF driver = "vga" THEN "shared" ELSE "own" IN
     st = [con |-> [c \in Cons |-> IF c \in Kept THEN [loc |-> loc, own |-> NULL] ELSE NULL],
           shared |-> NULL, users |-> IF driver = "vga" THEN Cardinality(Kept) ELSE 0,
           dir |-> [d \in Dirs |-> Unused], dflt |-> NULL, oops |-> FALSE]
  /\ user \in UserTables /\ failed = 0 /\ misfreed = {}

Live(c) == st.con[c] # NULL

(* The maps some pointer leads to.                                          *)
Reached == ({st.shared, st.dflt} \cup {Get(st, c) : c \in {x \in Cons : Live(x)}}) \ {NULL}

(* console_map_init at boot, for one console after the other.               *)
console_map_init(c, full) ==
  /\ c \in Kept /\ Get(st, c) = NULL /\ \A x \in Kept : x < c => Get(st, x) # NULL
  /\ st' = con_set_default_unimap(st, c, full)
  /\ UNCHANGED <<driver, user, failed, misfreed>>

Booted == \A c \in Kept : Get(st, c) # NULL

(* vc_allocate; the screen buffer may find no memory when the driver has    *)
(* already been told of the console.                                        *)
vc_allocate(c, full) ==
  /\ ~ Live(c) /\ \A d \in Reached : st.dir[d].refcount < MaxRefs
  /\ LET t == visual_init(st, c, driver, full) IN
     \/ /\ st' = IF Get(t, c) = NULL THEN con_set_default_unimap(t, c, full) ELSE t
        /\ UNCHANGED failed
     \/ /\ failed < MaxFailed /\ failed' = failed + t.users - st.users
        /\ st' = [t EXCEPT !.con[c] = NULL]
  /\ UNCHANGED <<driver, user, misfreed>>

vc_disallocate(c, full) ==
  /\ Live(c) /\ c \notin Kept
  /\ st' = [con_deinit(st, c, full) EXCEPT !.con[c] = NULL]
  /\ UNCHANGED <<driver, user, failed, misfreed>>

PIO_UNIMAPCLR(c) ==
  /\ Live(c) /\ CanClear(st, c)
  /\ st' = con_clear_unimap(st, c)
  /\ UNCHANGED <<driver, user, failed, misfreed>>

PIO_UNIMAP(c, pairs, full) ==
  /\ Live(c)
  /\ IF Get(st, c) = NULL THEN st' = [st EXCEPT !.oops = TRUE]
     ELSE /\ Shared(st, Get(st, c)) => CanClear(st, c)
          /\ st' = con_set_unimap(st, c, pairs, full)
  /\ UNCHANGED <<driver, user, failed, misfreed>>

(* PIO_FONTRESET: the VGA driver has no default font and refuses.  On the   *)
(* other, the inverted test of UseDefault frees a map that others use, and  *)
(* they go on with a pointer to free memory.                                *)
FreesUsed(s, c) ==
  s.dflt # NULL /\ Get(s, c) \notin {NULL, s.dflt} /\ s.dir[Get(s, c)].refcount # 1

PIO_FONTRESET(c, full) ==
  /\ Live(c) /\ driver = "own"
  /\ FreesUsed(st, c) => Cardinality(misfreed) < MaxMisfreed
  /\ st' = con_set_default_unimap(st, c, full)
  /\ misfreed' = misfreed \cup (IF FreesUsed(st, c) THEN {Get(st, c)} ELSE {})
  /\ UNCHANGED <<driver, user, failed>>

(* F applied for one console of the display after the other.                *)
OverAll(s, F(_, _)) ==
  LET f[n \in 0 .. Cardinality(Cons)] ==
        IF n = 0 THEN s
        ELSE LET t == f[n - 1]
                 c == CHOOSE x \in Cons : Cardinality({y \in Cons : y < x}) = n - 1
             IN IF t.con[c] = NULL THEN t ELSE F(t, c)
  IN f[Cardinality(Cons)]

(* PIO_SCRNMAP and PIO_UNISCRNMAP: the user table, then the inverse tables  *)
(* of the maps of all consoles (update_user_maps).                          *)
update_user_maps(s, u, full) ==
  OverAll(s, LAMBDA t, c :
    IF Get(t, c) = NULL THEN t ELSE set_inverse_transl(t, Get(t, c), u, full))

con_set_trans(u, full) ==
  /\ user' = u
  /\ st' = update_user_maps(st, u, full)
  /\ UNCHANGED <<driver, failed, misfreed>>

(* take_over_console with a driver that starts: every console leaves the    *)
(* old one and is handed to the new one, without the map it had.            *)
take_over_console(full) ==
  /\ driver = "vga"
  /\ LET left == OverAll(st, LAMBDA s, c : con_deinit(s, c, full)) IN
     st' = OverAll(left, LAMBDA s, c : visual_init(s, c, "own", full))
  /\ driver' = "own"
  /\ UNCHANGED <<user, failed, misfreed>>

(* Bound: no more memory is short once a map was freed under its users.     *)
Short == IF misfreed = {} THEN Shortages ELSE {{}}

Next ==
  /\ ~ st.oops
  /\ \/ \E full \in Short :
          \/ \E c \in Cons : console_map_init(c, full)
          \/ /\ Booted
             /\ \/ \E c \in Cons : \/ vc_allocate(c, full) \/ vc_disallocate(c, full)
                                   \/ PIO_FONTRESET(c, full)
                                   \/ \E pairs \in Lists : PIO_UNIMAP(c, pairs, full)
                \/ take_over_console(full)
                \/ \E u \in UserTables : con_set_trans(u, full)
     \/ Booted /\ \E c \in Cons : PIO_UNIMAPCLR(c)

Spec == Init /\ [][Next]_vars

(***************************************************************************)
(* Properties.                                                             *)
(***************************************************************************)
Holders(d) == {c \in Cons : Live(c) /\ st.con[c].loc = "own" /\ st.con[c].own = d}

(* No pointer leads to freed memory, and a map is not freed while one does: *)
(* its reference count covers the consoles and the common place that hold   *)
(* it.  Excepted is the memory of maps that PIO_FONTRESET freed under their *)
(* users, by the inverted test of con_set_default_unimap: the pointers left *)
(* lead to free memory, and later to another console's map, whose count     *)
(* does not cover them.                                                     *)
RefsCover ==
  /\ \A d \in Dirs \ misfreed :
       LET n == Cardinality(Holders(d)) + (IF st.shared = d /\ st.users > 0 THEN 1 ELSE 0) IN
       n > 0 => ~ st.dir[d].free /\ st.dir[d].refcount >= n
  /\ st.dflt \notin misfreed \cup {NULL} => ~ st.dir[st.dflt].free

(* The VGA driver counts the users of the common pointer: never fewer than  *)
(* there are, or the last user would find its map freed, and more only for  *)
(* allocations that failed half-way.                                        *)
UsersExact ==
  st.users = Cardinality({c \in Cons : Live(c) /\ st.con[c].loc = "shared"}) + failed

(* Selection copies text through the inverse tables: those of a console's   *)
(* map belong to what the map holds now, and on the VGA driver, where no    *)
(* console takes up a map that was out of use when update_user_maps ran, to *)
(* the present user table.                                                  *)
InverseFresh ==
  \A c \in Cons : Live(c) /\ Get(st, c) # NULL =>
    LET d == st.dir[Get(st, c)] IN
    d.inv # NULL => d.inv[1] = d.map /\ (driver = "vga" => d.inv[2] = user)
=============================================================================
