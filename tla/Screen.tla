------------------------------- MODULE Screen -------------------------------
(***************************************************************************)
(* The screen of one virtual console: the cursor, the scrolling region,    *)
(* the tab stops and the character buffer, under the control functions of  *)
(* the terminal emulator, resizing and kernel messages.                    *)
(*                                                                         *)
(* Source: drivers/char/decvte.c (the control functions), drivers/char/    *)
(* vt.c (gotoxy, scrolling, insertion and deletion, do_con_write,          *)
(* vc_resize, vt_console_print).                                           *)
(*                                                                         *)
(* The code keeps the cursor twice, as coordinates and as the address      *)
(* vc_pos, and updates both step by step; the buffer is one row after the  *)
(* other.  pos is that address, in cells from vc_origin.  All of this runs *)
(* under console_sem, so a control function is one step; a loop that a     *)
(* parameter controls, and a kernel message, are one step per iteration    *)
(* with nothing in between.                                                *)
(***************************************************************************)
EXTENDS Integers, FiniteSets

CONSTANTS
  Sizes,      \* the sizes <<columns, rows>> the console may have
  Word,       \* the number of values of an unsigned int (2^32)
  Params,     \* parameters of control sequences
  TabBits,    \* bits in one word of vc_tab_stop (32)
  TabEvery,   \* distance of the default tab stops (8)
  Blank,      \* vc_video_erase_char
  Glyph       \* any other character

TabWords == 8            \* words of vc_tab_stop
TabWordsReset == 5       \* words that vte_ris and vte_tbc write

Cell == {Blank, Glyph}

ASSUME SizesAssumption ==
  Sizes # {} /\ Sizes \subseteq (1 .. TabWords * TabBits) \X (Nat \ {0})
ASSUME WordAssumption == Word \in Nat \ {0} /\ Params \subseteq 0 .. Word - 1
ASSUME TabAssumption == TabBits \in Nat \ {0} /\ TabEvery \in Nat \ {0}

VARIABLES
  s,        \* the part of struct vc_data that this module is about
  text,     \* the character buffer, by address
  loop,     \* the loop a control function is in, and what is left of it
  prt       \* the locals of vt_console_print

vars == <<s, text, loop, prt>>

VcScreen == [cols : Nat, rows : Nat, x : Nat, y : Nat, pos : Nat,
             top : Nat, bottom : Nat, need_wrap : BOOLEAN,
             decom : BOOLEAN, decawm : BOOLEAN, irm : BOOLEAN,
             saved_x : Nat, saved_y : Nat, tab_stop : SUBSET Nat]

Buffer(c) == 0 .. c.rows * c.cols - 1

(* Conversion of an unsigned to a signed int of the same width.             *)
ToInt(v) == LET u == v % Word IN IF u < Word \div 2 THEN u ELSE u - Word

Clamp(v, lo, hi) == IF v < lo THEN lo ELSE IF v > hi THEN hi ELSE v

-----------------------------------------------------------------------------
(* The buffer m of the screen c.                                            *)

memsetw(m, to, n) == [i \in DOMAIN m |-> IF i \in to .. to + n - 1 THEN Blank ELSE m[i]]

memmovew(m, to, from, n) ==
  [i \in DOMAIN m |-> IF i \in to .. to + n - 1 THEN m[i - to + from] ELSE m[i]]

(* The number of lines a scroll really moves: at least one line stays.      *)
ScrollBy(t, b, nr) == IF t + nr >= b THEN b - t - 1 ELSE nr

(* Faulty variant: the region is taken to end one line later.               *)
scroll_region_upLong(c, m, t, b, nr) ==
  LET n == ScrollBy(t, b, nr)
  IN IF b >= c.rows \/ t >= b \/ n < 1 THEN m
     ELSE memsetw(memmovew(m, t * c.cols, (t + n) * c.cols, (b - t - n + 1) * c.cols),
                  (b - n + 1) * c.cols, n * c.cols)

scroll_region_up(c, m, t, b, nr) ==
  LET n == ScrollBy(t, b, nr)
  IN IF b > c.rows \/ t >= b \/ n < 1 THEN m
     ELSE memsetw(memmovew(m, t * c.cols, (t + n) * c.cols, (b - t - n) * c.cols),
                  (b - n) * c.cols, n * c.cols)

scroll_region_down(c, m, t, b, nr) ==
  LET n == ScrollBy(t, b, nr)
  IN IF b > c.rows \/ t >= b \/ n < 1 THEN m
     ELSE memsetw(memmovew(m, (t + n) * c.cols, t * c.cols, (b - t - n) * c.cols),
                  t * c.cols, n * c.cols)

insert_char(c, m, nr) ==
  memsetw(memmovew(m, c.pos + nr, c.pos, c.cols - nr - c.x), c.pos, nr)

delete_char(c, m, nr) ==
  memsetw(memmovew(m, c.pos, c.pos + nr, c.cols - nr - c.x), c.pos + c.cols - nr - c.x, nr)

-----------------------------------------------------------------------------
(* The cursor.                                                              *)

(* Faulty variant: the origin mode is forgotten.                            *)
gotoxyAbsolute(c, new_x, new_y) ==
  LET cx == Clamp(new_x, 0, c.cols - 1)
      cy == Clamp(new_y, 0, c.rows - 1)
  IN [c EXCEPT !.x = cx, !.y = cy, !.pos = cy * c.cols + cx, !.need_wrap = FALSE]

gotoxy(c, new_x, new_y) ==
  LET cx == Clamp(new_x, 0, c.cols - 1)
      cy == IF c.decom THEN Clamp(new_y, c.top, c.bottom - 1)
                       ELSE Clamp(new_y, 0, c.rows - 1)
  IN [c EXCEPT !.x = cx, !.y = cy, !.pos = cy * c.cols + cx, !.need_wrap = FALSE]

(* Absolute moves count from the top of the region in origin mode.          *)
gotoxay(c, new_x, new_y) ==
  gotoxy(c, ToInt(new_x), ToInt(IF c.decom THEN c.top + new_y ELSE new_y))

Scrolls(c) == c.y + 1 = c.bottom

(* Faulty variant: the address is not moved.                                *)
vte_lfKeepsAddress(c) ==
  IF Scrolls(c) \/ c.y >= c.rows - 1 THEN [c EXCEPT !.need_wrap = FALSE]
  ELSE [c EXCEPT !.y = c.y + 1, !.need_wrap = FALSE]

vte_lf(c) ==
  IF Scrolls(c) \/ c.y >= c.rows - 1 THEN [c EXCEPT !.need_wrap = FALSE]
  ELSE [c EXCEPT !.y = c.y + 1, !.pos = c.pos + c.cols, !.need_wrap = FALSE]

vte_lf_text(c, m) == IF Scrolls(c) THEN scroll_region_up(c, m, c.top, c.bottom, 1) ELSE m

vte_ri(c) ==
  IF c.y = c.top \/ c.y = 0 THEN [c EXCEPT !.need_wrap = FALSE]
  ELSE [c EXCEPT !.y = c.y - 1, !.pos = c.pos - c.cols, !.need_wrap = FALSE]

vte_ri_text(c, m) == IF c.y = c.top THEN scroll_region_down(c, m, c.top, c.bottom, 1) ELSE m

(* Faulty variant: the pending wrap survives.                               *)
vte_crKeepsWrap(c) == [c EXCEPT !.pos = c.pos - c.x, !.x = 0]

vte_cr(c) == [c EXCEPT !.pos = c.pos - c.x, !.x = 0, !.need_wrap = FALSE]

vte_bs(c) ==
  IF c.x = 0 THEN c
  ELSE [c EXCEPT !.pos = c.pos - 1, !.x = c.x - 1, !.need_wrap = FALSE]

(* Column j is where a tabulation to the right, or to the left, stops.      *)
TabRight(c, j) ==
  \/ c.x = c.cols - 1 /\ j = c.x
  \/ /\ c.x < j /\ j < c.cols
     /\ j \in c.tab_stop \/ j = c.cols - 1
     /\ \A k \in c.tab_stop : ~(c.x < k /\ k < j)

TabLeft(c, j) ==
  \/ c.x = 0 /\ j = 0
  \/ /\ j < c.x
     /\ j \in c.tab_stop \/ j = 0
     /\ \A k \in c.tab_stop : ~(j < k /\ k < c.x)

(* Tabulations leave a pending wrap alone.                                  *)
TabTo(c, j) == [c EXCEPT !.pos = c.pos - c.x + j, !.x = j]

vte_decsc(c) == [c EXCEPT !.saved_x = c.x, !.saved_y = c.y]

vte_decrc(c) == gotoxy(c, c.saved_x, c.saved_y)

(* The tab stops beyond the words that are reset stay as they are.          *)
BeyondReset(c) == {k \in c.tab_stop : k >= TabWordsReset * TabBits}
DefaultTabs == {k \in 1 .. TabWordsReset * TabBits - 1 : k % TabEvery = 0}

vte_ris(c) ==
  vte_decsc(gotoxy([c EXCEPT !.top = 0, !.bottom = c.rows, !.need_wrap = FALSE,
                             !.decom = FALSE, !.decawm = TRUE, !.irm = FALSE,
                             !.tab_stop = DefaultTabs \cup BeyondReset(c)], 0, 0))

-----------------------------------------------------------------------------
Idle == [body |-> "none", left |-> 0]
Silent == [on |-> FALSE, cnt |-> 0, myx |-> 0]

Fresh(size) ==
  [cols |-> size[1], rows |-> size[2], x |-> 0, y |-> 0, pos |-> 0,
   top |-> 0, bottom |-> size[2], need_wrap |-> FALSE, decom |-> FALSE,
   decawm |-> TRUE, irm |-> FALSE, saved_x |-> 0, saved_y |-> 0,
   tab_stop |-> DefaultTabs]

(* vc_init: a new console after vte_ris.                                    *)
Init ==
  /\ \E size \in Sizes : s = Fresh(size)
  /\ text = [i \in Buffer(s) |-> Blank]
  /\ loop = Idle
  /\ prt = Silent

(* One control function, when no loop and no kernel message is under way.   *)
Do(c, m) ==
  /\ loop = Idle
  /\ ~prt.on
  /\ s' = c
  /\ text' = m
  /\ UNCHANGED <<loop, prt>>

Start(body, n) ==
  /\ loop = Idle
  /\ ~prt.on
  /\ n > 0
  /\ loop' = [body |-> body, left |-> n]
  /\ UNCHANGED <<s, text, prt>>

AtLeastOne(n) == IF n = 0 THEN 1 ELSE n

-----------------------------------------------------------------------------
(***************************************************************************)
(* do_con_write of a character that is displayed.  A wrap that is pending  *)
(* from the last column is made up for first.                              *)
(***************************************************************************)
Wrapped(c) == IF c.need_wrap THEN vte_lf(vte_cr(c)) ELSE c
Wrapped_text(c, m) == IF c.need_wrap THEN vte_lf_text(vte_cr(c), m) ELSE m

Advance(c) ==
  IF c.x = c.cols - 1 THEN [c EXCEPT !.need_wrap = c.decawm]
  ELSE [c EXCEPT !.x = c.x + 1, !.pos = c.pos + 1]

do_con_write(ch) ==
  LET c == Wrapped(s)
      m == Wrapped_text(s, text)
      n == IF c.irm THEN insert_char(c, m, 1) ELSE m
  IN Do(Advance(c), [n EXCEPT ![c.pos] = ch])

(* C0 control characters and their C1 equivalents.  A line feed in the mode *)
(* VC_CRLF of the keyboard is NEL.                                          *)
BS == Do(vte_bs(s), text)
CR == Do(vte_cr(s), text)
LF == Do(vte_lf(s), vte_lf_text(s, text))
NEL == Do(vte_lf(vte_cr(s)), vte_lf_text(vte_cr(s), text))
RI == Do(vte_ri(s), vte_ri_text(s, text))
HT == \E j \in 0 .. s.cols - 1 : TabRight(s, j) /\ Do(TabTo(s, j), text)
HTS == Do([s EXCEPT !.tab_stop = s.tab_stop \cup {s.x}], text)
DECSC == Do(vte_decsc(s), text)
DECRC == Do(vte_decrc(s), text)
RIS == Do(vte_ris(s), memsetw(text, 0, s.rows * s.cols))
DECALN == Do([s EXCEPT !.need_wrap = FALSE], [i \in DOMAIN text |-> Glyph])

(* Cursor movement.                                                         *)
CUU(n) == Do(gotoxy(s, s.x, ToInt(s.y - AtLeastOne(n))), text)
CUD(n) == Do(gotoxy(s, s.x, ToInt(s.y + AtLeastOne(n))), text)
CUF(n) == Do(gotoxy(s, ToInt(s.x + AtLeastOne(n)), s.y), text)
CUB(n) == Do(gotoxy(s, ToInt(s.x - AtLeastOne(n)), s.y), text)
CNL(n) == Do(gotoxy(s, 0, ToInt(s.y + AtLeastOne(n))), text)
CPL(n) == Do(gotoxy(s, 0, ToInt(s.y - AtLeastOne(n))), text)
CHA(n) == Do(gotoxy(s, ToInt(AtLeastOne(n) - 1), s.y), text)
CUP(n, k) == Do(gotoxay(s, AtLeastOne(k) - 1, AtLeastOne(n) - 1), text)
VPA(n) == Do(gotoxay(s, s.x, AtLeastOne(n) - 1), text)

(* A position written to the header of a /dev/vcsa device.                  *)
putconsxy(n, k) == Do(gotoxy(s, n, k), text)

(* Tabulation.  The loops count with a signed int.                          *)
CHT(n) == Start("vte_cht", ToInt(AtLeastOne(n)))
CBT(n) == Start("vte_cbt", ToInt(n))
CVT(n) == Start("vte_cvt", ToInt(AtLeastOne(n)))

LoopStep ==
  /\ loop # Idle
  /\ loop' = IF loop.left = 1 THEN Idle ELSE [loop EXCEPT !.left = @ - 1]
  /\ \/ /\ loop.body = "vte_cht"
        /\ \E j \in 0 .. s.cols - 1 : TabRight(s, j) /\ s' = TabTo(s, j)
        /\ UNCHANGED text
     \/ /\ loop.body = "vte_cbt"
        /\ \E j \in 0 .. s.cols - 1 : TabLeft(s, j) /\ s' = TabTo(s, j)
        /\ UNCHANGED text
     \/ /\ loop.body = "vte_cvt"
        /\ s' = vte_lf(s)
        /\ text' = vte_lf_text(s, text)
  /\ UNCHANGED prt

TBC(n) ==
  Do([s EXCEPT !.tab_stop = IF n = 0 THEN s.tab_stop \ {s.x}
                            ELSE IF n \in {2, 3, 5} THEN BeyondReset(s)
                            ELSE s.tab_stop], text)

(* Erasing, with the pending wrap forgotten.                                *)
Erase(from, n) == Do([s EXCEPT !.need_wrap = FALSE], memsetw(text, from, n))

vte_ed(n) ==
  \/ n = 0 /\ Erase(s.pos, s.rows * s.cols - s.pos)
  \/ n = 1 /\ Erase(0, s.pos + 1)
  \/ n = 2 /\ Erase(0, s.rows * s.cols)

vte_el(n) ==
  \/ n = 0 /\ Erase(s.pos, s.cols - s.x)
  \/ n = 1 /\ Erase(s.pos - s.x, s.x + 1)
  \/ n = 2 /\ Erase(s.pos - s.x, s.cols)

AtMost(n, k) == IF n > k THEN k ELSE n

vte_ech(n) == Erase(s.pos, AtMost(AtLeastOne(n), s.cols - s.x))

(* Insertion and deletion.                                                  *)
Edit(m) == Do([s EXCEPT !.need_wrap = FALSE], m)

vte_ich(n) == Edit(insert_char(s, text, AtMost(AtLeastOne(n), s.cols - s.x)))
vte_dch(n) == Edit(delete_char(s, text, AtMost(AtLeastOne(n), s.cols - s.x)))
vte_il(n) ==
  Edit(scroll_region_down(s, text, s.y, s.bottom, AtMost(AtLeastOne(n), s.rows - s.y)))
vte_dl(n) ==
  Edit(scroll_region_up(s, text, s.y, s.bottom, AtMost(AtLeastOne(n), s.rows - s.y)))

DECSTBM(n, k) ==
  LET t == AtLeastOne(n)
      b == IF k = 0 THEN s.rows ELSE k
  IN /\ t < b
     /\ b <= s.rows
     /\ Do(gotoxay([s EXCEPT !.top = t - 1, !.bottom = b], 0, 0), text)

(* set_mode: origin, autowrap and insert mode.                              *)
set_mode(on) ==
  \/ Do(gotoxay([s EXCEPT !.decom = on], 0, 0), text)
  \/ Do([s EXCEPT !.decawm = on], text)
  \/ Do([s EXCEPT !.irm = on], text)

-----------------------------------------------------------------------------
(***************************************************************************)
(* vc_resize, when the new buffer could be allocated: the rows at the      *)
(* bottom are kept, the region is reset and the cursor is moved inside.    *)
(***************************************************************************)
Resized_text(c, m, size) ==
  LET cols == size[1]
      rows == size[2]
      skip == IF rows < c.rows THEN c.rows - rows ELSE 0
  IN [i \in 0 .. rows * cols - 1 |->
        LET r == i \div cols + skip
            k == i % cols
        IN IF r < c.rows /\ k < c.cols THEN m[r * c.cols + k] ELSE Blank]

vc_resize(size) ==
  /\ size # <<s.cols, s.rows>>
  /\ Do(vte_decsc(gotoxy([s EXCEPT !.cols = size[1], !.rows = size[2],
                                   !.top = 0, !.bottom = size[2]], s.x, s.y)),
        Resized_text(s, text, size))

(***************************************************************************)
(* vt_console_print.  While it runs vc_x stays behind: cnt characters have *)
(* been stored from there on, and myx is the column of the address.        *)
(***************************************************************************)
PrintkStart ==
  /\ loop = Idle
  /\ ~prt.on
  /\ prt' = [on |-> TRUE, cnt |-> 0, myx |-> s.x]
  /\ UNCHANGED <<s, text, loop>>

(* vc_x catches up with what was stored.                                    *)
CaughtUp ==
  [s EXCEPT !.x = s.x + prt.cnt - (IF prt.cnt > 0 /\ s.need_wrap THEN 1 ELSE 0)]

Printed(c, m, cnt, myx) ==
  /\ text' = [m EXCEPT ![c.pos] = Glyph]
  /\ s' = IF myx = c.cols - 1 THEN [c EXCEPT !.need_wrap = TRUE]
                              ELSE [c EXCEPT !.pos = c.pos + 1]
  /\ prt' = [on |-> TRUE, cnt |-> cnt + 1, myx |-> IF myx = c.cols - 1 THEN myx ELSE myx + 1]

PrintkChar ==
  /\ prt.on
  /\ \/ /\ ~s.need_wrap
        /\ Printed(s, text, prt.cnt, prt.myx)
     \/ /\ s.need_wrap
        /\ Printed(vte_cr(vte_lf(CaughtUp)), vte_lf_text(CaughtUp, text), 0, 0)
  /\ UNCHANGED loop

PrintkControl(c) ==
  /\ prt.on
  /\ \/ /\ c = "bs"
        /\ s' = vte_bs(CaughtUp)
        /\ UNCHANGED text
     \/ /\ c = "cr"
        /\ s' = vte_cr(CaughtUp)
        /\ UNCHANGED text
     \/ /\ c = "nl"
        /\ s' = vte_cr(vte_lf(CaughtUp))
        /\ text' = vte_lf_text(CaughtUp, text)
  /\ prt' = [on |-> TRUE, cnt |-> 0, myx |-> s'.x]
  /\ UNCHANGED loop

PrintkEnd ==
  /\ prt.on
  /\ prt' = Silent
  /\ s' = LET x == s.x + prt.cnt
          IN IF prt.cnt > 0 /\ x = s.cols THEN [s EXCEPT !.x = x - 1, !.need_wrap = TRUE]
                                          ELSE [s EXCEPT !.x = x]
  /\ UNCHANGED <<text, loop>>

-----------------------------------------------------------------------------
Control ==
  \/ BS \/ CR \/ LF \/ NEL \/ RI \/ HT \/ HTS
  \/ DECSC \/ DECRC \/ RIS \/ DECALN

Sequence(n) ==
  \/ CUU(n) \/ CUD(n) \/ CUF(n) \/ CUB(n) \/ CNL(n) \/ CPL(n) \/ CHA(n) \/ VPA(n)
  \/ CHT(n) \/ CBT(n) \/ CVT(n) \/ TBC(n)
  \/ vte_ed(n) \/ vte_el(n) \/ vte_ech(n)
  \/ vte_ich(n) \/ vte_dch(n) \/ vte_il(n) \/ vte_dl(n)

Printk == PrintkStart \/ PrintkChar \/ PrintkEnd \/ \E c \in {"bs", "cr", "nl"} : PrintkControl(c)

Next ==
  \/ \E ch \in Cell : do_con_write(ch)
  \/ Control
  \/ \E n \in Params : Sequence(n)
  \/ \E n, k \in Params : CUP(n, k) \/ DECSTBM(n, k) \/ putconsxy(n, k)
  \/ \E on \in BOOLEAN : set_mode(on)
  \/ LoopStep
  \/ \E size \in Sizes : vc_resize(size)
  \/ Printk

Spec == Init /\ [][Next]_vars

-----------------------------------------------------------------------------
(* Properties.                                                              *)

(* Every variable has its type; the buffer has one cell per place.          *)
TypeOK ==
  /\ s \in VcScreen
  /\ text \in [Buffer(s) -> Cell]
  /\ loop \in [body : {"none", "vte_cht", "vte_cbt", "vte_cvt"}, left : Nat]
  /\ prt \in [on : BOOLEAN, cnt : Nat, myx : Nat]

(***************************************************************************)
(* The cursor is on the screen, and the address the next character goes to *)
(* is the one of its coordinates, although both are updated step by step.  *)
(* During a kernel message the address runs ahead by the characters stored.*)
(***************************************************************************)
CursorSound ==
  /\ s.x < s.cols /\ s.y < s.rows
  /\ ~prt.on => s.pos = s.y * s.cols + s.x
  /\ prt.on =>
       /\ s.pos = s.y * s.cols + prt.myx
       /\ prt.myx < s.cols
       /\ prt.myx = s.x + prt.cnt - (IF prt.cnt > 0 /\ s.need_wrap THEN 1 ELSE 0)
       /\ prt.cnt > 0 /\ s.need_wrap => prt.myx = s.cols - 1

(***************************************************************************)
(* The scrolling region lies on the screen and has two lines or is all of  *)
(* it, and in origin mode the cursor never leaves it.                      *)
(***************************************************************************)
RegionSound ==
  /\ s.top < s.bottom /\ s.bottom <= s.rows
  /\ s.bottom - s.top >= 2 \/ (s.top = 0 /\ s.bottom = s.rows)
  /\ s.decom => s.top <= s.y /\ s.y < s.bottom

(***************************************************************************)
(* A step changes no line but the cursor's, before or after it, and those  *)
(* of the scrolling region; inserting and deleting lines, the lines from   *)
(* the cursor to the end of the region, although a cursor above the region *)
(* makes this more than the region.  Erasing, resetting and resizing are   *)
(* the exceptions.                                                         *)
(***************************************************************************)
Line(m, c, r) == [k \in 0 .. c.cols - 1 |-> m[r * c.cols + k]]

KeptBut(rows) ==
  /\ s'.cols = s.cols /\ s'.rows = s.rows
  /\ \A r \in (0 .. s.rows - 1) \ (rows \cup {s.y, s'.y}) : Line(text', s, r) = Line(text, s, r)

ScrollConfined ==
  [][\/ KeptBut(s.top .. s.bottom - 1)
     \/ KeptBut(s.y .. s.bottom - 1) /\ \E n \in Params : vte_il(n) \/ vte_dl(n)
     \/ \E size \in Sizes : vc_resize(size)
     \/ RIS \/ DECALN \/ \E n \in Params : vte_ed(n)]_vars

(***************************************************************************)
(* A pending wrap belongs to a cursor in the last column; only the         *)
(* backward tabulation carries it away from there.                         *)
(***************************************************************************)
WrapFromMargin ==
  [][(s'.need_wrap /\ ~prt'.on /\ s'.x # s'.cols - 1)
     => (s.need_wrap /\ (s.x # s.cols - 1 \/ loop.body = "vte_cbt"))]_vars

=============================================================================
