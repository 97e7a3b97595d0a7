----------------------------- MODULE ScreenProofs ----------------------------
(***************************************************************************)
(* The cursor, the scrolling region and the text of a screen are sound for  *)
(* every set of sizes, every width of an int and every set of parameters.   *)
(*                                                                          *)
(* The argument is about one screen record c at a time: Good(c) holds of a  *)
(* screen between two control functions, every function of the module maps  *)
(* a good screen to a good one, and during a kernel message the screen      *)
(* becomes good as soon as vc_x catches up with the address.                *)
(***************************************************************************)
EXTENDS Screen, TLAPS

(* The fields have their types and the region lies on the screen.           *)
Shape(c) ==
  /\ c \in VcScreen
  /\ c.cols > 0 /\ c.rows > 0
  /\ c.top < c.bottom /\ c.bottom <= c.rows
  /\ c.bottom - c.top >= 2 \/ (c.top = 0 /\ c.bottom = c.rows)

(* The coordinates are on the screen and, in origin mode, in the region.    *)
OnScreen(c) ==
  /\ c.x < c.cols /\ c.y < c.rows
  /\ c.decom => c.top <= c.y /\ c.y < c.bottom

Good(c) == Shape(c) /\ OnScreen(c) /\ c.pos = c.y * c.cols + c.x

(* The locals of vt_console_print, when it runs on the screen c.            *)
Lagging(c, p) ==
  /\ p.cnt \in Nat /\ p.myx \in Nat
  /\ c.pos = c.y * c.cols + p.myx
  /\ p.myx < c.cols
  /\ p.myx = c.x + p.cnt - (IF p.cnt > 0 /\ c.need_wrap THEN 1 ELSE 0)
  /\ p.cnt > 0 /\ c.need_wrap => p.myx = c.cols - 1

(* No control function is in its loop while a kernel message is printed.    *)
Exclusive == prt.on => loop = Idle

(* The inductive invariant, with Exclusive.                                 *)
Inv ==
  /\ Shape(s)
  /\ OnScreen(s)
  /\ ~prt.on => Good(s)
  /\ prt.on => Lagging(s, prt)

-----------------------------------------------------------------------------
(* The conversion of an unsigned to a signed int is an integer.             *)
LEMMA ToIntIsInt == ASSUME NEW v \in Int PROVE ToInt(v) \in Int
  BY WordAssumption DEF ToInt

(* One line further on the screen is one row's cells further in the buffer. *)
LEMMA NextRow ==
  ASSUME NEW y \in Int, NEW n \in Int
  PROVE  (y + 1) * n = y * n + n /\ (y - 1) * n = y * n - n
  OBVIOUS

(* An address on the screen is a natural number.                            *)
LEMMA ProductIsNat == ASSUME NEW y \in Nat, NEW n \in Nat PROVE y * n \in Nat
  OBVIOUS

(* What Shape says of the fields, one by one.                               *)
LEMMA Fields ==
  ASSUME NEW c, Shape(c)
  PROVE  /\ c.cols \in Nat /\ c.rows \in Nat /\ c.cols > 0 /\ c.rows > 0
         /\ c.x \in Nat /\ c.y \in Nat /\ c.pos \in Nat
         /\ c.top \in Nat /\ c.bottom \in Nat
         /\ c.top < c.bottom /\ c.bottom <= c.rows
         /\ c.decom \in BOOLEAN /\ c.need_wrap \in BOOLEAN
         /\ c.saved_x \in Nat /\ c.saved_y \in Nat
  BY DEF Shape, VcScreen

(* Moving the cursor to a place on the screen and in the region, with the   *)
(* address of that place, leaves a good screen.                             *)
LEMMA MoveGood ==
  ASSUME NEW c, Shape(c), NEW x \in Nat, NEW y \in Nat, NEW p \in Nat, NEW w \in BOOLEAN,
         x < c.cols, y < c.rows, c.decom => c.top <= y /\ y < c.bottom,
         p = y * c.cols + x
  PROVE  Good([c EXCEPT !.x = x, !.y = y, !.pos = p, !.need_wrap = w])
<1> DEFINE d == [c EXCEPT !.x = x, !.y = y, !.pos = p, !.need_wrap = w]
<1>1. d \in VcScreen
  BY DEF Shape, VcScreen
<1>2. /\ d.x = x /\ d.y = y /\ d.pos = p
      /\ d.cols = c.cols /\ d.rows = c.rows /\ d.top = c.top /\ d.bottom = c.bottom
      /\ d.decom = c.decom
  BY DEF Shape, VcScreen
<1> HIDE DEF d
<1>3. Shape(d)
  BY <1>1, <1>2 DEF Shape
<1>4. OnScreen(d)
  BY <1>2 DEF OnScreen
<1> QED BY <1>2, <1>3, <1>4 DEF Good, d

(* gotoxy places the cursor on the screen whatever it is asked for.         *)
LEMMA GotoxyGood ==
  ASSUME NEW c, Shape(c), NEW new_x \in Int, NEW new_y \in Int
  PROVE  Good(gotoxy(c, new_x, new_y))
<1> DEFINE cx == Clamp(new_x, 0, c.cols - 1)
           cy == IF c.decom THEN Clamp(new_y, c.top, c.bottom - 1)
                            ELSE Clamp(new_y, 0, c.rows - 1)
<1>0. /\ c.cols \in Nat /\ c.rows \in Nat /\ c.cols > 0 /\ c.rows > 0
      /\ c.top \in Nat /\ c.bottom \in Nat /\ c.top < c.bottom /\ c.bottom <= c.rows
  BY Fields
<1>1. cx \in 0 .. c.cols - 1
  BY <1>0 DEF Clamp
<1>2. c.decom => cy \in c.top .. c.bottom - 1
  BY <1>0 DEF Clamp
<1>3. ~c.decom => cy \in 0 .. c.rows - 1
  BY <1>0 DEF Clamp
<1> HIDE DEF cx, cy
<1>4. /\ cx \in Nat /\ cy \in Nat /\ cx < c.cols /\ cy < c.rows
      /\ c.decom => c.top <= cy /\ cy < c.bottom
  BY <1>0, <1>1, <1>2, <1>3
<1>5. cy * c.cols + cx \in Nat
  BY <1>0, <1>4, ProductIsNat
<1>6. Good([c EXCEPT !.x = cx, !.y = cy, !.pos = cy * c.cols + cx, !.need_wrap = FALSE])
  BY <1>4, <1>5, MoveGood
<1> QED BY <1>6 DEF gotoxy, cx, cy

(* So does gotoxay, with the sum reduced to an int.                         *)
LEMMA GotoxayGood ==
  ASSUME NEW c, Shape(c), NEW new_x \in Int, NEW new_y \in Int
  PROVE  Good(gotoxay(c, new_x, new_y))
<1>1. ToInt(new_x) \in Int
  BY ToIntIsInt
<1>2. (IF c.decom THEN c.top + new_y ELSE new_y) \in Int
  BY DEF Shape, VcScreen
<1>3. ToInt(IF c.decom THEN c.top + new_y ELSE new_y) \in Int
  BY <1>2, ToIntIsInt
<1> QED BY <1>1, <1>3, GotoxyGood DEF gotoxay

(* The functions that move the cursor step by step keep a screen good: each *)
(* is a move to the place its address belongs to.                           *)
LEMMA GoodFields ==
  ASSUME NEW c, Good(c)
  PROVE  /\ c.cols \in Nat /\ c.rows \in Nat /\ c.cols > 0 /\ c.rows > 0
         /\ c.x \in Nat /\ c.y \in Nat /\ c.pos \in Nat
         /\ c.top \in Nat /\ c.bottom \in Nat
         /\ c.top < c.bottom /\ c.bottom <= c.rows
         /\ c.x < c.cols /\ c.y < c.rows
         /\ c.decom => c.top <= c.y /\ c.y < c.bottom
         /\ c.pos = c.y * c.cols + c.x
         /\ c.y * c.cols \in Nat
         /\ c.need_wrap \in BOOLEAN /\ c.decawm \in BOOLEAN
  BY ProductIsNat DEF Good, Shape, OnScreen, VcScreen

(* A record with some fields assigned their old values is the same record.  *)
LEMMA Reassign ==
  ASSUME NEW c \in VcScreen, NEW x, NEW p, NEW w, NEW y
  PROVE  /\ [c EXCEPT !.x = x, !.pos = p, !.need_wrap = w]
              = [c EXCEPT !.x = x, !.y = c.y, !.pos = p, !.need_wrap = w]
         /\ [c EXCEPT !.pos = p, !.x = x, !.need_wrap = w]
              = [c EXCEPT !.x = x, !.y = c.y, !.pos = p, !.need_wrap = w]
         /\ [c EXCEPT !.pos = p, !.x = x]
              = [c EXCEPT !.x = x, !.y = c.y, !.pos = p, !.need_wrap = c.need_wrap]
         /\ [c EXCEPT !.x = x, !.pos = p]
              = [c EXCEPT !.x = x, !.y = c.y, !.pos = p, !.need_wrap = c.need_wrap]
         /\ [c EXCEPT !.need_wrap = w]
              = [c EXCEPT !.x = c.x, !.y = c.y, !.pos = c.pos, !.need_wrap = w]
         /\ [c EXCEPT !.y = y, !.pos = p, !.need_wrap = w]
              = [c EXCEPT !.x = c.x, !.y = y, !.pos = p, !.need_wrap = w]
  BY DEF VcScreen

(* The pending wrap alone.                                                  *)
LEMMA WrapGood ==
  ASSUME NEW c, Good(c), NEW w \in BOOLEAN PROVE Good([c EXCEPT !.need_wrap = w])
<1>1. [c EXCEPT !.need_wrap = w]
        = [c EXCEPT !.x = c.x, !.y = c.y, !.pos = c.pos, !.need_wrap = w]
  BY Reassign, Zenon DEF Good, Shape
<1>2. /\ Shape(c) /\ c.x \in Nat /\ c.y \in Nat /\ c.pos \in Nat
      /\ c.x < c.cols /\ c.y < c.rows /\ (c.decom => c.top <= c.y /\ c.y < c.bottom)
      /\ c.pos = c.y * c.cols + c.x
  BY GoodFields DEF Good
<1>3. Good([c EXCEPT !.x = c.x, !.y = c.y, !.pos = c.pos, !.need_wrap = w])
  BY <1>2, MoveGood
<1> QED BY <1>1, <1>3

(* Inside the line, to column j.                                            *)
LEMMA ColumnGood ==
  ASSUME NEW c, Good(c), NEW j, j \in 0 .. c.cols - 1, NEW w \in BOOLEAN,
         NEW p, p = c.pos - c.x + j
  PROVE  Good([c EXCEPT !.x = j, !.y = c.y, !.pos = p, !.need_wrap = w])
<1>1. /\ Shape(c) /\ c.y \in Nat /\ c.y < c.rows
      /\ (c.decom => c.top <= c.y /\ c.y < c.bottom)
      /\ c.pos = c.y * c.cols + c.x /\ c.y * c.cols \in Nat
      /\ c.cols \in Nat /\ c.x \in Nat
  BY GoodFields DEF Good
<1>2. /\ j \in Nat /\ j < c.cols
      /\ p = c.y * c.cols + j /\ p \in Nat
  BY <1>1
<1> QED BY <1>1, <1>2, MoveGood

(* A tabulation to column j keeps the screen good.                          *)
LEMMA TabToGood ==
  ASSUME NEW c, Good(c), NEW j \in 0 .. c.cols - 1 PROVE Good(TabTo(c, j))
<1>1. c.need_wrap \in BOOLEAN /\ c \in VcScreen
  BY GoodFields DEF Good, Shape
<1>2. TabTo(c, j) = [c EXCEPT !.x = j, !.y = c.y, !.pos = c.pos - c.x + j,
                              !.need_wrap = c.need_wrap]
  BY <1>1, Reassign, Zenon DEF TabTo
<1>3. Good([c EXCEPT !.x = j, !.y = c.y, !.pos = c.pos - c.x + j, !.need_wrap = c.need_wrap])
  BY <1>1, ColumnGood
<1> QED BY <1>2, <1>3

(* vte_cr keeps the screen good and ends in column 0.                       *)
LEMMA CrGood == ASSUME NEW c, Good(c) PROVE Good(vte_cr(c)) /\ vte_cr(c).x = 0
<1>1. c \in VcScreen /\ c.pos \in Nat /\ c.x \in Nat /\ 0 \in 0 .. c.cols - 1
  BY GoodFields DEF Good, Shape
<1>2. vte_cr(c) = [c EXCEPT !.x = 0, !.y = c.y, !.pos = c.pos - c.x, !.need_wrap = FALSE]
  BY <1>1, Reassign, Zenon DEF vte_cr
<1>3. c.pos - c.x = c.pos - c.x + 0
  BY <1>1
<1>4. Good([c EXCEPT !.x = 0, !.y = c.y, !.pos = c.pos - c.x, !.need_wrap = FALSE])
  BY <1>1, <1>3, ColumnGood
<1>5. vte_cr(c).x = 0
  BY <1>1 DEF vte_cr, VcScreen
<1> QED BY <1>2, <1>4, <1>5

(* vte_bs keeps the screen good: the first column stops it.                 *)
LEMMA BsGood == ASSUME NEW c, Good(c) PROVE Good(vte_bs(c))
<1>1. c \in VcScreen /\ c.pos \in Nat /\ c.x \in Nat /\ c.x < c.cols /\ c.cols \in Nat
  BY GoodFields DEF Good, Shape
<1>2. CASE c.x = 0
  BY <1>2 DEF vte_bs
<1>3. CASE c.x # 0
  <2>1. vte_bs(c) = [c EXCEPT !.x = c.x - 1, !.y = c.y, !.pos = c.pos - 1, !.need_wrap = FALSE]
    BY <1>1, <1>3, Reassign, Zenon DEF vte_bs
  <2>2. c.x - 1 \in 0 .. c.cols - 1 /\ c.pos - 1 = c.pos - c.x + (c.x - 1)
    BY <1>1, <1>3
  <2>3. Good([c EXCEPT !.x = c.x - 1, !.y = c.y, !.pos = c.pos - 1, !.need_wrap = FALSE])
    BY <2>2, ColumnGood
  <2> QED BY <2>1, <2>3
<1> QED BY <1>2, <1>3

(* A stored character moves the cursor on, or leaves a wrap pending.        *)
LEMMA AdvanceGood == ASSUME NEW c, Good(c) PROVE Good(Advance(c))
<1>1. /\ c \in VcScreen /\ c.pos \in Nat /\ c.x \in Nat /\ c.x < c.cols /\ c.cols \in Nat
      /\ c.decawm \in BOOLEAN /\ c.need_wrap \in BOOLEAN
  BY GoodFields DEF Good, Shape
<1>2. CASE c.x = c.cols - 1
  BY <1>1, <1>2, WrapGood DEF Advance
<1>3. CASE c.x # c.cols - 1
  <2>1. Advance(c) = [c EXCEPT !.x = c.x + 1, !.y = c.y, !.pos = c.pos + 1,
                               !.need_wrap = c.need_wrap]
    BY <1>1, <1>3, Reassign, Zenon DEF Advance
  <2>2. c.x + 1 \in 0 .. c.cols - 1 /\ c.pos + 1 = c.pos - c.x + (c.x + 1)
    BY <1>1, <1>3
  <2>3. Good([c EXCEPT !.x = c.x + 1, !.y = c.y, !.pos = c.pos + 1, !.need_wrap = c.need_wrap])
    BY <1>1, <2>2, ColumnGood
  <2> QED BY <2>1, <2>3
<1> QED BY <1>2, <1>3

(* vte_lf stays on the screen: at its end and the region's it scrolls.      *)
LEMMA LfGood == ASSUME NEW c, Good(c) PROVE Good(vte_lf(c))
<1>1. CASE Scrolls(c) \/ c.y >= c.rows - 1
  BY <1>1, WrapGood DEF vte_lf
<1>2. CASE ~(Scrolls(c) \/ c.y >= c.rows - 1)
  <2>1. /\ Shape(c) /\ c.y \in Nat /\ c.y < c.rows /\ c.rows \in Nat /\ c.bottom \in Nat
        /\ (c.decom => c.top <= c.y /\ c.y < c.bottom) /\ c.top \in Nat
        /\ c.pos = c.y * c.cols + c.x /\ c.y * c.cols \in Nat
        /\ c.cols \in Nat /\ c.x \in Nat /\ c.x < c.cols
    BY GoodFields DEF Good
  <2>2. c.y + 1 \in Nat /\ c.y + 1 < c.rows /\ (c.decom => c.top <= c.y + 1 /\ c.y + 1 < c.bottom)
    BY <1>2, <2>1 DEF Scrolls
  <2>3. (c.y + 1) * c.cols = c.y * c.cols + c.cols
    BY <2>1, NextRow
  <2>4. c.pos + c.cols = (c.y + 1) * c.cols + c.x /\ c.pos + c.cols \in Nat
    BY <2>1, <2>3
  <2>5. Good([c EXCEPT !.x = c.x, !.y = c.y + 1, !.pos = c.pos + c.cols, !.need_wrap = FALSE])
    BY <2>1, <2>2, <2>4, MoveGood
  <2>6. vte_lf(c) = [c EXCEPT !.y = c.y + 1, !.pos = c.pos + c.cols, !.need_wrap = FALSE]
    BY <1>2 DEF vte_lf
  <2>7. c \in VcScreen
    BY <2>1 DEF Shape
  <2>8. [c EXCEPT !.y = c.y + 1, !.pos = c.pos + c.cols, !.need_wrap = FALSE]
          = [c EXCEPT !.x = c.x, !.y = c.y + 1, !.pos = c.pos + c.cols, !.need_wrap = FALSE]
    BY <2>7, Reassign, Zenon
  <2> QED BY <2>5, <2>6, <2>8, Zenon
<1> QED BY <1>1, <1>2

(* vte_ri likewise, at the first line.                                      *)
LEMMA RiGood == ASSUME NEW c, Good(c) PROVE Good(vte_ri(c))
<1>1. CASE c.y = c.top \/ c.y = 0
  BY <1>1, WrapGood DEF vte_ri
<1>2. CASE ~(c.y = c.top \/ c.y = 0)
  <2>1. /\ Shape(c) /\ c.y \in Nat /\ c.y < c.rows /\ c.rows \in Nat /\ c.bottom \in Nat
        /\ (c.decom => c.top <= c.y /\ c.y < c.bottom) /\ c.top \in Nat
        /\ c.pos = c.y * c.cols + c.x
        /\ c.cols \in Nat /\ c.x \in Nat /\ c.x < c.cols
    BY GoodFields DEF Good
  <2>2. c.y - 1 \in Nat /\ c.y - 1 < c.rows /\ (c.decom => c.top <= c.y - 1 /\ c.y - 1 < c.bottom)
    BY <1>2, <2>1
  <2>3. (c.y - 1) * c.cols = c.y * c.cols - c.cols /\ (c.y - 1) * c.cols \in Nat
    BY <2>1, <2>2, NextRow, ProductIsNat
  <2>4. c.pos - c.cols = (c.y - 1) * c.cols + c.x /\ c.pos - c.cols \in Nat
    BY <2>1, <2>3
  <2>5. Good([c EXCEPT !.x = c.x, !.y = c.y - 1, !.pos = c.pos - c.cols, !.need_wrap = FALSE])
    BY <2>1, <2>2, <2>4, MoveGood
  <2>6. vte_ri(c) = [c EXCEPT !.y = c.y - 1, !.pos = c.pos - c.cols, !.need_wrap = FALSE]
    BY <1>2 DEF vte_ri
  <2>7. c \in VcScreen
    BY <2>1 DEF Shape
  <2>8. [c EXCEPT !.y = c.y - 1, !.pos = c.pos - c.cols, !.need_wrap = FALSE]
          = [c EXCEPT !.x = c.x, !.y = c.y - 1, !.pos = c.pos - c.cols, !.need_wrap = FALSE]
    BY <2>7, Reassign, Zenon
  <2> QED BY <2>5, <2>6, <2>8, Zenon
<1> QED BY <1>1, <1>2

(* Assignments that do not concern the cursor or the region.                *)
LEMMA DecscGood == ASSUME NEW c, Good(c) PROVE Good(vte_decsc(c))
  BY GoodFields DEF Good, Shape, OnScreen, VcScreen, vte_decsc

(* Modes and tab stops leave a good screen good.                            *)
LEMMA FlagsGood ==
  ASSUME NEW c, Good(c), NEW on \in BOOLEAN, NEW tabs \in SUBSET Nat
  PROVE  /\ Good([c EXCEPT !.decawm = on])
         /\ Good([c EXCEPT !.irm = on])
         /\ Good([c EXCEPT !.tab_stop = tabs])
  BY DEF Good, Shape, OnScreen, VcScreen

(* Assignments that come before a move of the cursor.                       *)
LEMMA RegionShape ==
  ASSUME NEW c, Shape(c), NEW t \in Nat, NEW b \in Nat, t + 1 < b, b <= c.rows
  PROVE  Shape([c EXCEPT !.top = t, !.bottom = b])
<1> DEFINE d == [c EXCEPT !.top = t, !.bottom = b]
<1>1. d \in VcScreen
  BY DEF Shape, VcScreen
<1>2. d.top = t /\ d.bottom = b /\ d.cols = c.cols /\ d.rows = c.rows
  BY DEF Shape, VcScreen
<1> HIDE DEF d
<1>3. d.bottom - d.top >= 2
  BY <1>2
<1>4. Shape(d)
  BY <1>1, <1>2, <1>3 DEF Shape
<1> QED BY <1>4 DEF d

(* Switching the origin mode, before the cursor is moved.                   *)
LEMMA OriginShape ==
  ASSUME NEW c, Shape(c), NEW on \in BOOLEAN PROVE Shape([c EXCEPT !.decom = on])
  BY DEF Shape, VcScreen

(* vc_resize's new size and region, before the cursor is moved.             *)
LEMMA ResizeShape ==
  ASSUME NEW c, Shape(c), NEW cols \in Nat, NEW rows \in Nat, cols > 0, rows > 0
  PROVE  Shape([c EXCEPT !.cols = cols, !.rows = rows, !.top = 0, !.bottom = rows])
<1> DEFINE d == [c EXCEPT !.cols = cols, !.rows = rows, !.top = 0, !.bottom = rows]
<1>1. d \in VcScreen
  BY DEF Shape, VcScreen
<1>2. d.top = 0 /\ d.bottom = rows /\ d.cols = cols /\ d.rows = rows
  BY DEF Shape, VcScreen
<1> HIDE DEF d
<1>3. Shape(d)
  BY <1>1, <1>2 DEF Shape
<1> QED BY <1>3 DEF d

(* The tab stops stay a set of columns.                                     *)
LEMMA TabsType ==
  ASSUME NEW c, Shape(c)
  PROVE  DefaultTabs \cup BeyondReset(c) \in SUBSET Nat /\ BeyondReset(c) \in SUBSET Nat
<1>1. c.tab_stop \in SUBSET Nat
  BY DEF Shape, VcScreen
<1>2. DefaultTabs \in SUBSET Nat
  BY TabAssumption DEF DefaultTabs, TabWordsReset
<1> QED BY <1>1, <1>2 DEF BeyondReset

(* vte_ris leaves a good screen.                                            *)
LEMMA RisGood == ASSUME NEW c, Shape(c) PROVE Good(vte_ris(c))
<1> DEFINE tabs == DefaultTabs \cup BeyondReset(c)
           d == [c EXCEPT !.top = 0, !.bottom = c.rows, !.need_wrap = FALSE,
                          !.decom = FALSE, !.decawm = TRUE, !.irm = FALSE, !.tab_stop = tabs]
<1>1. tabs \in SUBSET Nat
  BY TabsType
<1> HIDE DEF tabs
<1>2. d \in VcScreen
  BY <1>1 DEF Shape, VcScreen
<1>3. d.top = 0 /\ d.bottom = c.rows /\ d.cols = c.cols /\ d.rows = c.rows
  BY DEF Shape, VcScreen
<1> HIDE DEF d
<1>4. Shape(d)
  BY <1>2, <1>3, Fields DEF Shape
<1>5. Good(gotoxy(d, 0, 0))
  BY <1>4, GotoxyGood
<1>6. Good(vte_decsc(gotoxy(d, 0, 0)))
  BY <1>5, DecscGood
<1> QED BY <1>6 DEF vte_ris, d, tabs

-----------------------------------------------------------------------------
(* A step outside kernel messages that leaves a good screen.                *)
LEMMA QuietStep == ASSUME ~prt.on, prt' = prt, Good(s') PROVE Inv'
  BY DEF Inv, Good

(* What every control function may assume.                                  *)
LEMMA QuietState ==
  ASSUME Inv, ~prt.on
  PROVE  Good(s) /\ Shape(s) /\ s.x \in Nat /\ s.y \in Nat /\ s.cols \in Nat
           /\ s.rows \in Nat /\ s.saved_x \in Nat /\ s.saved_y \in Nat
           /\ s.tab_stop \in SUBSET Nat
  BY Fields DEF Inv, Good, Shape, VcScreen

(* Parameters are natural numbers.                                          *)
LEMMA ParamNat == ASSUME NEW n \in Params PROVE n \in Nat /\ AtLeastOne(n) \in Nat /\ AtLeastOne(n) > 0
  BY WordAssumption DEF AtLeastOne

(* When vc_x catches up with the address the screen is good.                *)
LEMMA CaughtUpGood ==
  ASSUME Inv, prt.on PROVE Good(CaughtUp) /\ CaughtUp.x = prt.myx
<1> DEFINE back == IF prt.cnt > 0 /\ s.need_wrap THEN 1 ELSE 0
<1>1. /\ Shape(s) /\ s \in VcScreen /\ s.y \in Nat /\ s.pos \in Nat /\ s.need_wrap \in BOOLEAN
      /\ prt.myx \in Nat /\ prt.myx < s.cols /\ s.y < s.rows
      /\ (s.decom => s.top <= s.y /\ s.y < s.bottom)
      /\ s.pos = s.y * s.cols + prt.myx
  BY Fields DEF Inv, Lagging, OnScreen, Shape
<1>2. prt.myx = s.x + prt.cnt - back
  BY DEF Inv, Lagging
<1>3. CaughtUp = [s EXCEPT !.x = prt.myx]
  BY <1>2 DEF CaughtUp
<1>4. [s EXCEPT !.x = prt.myx] = [s EXCEPT !.x = prt.myx, !.y = s.y, !.pos = s.pos,
                                           !.need_wrap = s.need_wrap]
  BY <1>1 DEF VcScreen
<1>5. Good([s EXCEPT !.x = prt.myx, !.y = s.y, !.pos = s.pos, !.need_wrap = s.need_wrap])
  BY <1>1, MoveGood
<1>6. [s EXCEPT !.x = prt.myx].x = prt.myx
  BY <1>1 DEF VcScreen
<1> QED BY <1>3, <1>4, <1>5, <1>6

(* One character of a kernel message.                                       *)
LEMMA PrintedInv ==
  ASSUME NEW c, NEW m, NEW cnt \in Nat, NEW myx \in Nat,
         Shape(c), OnScreen(c), ~c.need_wrap,
         c.pos = c.y * c.cols + myx, myx < c.cols, myx = c.x + cnt,
         Printed(c, m, cnt, myx)
  PROVE  Inv'
<1>1. /\ c \in VcScreen /\ c.cols \in Nat /\ c.x \in Nat /\ c.y \in Nat /\ c.pos \in Nat
      /\ c.y * c.cols \in Nat
  BY Fields, ProductIsNat DEF Shape
<1>2. CASE myx = c.cols - 1
  <2>1. s' = [c EXCEPT !.need_wrap = TRUE] /\ prt' = [on |-> TRUE, cnt |-> cnt + 1, myx |-> myx]
    BY <1>2 DEF Printed
  <2>2. /\ s' \in VcScreen /\ s'.need_wrap = TRUE /\ s'.x = c.x /\ s'.y = c.y /\ s'.pos = c.pos
        /\ s'.cols = c.cols /\ s'.rows = c.rows /\ s'.top = c.top /\ s'.bottom = c.bottom
        /\ s'.decom = c.decom
    BY <1>1, <2>1 DEF VcScreen
  <2>3. Shape(s') /\ OnScreen(s')
    BY <2>2 DEF Shape, OnScreen
  <2>4. Lagging(s', prt') /\ prt'.on
    BY <1>1, <1>2, <2>1, <2>2 DEF Lagging
  <2> QED BY <2>3, <2>4 DEF Inv
<1>3. CASE myx # c.cols - 1
  <2>1. /\ s' = [c EXCEPT !.pos = c.pos + 1]
        /\ prt' = [on |-> TRUE, cnt |-> cnt + 1, myx |-> myx + 1]
    BY <1>3 DEF Printed
  <2>2. /\ s' \in VcScreen /\ s'.need_wrap = c.need_wrap /\ s'.x = c.x /\ s'.y = c.y
        /\ s'.pos = c.pos + 1
        /\ s'.cols = c.cols /\ s'.rows = c.rows /\ s'.top = c.top /\ s'.bottom = c.bottom
        /\ s'.decom = c.decom
    BY <1>1, <2>1 DEF VcScreen
  <2>3. Shape(s') /\ OnScreen(s')
    BY <2>2 DEF Shape, OnScreen
  <2>4. prt'.on /\ prt'.cnt = cnt + 1 /\ prt'.myx = myx + 1
    BY <2>1
  <2>5. /\ c.pos + 1 = c.y * c.cols + (myx + 1)
        /\ myx + 1 < c.cols
        /\ myx + 1 = c.x + (cnt + 1) - 0
    BY <1>1, <1>3
  <2>6. Lagging(s', prt')
    BY <2>2, <2>4, <2>5 DEF Lagging
  <2> QED BY <2>3, <2>4, <2>6 DEF Inv
<1> QED BY <1>2, <1>3

-----------------------------------------------------------------------------
(* A new console is good.                                                   *)
LEMMA InitInv == Init => Inv
<1> SUFFICES ASSUME Init PROVE Inv
  OBVIOUS
<1>1. PICK size \in Sizes : s = Fresh(size)
  BY DEF Init
<1>2. size[1] \in Nat /\ size[1] > 0 /\ size[2] \in Nat /\ size[2] > 0
  BY SizesAssumption, TabAssumption DEF TabWords
<1>3. DefaultTabs \in SUBSET Nat
  BY TabAssumption DEF DefaultTabs, TabWordsReset
<1>4. s \in VcScreen
  BY <1>1, <1>2, <1>3 DEF Fresh, VcScreen
<1>5. /\ s.cols = size[1] /\ s.rows = size[2] /\ s.x = 0 /\ s.y = 0 /\ s.pos = 0
      /\ s.top = 0 /\ s.bottom = size[2] /\ s.decom = FALSE
  BY <1>1 DEF Fresh
<1>6. Shape(s) /\ OnScreen(s)
  BY <1>2, <1>4, <1>5 DEF Shape, OnScreen
<1>7. s.pos = s.y * s.cols + s.x
  BY <1>2, <1>5
<1>8. ~prt.on
  BY DEF Init, Silent
<1> QED BY <1>6, <1>7, <1>8 DEF Inv, Good

(* Characters and control characters.                                       *)
LEMMA WriteInv == ASSUME Inv, NEW ch \in Cell, do_con_write(ch) PROVE Inv'
<1>1. ~prt.on /\ prt' = prt /\ s' = Advance(Wrapped(s))
  BY DEF do_con_write, Do
<1>2. Good(Wrapped(s))
  BY <1>1, QuietState, CrGood, LfGood DEF Wrapped
<1> QED BY <1>1, <1>2, AdvanceGood, QuietStep

(* Control characters and escape sequences without parameters.              *)
LEMMA ControlInv == ASSUME Inv, Control PROVE Inv'
<1>0. ~prt.on /\ prt' = prt
  BY DEF Control, BS, CR, LF, NEL, RI, HT, HTS, DECSC, DECRC, RIS, DECALN, Do
<1>1. Good(s) /\ Shape(s) /\ s.x \in Nat /\ s.saved_x \in Nat /\ s.saved_y \in Nat
      /\ s.tab_stop \in SUBSET Nat
  BY <1>0, QuietState
<1> USE QuietStep
<1>2. CASE BS
  BY <1>0, <1>1, <1>2, BsGood DEF BS, Do
<1>3. CASE CR
  BY <1>0, <1>1, <1>3, CrGood DEF CR, Do
<1>4. CASE LF
  BY <1>0, <1>1, <1>4, LfGood DEF LF, Do
<1>5. CASE NEL
  BY <1>0, <1>1, <1>5, CrGood, LfGood DEF NEL, Do
<1>6. CASE RI
  BY <1>0, <1>1, <1>6, RiGood DEF RI, Do
<1>7. CASE HT
  BY <1>0, <1>1, <1>7, TabToGood DEF HT, Do
<1>8. CASE HTS
  <2>1. s.tab_stop \cup {s.x} \in SUBSET Nat
    BY <1>1
  <2>2. s' = [s EXCEPT !.tab_stop = s.tab_stop \cup {s.x}]
    BY <1>8 DEF HTS, Do
  <2> QED BY <1>0, <1>1, <2>1, <2>2, FlagsGood
<1>9. CASE DECSC
  BY <1>0, <1>1, <1>9, DecscGood DEF DECSC, Do
<1>10. CASE DECRC
  <2>1. s.saved_x \in Int /\ s.saved_y \in Int
    BY <1>1
  <2> QED BY <1>0, <1>1, <1>10, <2>1, GotoxyGood DEF DECRC, vte_decrc, Do
<1>11. CASE RIS
  BY <1>0, <1>1, <1>11, RisGood DEF RIS, Do
<1>12. CASE DECALN
  BY <1>0, <1>1, <1>12, WrapGood DEF DECALN, Do
<1> QED BY <1>2, <1>3, <1>4, <1>5, <1>6, <1>7, <1>8, <1>9, <1>10, <1>11, <1>12 DEF Control

(* Cursor movements with one parameter, which may be negative as an int.    *)
LEMMA MoveInv ==
  ASSUME Inv, NEW n \in Params,
         CUU(n) \/ CUD(n) \/ CUF(n) \/ CUB(n) \/ CNL(n) \/ CPL(n) \/ CHA(n) \/ VPA(n)
  PROVE  Inv'
<1>0. ~prt.on /\ prt' = prt
  BY DEF CUU, CUD, CUF, CUB, CNL, CPL, CHA, VPA, Do
<1>1. Shape(s) /\ s.x \in Int /\ s.y \in Int
  BY <1>0, QuietState
<1> DEFINE k == AtLeastOne(n)
<1>2. k \in Int
  BY ParamNat
<1> HIDE DEF k
<1>3. /\ ToInt(s.y - k) \in Int /\ ToInt(s.y + k) \in Int
      /\ ToInt(s.x - k) \in Int /\ ToInt(s.x + k) \in Int /\ ToInt(k - 1) \in Int
      /\ k - 1 \in Int
  <2>1. /\ s.y - k \in Int /\ s.y + k \in Int /\ s.x - k \in Int /\ s.x + k \in Int
        /\ k - 1 \in Int
    BY <1>1, <1>2
  <2> QED BY <2>1, ToIntIsInt
<1>4. \/ \E a, b \in Int : s' = gotoxy(s, a, b)
      \/ \E a, b \in Int : s' = gotoxay(s, a, b)
  <2>1. CASE CUU(n) \/ CUD(n) \/ CUF(n) \/ CUB(n)
    BY <1>1, <1>3, <2>1 DEF CUU, CUD, CUF, CUB, Do, k
  <2>2. CASE CNL(n) \/ CPL(n)
    <3>1. 0 \in Int
      OBVIOUS
    <3> QED BY <1>1, <1>3, <2>2, <3>1 DEF CNL, CPL, Do, k
  <2>3. CASE CHA(n)
    BY <1>1, <1>3, <2>3 DEF CHA, Do, k
  <2>4. CASE VPA(n)
    BY <1>1, <1>3, <2>4 DEF VPA, Do, k
  <2> QED BY <2>1, <2>2, <2>3, <2>4
<1>5. Good(s')
  BY <1>1, <1>4, GotoxyGood, GotoxayGood
<1> QED BY <1>0, <1>5, QuietStep

(* All control sequences with one parameter.                                *)
LEMMA SequenceInv == ASSUME Inv, NEW n \in Params, Sequence(n) PROVE Inv'
<1>0. ~prt.on /\ prt' = prt
  BY DEF Sequence, CUU, CUD, CUF, CUB, CNL, CPL, CHA, VPA, CHT, CBT, CVT, TBC, vte_ed, vte_el,
         vte_ech, vte_ich, vte_dch, vte_il, vte_dl, Erase, Edit, Do, Start
<1>1. Good(s) /\ Shape(s) /\ s.tab_stop \in SUBSET Nat
  BY <1>0, QuietState
<1>2. CASE CUU(n) \/ CUD(n) \/ CUF(n) \/ CUB(n) \/ CNL(n) \/ CPL(n) \/ CHA(n) \/ VPA(n)
  BY <1>2, MoveInv
<1>3. CASE CHT(n) \/ CBT(n) \/ CVT(n)
  BY <1>0, <1>1, <1>3, QuietStep DEF CHT, CBT, CVT, Start
<1>4. CASE TBC(n)
  <2> DEFINE tabs == IF n = 0 THEN s.tab_stop \ {s.x}
                     ELSE IF n \in {2, 3, 5} THEN BeyondReset(s) ELSE s.tab_stop
  <2>1. tabs \in SUBSET Nat
    BY <1>1, TabsType
  <2>2. s' = [s EXCEPT !.tab_stop = tabs]
    BY <1>4 DEF TBC, Do
  <2> HIDE DEF tabs
  <2> QED BY <1>0, <1>1, <2>1, <2>2, FlagsGood, QuietStep
<1>5. CASE vte_ed(n) \/ vte_el(n) \/ vte_ech(n) \/ vte_ich(n) \/ vte_dch(n) \/ vte_il(n) \/ vte_dl(n)
  <2>1. s' = [s EXCEPT !.need_wrap = FALSE]
    BY <1>5 DEF vte_ed, vte_el, vte_ech, vte_ich, vte_dch, vte_il, vte_dl, Erase, Edit, Do
  <2> QED BY <1>0, <1>1, <2>1, WrapGood, QuietStep
<1> QED BY <1>2, <1>3, <1>4, <1>5 DEF Sequence

(* Control sequences with two parameters, and the header of /dev/vcsa.      *)
LEMMA PairInv ==
  ASSUME Inv, NEW n \in Params, NEW k \in Params, CUP(n, k) \/ DECSTBM(n, k) \/ putconsxy(n, k)
  PROVE  Inv'
<1>0. ~prt.on /\ prt' = prt
  BY DEF CUP, DECSTBM, putconsxy, Do
<1>1. Shape(s) /\ s.rows \in Nat
  BY <1>0, QuietState
<1>2. /\ AtLeastOne(n) \in Nat /\ AtLeastOne(n) > 0
      /\ AtLeastOne(k) \in Nat /\ AtLeastOne(k) > 0
      /\ n \in Nat /\ k \in Nat
  BY ParamNat
<1>3. CASE CUP(n, k)
  <2>1. AtLeastOne(k) - 1 \in Int /\ AtLeastOne(n) - 1 \in Int
    BY <1>2
  <2>2. s' = gotoxay(s, AtLeastOne(k) - 1, AtLeastOne(n) - 1)
    BY <1>3 DEF CUP, Do
  <2>3. Good(gotoxay(s, AtLeastOne(k) - 1, AtLeastOne(n) - 1))
    BY <1>1, <2>1, GotoxayGood
  <2> QED BY <1>0, <2>2, <2>3, QuietStep
<1>4. CASE DECSTBM(n, k)
  <2> DEFINE t == AtLeastOne(n) - 1
             b == IF k = 0 THEN s.rows ELSE k
             c == [s EXCEPT !.top = t, !.bottom = b]
  <2>1. s' = gotoxay(c, 0, 0) /\ AtLeastOne(n) < b /\ b <= s.rows
    BY <1>4 DEF DECSTBM, Do
  <2>2. t \in Nat /\ b \in Nat /\ t + 1 < b
    BY <1>1, <1>2, <2>1
  <2>3. Shape(c)
    <3> HIDE DEF t, b
    <3> QED BY <1>1, <2>1, <2>2, RegionShape
  <2> HIDE DEF c
  <2>4. Good(gotoxay(c, 0, 0))
    BY <2>3, GotoxayGood
  <2> QED BY <1>0, <2>1, <2>4, QuietStep
<1>5. CASE putconsxy(n, k)
  <2>1. n \in Int /\ k \in Int
    BY <1>2
  <2> QED BY <1>0, <1>1, <1>5, <2>1, GotoxyGood, QuietStep DEF putconsxy, Do
<1> QED BY <1>3, <1>4, <1>5

(* Setting and resetting modes.                                             *)
LEMMA ModeInv == ASSUME Inv, NEW on \in BOOLEAN, set_mode(on) PROVE Inv'
<1>0. ~prt.on /\ prt' = prt
  BY DEF set_mode, Do
<1>1. Good(s) /\ Shape(s)
  BY <1>0, QuietState
<1>2. CASE s' = gotoxay([s EXCEPT !.decom = on], 0, 0)
  <2>1. Shape([s EXCEPT !.decom = on])
    BY <1>1, OriginShape
  <2>2. Good(gotoxay([s EXCEPT !.decom = on], 0, 0))
    BY <2>1, GotoxayGood
  <2> QED BY <1>0, <1>2, <2>2, QuietStep
<1>3. CASE s' = [s EXCEPT !.decawm = on] \/ s' = [s EXCEPT !.irm = on]
  <2>1. Good([s EXCEPT !.decawm = on]) /\ Good([s EXCEPT !.irm = on])
    BY <1>1, FlagsGood
  <2> QED BY <1>0, <1>3, <2>1, QuietStep
<1> QED BY <1>2, <1>3 DEF set_mode, Do

(* One iteration of a tabulation.                                           *)
LEMMA LoopInv == ASSUME Inv, LoopStep, ~prt.on PROVE Inv'
<1>1. Good(s) /\ prt' = prt
  BY QuietState DEF LoopStep
<1>2. \/ \E j \in 0 .. s.cols - 1 : s' = TabTo(s, j)
      \/ s' = vte_lf(s)
  BY DEF LoopStep
<1>3. Good(s')
  BY <1>1, <1>2, TabToGood, LfGood
<1> QED BY <1>1, <1>3, QuietStep

(* vc_resize keeps the invariant, in origin mode too.                       *)
LEMMA ResizeInv == ASSUME Inv, NEW size \in Sizes, vc_resize(size) PROVE Inv'
<1> DEFINE c == [s EXCEPT !.cols = size[1], !.rows = size[2], !.top = 0, !.bottom = size[2]]
<1>0. ~prt.on /\ prt' = prt /\ s' = vte_decsc(gotoxy(c, s.x, s.y))
  BY DEF vc_resize, Do
<1>1. Shape(s) /\ s.x \in Int /\ s.y \in Int
  BY <1>0, QuietState
<1>2. size[1] \in Nat /\ size[1] > 0 /\ size[2] \in Nat /\ size[2] > 0
  BY SizesAssumption, TabAssumption DEF TabWords
<1>3. Shape(c)
  BY <1>1, <1>2, ResizeShape
<1> HIDE DEF c
<1>4. Good(vte_decsc(gotoxy(c, s.x, s.y)))
  BY <1>1, <1>3, GotoxyGood, DecscGood
<1> QED BY <1>0, <1>4, QuietStep

(* Kernel messages.                                                         *)
LEMMA PrintkStartInv == ASSUME Inv, PrintkStart PROVE Inv'
<1>1. s' = s /\ prt' = [on |-> TRUE, cnt |-> 0, myx |-> s.x] /\ ~prt.on
  BY DEF PrintkStart
<1>2. Good(s) /\ Shape(s) /\ OnScreen(s) /\ s.x \in Nat /\ s.x < s.cols
      /\ s.pos = s.y * s.cols + s.x
  BY <1>1, QuietState DEF Good, OnScreen
<1>3. prt'.on /\ prt'.cnt = 0 /\ prt'.myx = s.x
  BY <1>1
<1>4. Lagging(s, prt')
  BY <1>2, <1>3 DEF Lagging
<1> QED BY <1>1, <1>2, <1>3, <1>4 DEF Inv

(* A character of a kernel message, after a pending wrap or without one.    *)
LEMMA PrintkCharInv == ASSUME Inv, PrintkChar PROVE Inv'
<1>1. CASE ~s.need_wrap /\ Printed(s, text, prt.cnt, prt.myx)
  <2>1. /\ Shape(s) /\ OnScreen(s) /\ prt.cnt \in Nat /\ prt.myx \in Nat
        /\ s.pos = s.y * s.cols + prt.myx /\ prt.myx < s.cols
        /\ prt.myx = s.x + prt.cnt - 0 /\ s.x \in Nat
    BY <1>1, Fields DEF PrintkChar, Inv, Lagging
  <2>2. prt.myx = s.x + prt.cnt
    BY <2>1
  <2> QED BY <1>1, <2>1, <2>2, PrintedInv
<1>2. CASE Printed(vte_cr(vte_lf(CaughtUp)), vte_lf_text(CaughtUp, text), 0, 0)
  <2> DEFINE d == vte_lf(CaughtUp)
             c == vte_cr(d)
  <2>1. Good(d)
    BY CaughtUpGood, LfGood DEF PrintkChar
  <2>2. Good(c) /\ c.x = 0 /\ c.need_wrap = FALSE
    <3>1. Good(c) /\ c.x = 0
      BY <2>1, CrGood
    <3>2. d \in VcScreen
      BY <2>1 DEF Good, Shape
    <3> HIDE DEF d
    <3>3. vte_cr(d).need_wrap = FALSE
      BY <3>2 DEF vte_cr, VcScreen
    <3> QED BY <3>1, <3>3
  <2> HIDE DEF c, d
  <2>3. /\ Shape(c) /\ OnScreen(c) /\ ~c.need_wrap /\ c.pos = c.y * c.cols + 0
        /\ 0 < c.cols /\ 0 = c.x + 0
    BY <2>2, GoodFields DEF Good
  <2>4. Printed(c, vte_lf_text(CaughtUp, text), 0, 0)
    BY <1>2 DEF c, d
  <2> QED BY <2>3, <2>4, PrintedInv
<1> QED BY <1>1, <1>2 DEF PrintkChar

(* A control character of a kernel message lets vc_x catch up.              *)
LEMMA PrintkControlInv == ASSUME Inv, NEW ctl, PrintkControl(ctl) PROVE Inv'
<1>1. prt.on /\ prt' = [on |-> TRUE, cnt |-> 0, myx |-> s'.x]
  BY DEF PrintkControl
<1>2. Good(CaughtUp)
  BY <1>1, CaughtUpGood
<1>3. Good(s')
  BY <1>2, BsGood, CrGood, LfGood DEF PrintkControl
<1>4. /\ Shape(s') /\ OnScreen(s') /\ s'.x \in Nat /\ s'.x < s'.cols
      /\ s'.pos = s'.y * s'.cols + s'.x
  BY <1>3, GoodFields DEF Good
<1>5. prt'.on /\ prt'.cnt = 0 /\ prt'.myx = s'.x
  BY <1>1
<1>6. Lagging(s', prt')
  BY <1>4, <1>5 DEF Lagging
<1> QED BY <1>4, <1>5, <1>6 DEF Inv

(* At the end of a kernel message vc_x catches up, one column back at the margin. *)
LEMMA PrintkEndInv == ASSUME Inv, PrintkEnd PROVE Inv'
<1> DEFINE x == s.x + prt.cnt
<1>1. prt.on /\ prt' = Silent /\ ~prt'.on
  BY DEF PrintkEnd, Silent
<1>2. /\ Shape(s) /\ OnScreen(s) /\ s \in VcScreen /\ s.x \in Nat /\ s.y \in Nat /\ s.pos \in Nat
      /\ s.cols \in Nat /\ s.need_wrap \in BOOLEAN
      /\ prt.cnt \in Nat /\ prt.myx \in Nat /\ prt.myx < s.cols
      /\ s.pos = s.y * s.cols + prt.myx
      /\ prt.myx = s.x + prt.cnt - (IF prt.cnt > 0 /\ s.need_wrap THEN 1 ELSE 0)
      /\ (prt.cnt > 0 /\ s.need_wrap => prt.myx = s.cols - 1)
  BY <1>1, Fields DEF Inv, Lagging, Shape
<1>3. PICK w \in BOOLEAN : s' = [s EXCEPT !.x = prt.myx, !.y = s.y, !.pos = s.pos, !.need_wrap = w]
  <2>1. CASE prt.cnt > 0 /\ x = s.cols
    <3>1. x - 1 = prt.myx
      BY <1>2, <2>1
    <3>2. s' = [s EXCEPT !.x = x - 1, !.need_wrap = TRUE]
      BY <2>1 DEF PrintkEnd
    <3>3. s' = [s EXCEPT !.x = prt.myx, !.y = s.y, !.pos = s.pos, !.need_wrap = TRUE]
      BY <1>2, <3>1, <3>2 DEF VcScreen
    <3> QED BY <3>3
  <2>2. CASE ~(prt.cnt > 0 /\ x = s.cols)
    <3>1. x = prt.myx
      BY <1>2, <2>2
    <3>2. s' = [s EXCEPT !.x = x]
      BY <2>2 DEF PrintkEnd
    <3>3. s' = [s EXCEPT !.x = prt.myx, !.y = s.y, !.pos = s.pos, !.need_wrap = s.need_wrap]
      BY <1>2, <3>1, <3>2 DEF VcScreen
    <3> QED BY <1>2, <3>3
  <2> QED BY <2>1, <2>2
<1>4. s.y < s.rows /\ (s.decom => s.top <= s.y /\ s.y < s.bottom)
  BY <1>2 DEF OnScreen
<1>5. Good([s EXCEPT !.x = prt.myx, !.y = s.y, !.pos = s.pos, !.need_wrap = w])
  <2>1. /\ Shape(s) /\ prt.myx \in Nat /\ s.y \in Nat /\ s.pos \in Nat
        /\ prt.myx < s.cols /\ s.y < s.rows /\ (s.decom => s.top <= s.y /\ s.y < s.bottom)
        /\ s.pos = s.y * s.cols + prt.myx
    BY <1>2, <1>4
  <2> QED BY <2>1, MoveGood, Zenon
<1>6. Good(s')
  BY <1>3, <1>5
<1> QED BY <1>1, <1>6 DEF Inv, Good

-----------------------------------------------------------------------------
(* Loops and kernel messages start only when neither is under way.          *)
LEMMA ExclusiveStep == ASSUME Exclusive, [Next]_vars PROVE Exclusive'
<1>1. CASE LoopStep
  BY <1>1 DEF Exclusive, LoopStep
<1>2. CASE Printk
  BY <1>2 DEF Exclusive, Printk, PrintkStart, PrintkChar, PrintkEnd, PrintkControl, Silent
<1>3. CASE UNCHANGED vars
  BY <1>3 DEF Exclusive, vars
<1>4. CASE Next /\ ~LoopStep /\ ~Printk
  <2>1. ~prt.on /\ prt' = prt
    BY <1>4 DEF Next, do_con_write, Control, BS, CR, LF, NEL, RI, HT, HTS, DECSC, DECRC, RIS,
         DECALN, Sequence, CUU, CUD, CUF, CUB, CNL, CPL, CHA, VPA, CHT, CBT, CVT, TBC, vte_ed,
         vte_el, vte_ech, vte_ich, vte_dch, vte_il, vte_dl, Erase, Edit, CUP, DECSTBM,
         putconsxy, set_mode, vc_resize, Do, Start
  <2> QED BY <2>1 DEF Exclusive
<1> QED BY <1>1, <1>2, <1>3, <1>4

(* Every step keeps the invariant.                                          *)
LEMMA InvStep == ASSUME Inv, Exclusive, [Next]_vars PROVE Inv'
<1>1. ASSUME NEW ch \in Cell, do_con_write(ch) PROVE Inv'
  BY <1>1, WriteInv
<1>2. CASE Control
  BY <1>2, ControlInv
<1>3. ASSUME NEW n \in Params, Sequence(n) PROVE Inv'
  BY <1>3, SequenceInv
<1>4. ASSUME NEW n \in Params, NEW k \in Params, CUP(n, k) \/ DECSTBM(n, k) \/ putconsxy(n, k)
      PROVE  Inv'
  BY <1>4, PairInv
<1>5. ASSUME NEW on \in BOOLEAN, set_mode(on) PROVE Inv'
  BY <1>5, ModeInv
<1>6. CASE LoopStep
  BY <1>6, LoopInv DEF LoopStep, Exclusive
<1>7. ASSUME NEW size \in Sizes, vc_resize(size) PROVE Inv'
  BY <1>7, ResizeInv
<1>8. CASE Printk
  BY <1>8, PrintkStartInv, PrintkCharInv, PrintkEndInv, PrintkControlInv DEF Printk
<1>9. CASE UNCHANGED vars
  BY <1>9 DEF Inv, Good, vars
<1> QED BY <1>1, <1>2, <1>3, <1>4, <1>5, <1>6, <1>7, <1>8, <1>9 DEF Next

(* The inductive invariant holds of every behaviour.                        *)
THEOREM ScreenInvariant == Spec => [](Inv /\ Exclusive)
<1>1. Init => Inv /\ Exclusive
  BY InitInv DEF Init, Exclusive, Silent
<1>2. Inv /\ Exclusive /\ [Next]_vars => (Inv /\ Exclusive)'
  BY InvStep, ExclusiveStep
<1> QED BY <1>1, <1>2, PTL DEF Spec

(***************************************************************************)
(* The cursor is always on the screen and vc_pos is the address of its      *)
(* coordinates, or runs ahead of them by what a kernel message has stored.  *)
(* No control sequence, whatever its parameters, makes the next character   *)
(* go outside the buffer.                                                   *)
(***************************************************************************)
THEOREM CursorStaysSound == Spec => []CursorSound
<1>1. Inv => CursorSound
  BY DEF Inv, Good, OnScreen, Lagging, CursorSound
<1> QED BY <1>1, ScreenInvariant, PTL

(***************************************************************************)
(* The scrolling region always lies on the screen, has two lines or is all  *)
(* of it, and confines the cursor in origin mode, resizes included.         *)
(***************************************************************************)
THEOREM RegionStaysSound == Spec => []RegionSound
<1>1. Inv => RegionSound
  BY DEF Inv, Shape, OnScreen, RegionSound
<1> QED BY <1>1, ScreenInvariant, PTL

-----------------------------------------------------------------------------
(***************************************************************************)
(* A pending wrap and the last column.  Of everything that moves the cursor *)
(* or sets need_wrap only the backward tabulation takes a pending wrap away *)
(* from the last column.                                                    *)
(***************************************************************************)

(* A wrap is pending away from the last column.                             *)
Loose(c) == c.need_wrap /\ c.x # c.cols - 1

(* The moves that forget a pending wrap.                                    *)
LEMMA GotoxyNoWrap ==
  ASSUME NEW c \in VcScreen, NEW a, NEW b
  PROVE  ~gotoxy(c, a, b).need_wrap /\ ~gotoxay(c, a, b).need_wrap
<1>1. \A v, w : gotoxy(c, v, w).need_wrap = FALSE
  BY DEF VcScreen, gotoxy
<1> QED BY <1>1 DEF gotoxay

(* A line feed, a reverse one, a carriage return.                           *)
LEMMA LineNoWrap ==
  ASSUME NEW c \in VcScreen
  PROVE  ~vte_lf(c).need_wrap /\ ~vte_cr(c).need_wrap /\ ~vte_ri(c).need_wrap
  BY DEF VcScreen, vte_lf, vte_cr, vte_ri

(* A backspace forgets the wrap, or does nothing.                           *)
LEMMA BsLoose == ASSUME NEW c \in VcScreen, Loose(vte_bs(c)) PROVE Loose(c)
  BY DEF VcScreen, vte_bs, Loose

(* What a cursor saved or a mode set does not change.                       *)
LEMMA FlagsLoose ==
  ASSUME NEW c \in VcScreen, NEW on \in BOOLEAN, NEW tabs
  PROVE  /\ Loose(vte_decsc(c)) => Loose(c)
         /\ Loose([c EXCEPT !.decawm = on]) => Loose(c)
         /\ Loose([c EXCEPT !.irm = on]) => Loose(c)
         /\ Loose([c EXCEPT !.tab_stop = tabs]) => Loose(c)
         /\ ~Loose([c EXCEPT !.need_wrap = FALSE])
  BY DEF VcScreen, vte_decsc, Loose

(* A character leaves a wrap pending in the last column only.               *)
LEMMA AdvanceLoose == ASSUME NEW c, Good(c) PROVE ~Loose(Advance(Wrapped(c)))
<1>1. Wrapped(c) \in VcScreen /\ ~Wrapped(c).need_wrap
  <2>1. CASE ~c.need_wrap
    BY <2>1 DEF Wrapped, Good, Shape
  <2>2. CASE c.need_wrap
    <3>1. vte_cr(c) \in VcScreen /\ vte_lf(vte_cr(c)) \in VcScreen
      BY CrGood, LfGood DEF Good, Shape
    <3> QED BY <2>2, <3>1, LineNoWrap DEF Wrapped
  <2> QED BY <2>1, <2>2
<1> DEFINE d == Wrapped(c)
<1>2. d \in VcScreen /\ ~d.need_wrap
  BY <1>1
<1> HIDE DEF d
<1>3. ~Loose(Advance(d))
  BY <1>2 DEF Advance, Loose, VcScreen
<1> QED BY <1>3 DEF d

(* A tabulation to the right stays in the last column.                      *)
LEMMA TabRightLoose ==
  ASSUME NEW c, Good(c), NEW j \in 0 .. c.cols - 1, TabRight(c, j), Loose(TabTo(c, j))
  PROVE  Loose(c)
<1>1. c \in VcScreen /\ c.cols \in Nat /\ c.x \in Nat /\ j \in Nat
  BY GoodFields DEF Good, Shape
<1>2. TabTo(c, j).need_wrap = c.need_wrap /\ TabTo(c, j).x = j /\ TabTo(c, j).cols = c.cols
  BY <1>1 DEF TabTo, VcScreen
<1>3. c.x = c.cols - 1 => j = c.cols - 1
  BY <1>1 DEF TabRight
<1> QED BY <1>2, <1>3 DEF Loose

-----------------------------------------------------------------------------
(* What a step outside kernel messages must show.                           *)
WrapStep == Loose(s') => Loose(s) \/ (s.need_wrap /\ loop.body = "vte_cbt")

(* Characters, control characters and sequences.                            *)
LEMMA ControlWrap == ASSUME Inv, Control PROVE WrapStep
<1>0. ~prt.on
  BY DEF Control, BS, CR, LF, NEL, RI, HT, HTS, DECSC, DECRC, RIS, DECALN, Do
<1>1. Good(s) /\ Shape(s) /\ s \in VcScreen
  BY <1>0, QuietState DEF Shape
<1>2. CASE BS
  BY <1>1, <1>2, BsLoose DEF BS, Do, WrapStep
<1>3. CASE CR
  BY <1>1, <1>3, LineNoWrap DEF CR, Do, WrapStep, Loose
<1>4. CASE LF
  BY <1>1, <1>4, LineNoWrap DEF LF, Do, WrapStep, Loose
<1>5. CASE NEL
  <2>1. vte_cr(s) \in VcScreen
    BY <1>1, CrGood DEF Good, Shape
  <2> QED BY <1>5, <2>1, LineNoWrap DEF NEL, Do, WrapStep, Loose
<1>6. CASE RI
  BY <1>1, <1>6, LineNoWrap DEF RI, Do, WrapStep, Loose
<1>7. CASE HT
  BY <1>1, <1>7, TabRightLoose DEF HT, Do, WrapStep
<1>8. CASE HTS
  BY <1>1, <1>8, FlagsLoose DEF HTS, Do, WrapStep
<1>12. CASE DECSC
  BY <1>1, <1>12, FlagsLoose DEF DECSC, Do, WrapStep
<1>9. CASE DECRC
  BY <1>1, <1>9, GotoxyNoWrap DEF DECRC, vte_decrc, Do, WrapStep, Loose
<1>10. CASE RIS
  <2> DEFINE d == [s EXCEPT !.top = 0, !.bottom = s.rows, !.need_wrap = FALSE,
                            !.decom = FALSE, !.decawm = TRUE, !.irm = FALSE,
                            !.tab_stop = DefaultTabs \cup BeyondReset(s)]
  <2>1. DefaultTabs \cup BeyondReset(s) \in SUBSET Nat
    BY <1>1, TabsType
  <2>2. d \in VcScreen /\ d.top = 0 /\ d.bottom = s.rows /\ d.cols = s.cols /\ d.rows = s.rows
    BY <1>1, <2>1 DEF VcScreen
  <2>3. s' = vte_decsc(gotoxy(d, 0, 0))
    BY <1>10 DEF RIS, vte_ris, Do
  <2> HIDE DEF d
  <2>4. Shape(d)
    BY <1>1, <2>2, Fields DEF Shape
  <2>5. gotoxy(d, 0, 0) \in VcScreen /\ ~Loose(gotoxy(d, 0, 0))
    BY <2>2, <2>4, GotoxyGood, GotoxyNoWrap DEF Good, Shape, Loose
  <2> QED BY <2>3, <2>5, FlagsLoose DEF WrapStep
<1>11. CASE DECALN
  BY <1>1, <1>11, FlagsLoose DEF DECALN, Do, WrapStep
<1> QED BY <1>2, <1>3, <1>4, <1>5, <1>6, <1>7, <1>8, <1>9, <1>10, <1>11, <1>12 DEF Control

(* Sequences with one parameter.                                            *)
LEMMA SequenceWrap == ASSUME Inv, NEW n \in Params, Sequence(n) PROVE WrapStep
<1>0. ~prt.on
  BY DEF Sequence, CUU, CUD, CUF, CUB, CNL, CPL, CHA, VPA, CHT, CBT, CVT, TBC, vte_ed, vte_el,
         vte_ech, vte_ich, vte_dch, vte_il, vte_dl, Erase, Edit, Do, Start
<1>1. s \in VcScreen
  BY <1>0, QuietState DEF Shape
<1>2. CASE CUU(n) \/ CUD(n) \/ CUF(n) \/ CUB(n) \/ CNL(n) \/ CPL(n) \/ CHA(n) \/ VPA(n)
  <2>1. \E a, b : s' = gotoxy(s, a, b) \/ s' = gotoxay(s, a, b)
    BY <1>2 DEF CUU, CUD, CUF, CUB, CNL, CPL, CHA, VPA, Do
  <2> QED BY <1>1, <2>1, GotoxyNoWrap DEF WrapStep, Loose
<1>3. CASE CHT(n) \/ CBT(n) \/ CVT(n)
  BY <1>3 DEF CHT, CBT, CVT, Start, WrapStep
<1>4. CASE TBC(n)
  <2>1. \E tabs : s' = [s EXCEPT !.tab_stop = tabs]
    BY <1>4 DEF TBC, Do
  <2> QED BY <1>1, <2>1, FlagsLoose DEF WrapStep
<1>5. CASE vte_ed(n) \/ vte_el(n) \/ vte_ech(n) \/ vte_ich(n) \/ vte_dch(n) \/ vte_il(n) \/ vte_dl(n)
  <2>1. s' = [s EXCEPT !.need_wrap = FALSE]
    BY <1>5 DEF vte_ed, vte_el, vte_ech, vte_ich, vte_dch, vte_il, vte_dl, Erase, Edit, Do
  <2> QED BY <1>1, <2>1, FlagsLoose DEF WrapStep
<1> QED BY <1>2, <1>3, <1>4, <1>5 DEF Sequence

(* Sequences with two parameters, modes and resizes.                        *)
LEMMA PairWrap ==
  ASSUME Inv, NEW n \in Params, NEW k \in Params, CUP(n, k) \/ DECSTBM(n, k) \/ putconsxy(n, k)
  PROVE  WrapStep
<1>0. ~prt.on
  BY DEF CUP, DECSTBM, putconsxy, Do
<1>1. s \in VcScreen /\ s.rows \in Nat
  BY <1>0, QuietState DEF Shape
<1>2. CASE CUP(n, k) \/ putconsxy(n, k)
  BY <1>1, <1>2, GotoxyNoWrap DEF CUP, putconsxy, Do, WrapStep, Loose
<1>3. CASE DECSTBM(n, k)
  <2> DEFINE t == AtLeastOne(n) - 1
             b == IF k = 0 THEN s.rows ELSE k
             c == [s EXCEPT !.top = t, !.bottom = b]
  <2>1. s' = gotoxay(c, 0, 0)
    BY <1>3 DEF DECSTBM, Do
  <2>2. t \in Nat /\ b \in Nat
    BY <1>1, ParamNat
  <2> HIDE DEF t, b
  <2>3. c \in VcScreen
    BY <1>1, <2>2 DEF VcScreen
  <2> HIDE DEF c
  <2> QED BY <2>1, <2>3, GotoxyNoWrap DEF WrapStep, Loose
<1> QED BY <1>2, <1>3

(* Modes.                                                                   *)
LEMMA ModeWrap == ASSUME Inv, NEW on \in BOOLEAN, set_mode(on) PROVE WrapStep
<1>1. s \in VcScreen
  BY QuietState DEF set_mode, Do, Shape
<1>2. CASE s' = gotoxay([s EXCEPT !.decom = on], 0, 0)
  <2>1. [s EXCEPT !.decom = on] \in VcScreen
    BY <1>1 DEF VcScreen
  <2> QED BY <1>2, <2>1, GotoxyNoWrap DEF WrapStep, Loose
<1>3. CASE s' = [s EXCEPT !.decawm = on]
  BY <1>1, <1>3, FlagsLoose DEF WrapStep
<1>4. CASE s' = [s EXCEPT !.irm = on]
  BY <1>1, <1>4, FlagsLoose DEF WrapStep
<1> QED BY <1>2, <1>3, <1>4 DEF set_mode, Do

(* A resize.                                                                *)
LEMMA ResizeWrap == ASSUME Inv, NEW size \in Sizes, vc_resize(size) PROVE WrapStep
<1> DEFINE c == [s EXCEPT !.cols = size[1], !.rows = size[2], !.top = 0, !.bottom = size[2]]
<1>0. ~prt.on /\ s' = vte_decsc(gotoxy(c, s.x, s.y))
  BY DEF vc_resize, Do
<1>1. Shape(s) /\ s.x \in Int /\ s.y \in Int
  BY <1>0, QuietState
<1>2. size[1] \in Nat /\ size[1] > 0 /\ size[2] \in Nat /\ size[2] > 0
  BY SizesAssumption, TabAssumption DEF TabWords
<1>3. Shape(c)
  BY <1>1, <1>2, ResizeShape
<1> HIDE DEF c
<1>5. c \in VcScreen
  BY <1>3 DEF Shape
<1>4. gotoxy(c, s.x, s.y) \in VcScreen /\ ~Loose(gotoxy(c, s.x, s.y))
  BY <1>1, <1>3, <1>5, GotoxyGood, GotoxyNoWrap DEF Good, Shape, Loose
<1> QED BY <1>0, <1>4, FlagsLoose DEF WrapStep

(* Loops.                                                                   *)
LEMMA LoopWrap == ASSUME Inv, LoopStep, ~prt.on PROVE WrapStep
<1>1. Good(s) /\ s \in VcScreen
  BY QuietState DEF Shape
<1>2. CASE loop.body = "vte_cht"
  <2>1. \E j \in 0 .. s.cols - 1 : TabRight(s, j) /\ s' = TabTo(s, j)
    BY <1>2 DEF LoopStep
  <2> QED BY <1>1, <2>1, TabRightLoose DEF WrapStep
<1>3. CASE loop.body = "vte_cbt"
  <2>1. \E j \in 0 .. s.cols - 1 : s' = TabTo(s, j)
    BY <1>3 DEF LoopStep
  <2>2. s'.need_wrap = s.need_wrap
    BY <1>1, <2>1 DEF TabTo, VcScreen
  <2> QED BY <1>3, <2>2 DEF WrapStep, Loose
<1>4. CASE loop.body = "vte_cvt"
  BY <1>1, <1>4, LineNoWrap DEF LoopStep, WrapStep, Loose
<1> QED BY <1>2, <1>3, <1>4 DEF LoopStep

(* The end of a kernel message: the column of the address is the last one   *)
(* when a wrap is pending.                                                  *)
LEMMA PrintkEndWrap == ASSUME Inv, PrintkEnd PROVE WrapStep
<1> DEFINE x == s.x + prt.cnt
<1>1. /\ s \in VcScreen /\ s.x \in Nat /\ s.cols \in Nat /\ s.need_wrap \in BOOLEAN
      /\ prt.cnt \in Nat /\ prt.myx \in Nat
      /\ prt.myx = s.x + prt.cnt - (IF prt.cnt > 0 /\ s.need_wrap THEN 1 ELSE 0)
      /\ (prt.cnt > 0 /\ s.need_wrap => prt.myx = s.cols - 1)
  BY Fields DEF PrintkEnd, Inv, Lagging, Shape
<1>2. CASE prt.cnt > 0 /\ x = s.cols
  <2>1. s' = [s EXCEPT !.x = x - 1, !.need_wrap = TRUE]
    BY <1>2 DEF PrintkEnd
  <2>2. s'.x = s'.cols - 1
    BY <1>1, <1>2, <2>1 DEF VcScreen
  <2> QED BY <2>2 DEF WrapStep, Loose
<1>3. CASE ~(prt.cnt > 0 /\ x = s.cols)
  <2>1. s' = [s EXCEPT !.x = x]
    BY <1>3 DEF PrintkEnd
  <2>2. s'.x = x /\ s'.cols = s.cols /\ s'.need_wrap = s.need_wrap
    BY <1>1, <2>1 DEF VcScreen
  <2>3. s.need_wrap => prt.cnt = 0
    BY <1>1, <1>3
  <2>4. prt.cnt = 0 => x = s.x
    BY <1>1
  <2> QED BY <2>2, <2>3, <2>4 DEF WrapStep, Loose
<1> QED BY <1>2, <1>3

(***************************************************************************)
(* A pending wrap belongs to a cursor in the last column, whatever moves    *)
(* the cursor, and only the backward tabulation carries it away from there. *)
(***************************************************************************)
THEOREM WrapStaysAtMargin == Spec => WrapFromMargin
<1> DEFINE Act == (s'.need_wrap /\ ~prt'.on /\ s'.x # s'.cols - 1)
                    => (s.need_wrap /\ (s.x # s.cols - 1 \/ loop.body = "vte_cbt"))
<1>1. ASSUME Inv, Exclusive, Next PROVE Act
  <2>0. WrapStep => Act
    BY DEF WrapStep, Loose
  <2>1. ASSUME NEW ch \in Cell, do_con_write(ch) PROVE WrapStep
    BY <1>1, <2>1, QuietState, AdvanceLoose DEF do_con_write, Do, WrapStep
  <2>2. Control => WrapStep
    BY <1>1, ControlWrap
  <2>3. ASSUME NEW n \in Params, Sequence(n) PROVE WrapStep
    BY <1>1, <2>3, SequenceWrap
  <2>4. ASSUME NEW n \in Params, NEW k \in Params, CUP(n, k) \/ DECSTBM(n, k) \/ putconsxy(n, k)
        PROVE  WrapStep
    BY <1>1, <2>4, PairWrap
  <2>5. ASSUME NEW on \in BOOLEAN, set_mode(on) PROVE WrapStep
    BY <1>1, <2>5, ModeWrap
  <2>6. LoopStep => WrapStep
    BY <1>1, LoopWrap DEF LoopStep, Exclusive
  <2>7. ASSUME NEW size \in Sizes, vc_resize(size) PROVE WrapStep
    BY <1>1, <2>7, ResizeWrap
  <2>8. Printk /\ ~prt'.on => WrapStep
    BY <1>1, PrintkEndWrap DEF Printk, PrintkStart, PrintkChar, Printed, PrintkControl
  <2>9. prt'.on => Act
    OBVIOUS
  <2> HIDE DEF Act
  <2> QED BY <1>1, <2>0, <2>1, <2>2, <2>3, <2>4, <2>5, <2>6, <2>7, <2>8, <2>9 DEF Next
<1> HIDE DEF Act
<1>2. Inv /\ Exclusive /\ [Next]_vars => [Act]_vars
  BY <1>1
<1> USE DEF Act
<1> QED BY <1>2, ScreenInvariant, PTL DEF Spec, WrapFromMargin

-----------------------------------------------------------------------------
(***************************************************************************)
(* The text.  The buffer has one row after the other; what a function       *)
(* writes is bounded by two addresses first and by lines then.  The cells   *)
(* it copies come from the buffer.                                          *)
(***************************************************************************)
Texts(c) == [Buffer(c) -> Cell]

(* q differs from m at most from one address up to another.                 *)
Within(c, m, q, from, to) ==
  \A i \in Buffer(c) : i < from \/ to <= i => q[i] = m[i]

(* q has the lines of m but for those of rows.                              *)
KeptLines(c, m, q, rows) ==
  \A r \in (0 .. c.rows - 1) \ rows : Line(q, c, r) = Line(m, c, r)

SameSize(c, d) == d.cols = c.cols /\ d.rows = c.rows

(* More rows are not fewer cells.                                           *)
LEMMA RowsOrder ==
  ASSUME NEW a \in Nat, NEW b \in Nat, NEW n \in Nat, a <= b PROVE a * n <= b * n
<1>1. PICK d \in Nat : b = a + d
  <2>1. b - a \in Nat /\ b = a + (b - a)
    OBVIOUS
  <2> QED BY <2>1
<1>2. (a + d) * n = a * n + d * n
  OBVIOUS
<1>3. d * n \in Nat /\ a * n \in Nat
  BY ProductIsNat
<1> QED BY <1>1, <1>2, <1>3

(* The cell of row r and column k is in the buffer, after the rows before r *)
(* and before the rows after it.                                            *)
LEMMA CellPlace ==
  ASSUME NEW n \in Nat, NEW rows \in Nat, NEW r \in 0 .. rows - 1, NEW k \in 0 .. n - 1
  PROVE  /\ r * n \in Nat
         /\ r * n + k \in 0 .. rows * n - 1
         /\ \A a \in Nat : a <= r => a * n <= r * n + k
         /\ \A b \in Nat : r < b => r * n + k < b * n
<1>1. r \in Nat /\ k \in Nat /\ k < n /\ r * n \in Nat
  BY ProductIsNat
<1>2. ASSUME NEW b \in Nat, r < b PROVE r * n + k < b * n
  <2>1. (r + 1) * n <= b * n
    BY <1>1, <1>2, RowsOrder
  <2>2. (r + 1) * n = r * n + n
    BY <1>1, NextRow
  <2>3. b * n \in Nat
    BY ProductIsNat
  <2> QED BY <1>1, <2>1, <2>2, <2>3
<1>3. ASSUME NEW a \in Nat, a <= r PROVE a * n <= r * n + k
  <2>1. a * n <= r * n /\ a * n \in Nat
    BY <1>1, <1>3, RowsOrder, ProductIsNat
  <2> QED BY <1>1, <2>1
<1>4. r * n + k < rows * n /\ rows * n \in Nat
  BY <1>2, ProductIsNat
<1> QED BY <1>1, <1>2, <1>3, <1>4

(* What changes only between the first cells of two rows leaves the other   *)
(* lines.                                                                   *)
LEMMA LinesOf ==
  ASSUME NEW c, c.cols \in Nat, c.rows \in Nat, NEW m, NEW q, NEW lo \in Nat, NEW hi \in Nat,
         Within(c, m, q, lo * c.cols, hi * c.cols)
  PROVE  KeptLines(c, m, q, lo .. hi - 1)
<1> SUFFICES ASSUME NEW r \in (0 .. c.rows - 1) \ (lo .. hi - 1)
             PROVE  Line(q, c, r) = Line(m, c, r)
  BY DEF KeptLines
<1>1. ASSUME NEW k \in 0 .. c.cols - 1
      PROVE  q[r * c.cols + k] = m[r * c.cols + k]
  <2>1. r \in Nat /\ r * c.cols + k \in 0 .. c.rows * c.cols - 1
    BY CellPlace
  <2>2. r < lo \/ hi <= r
    BY <2>1
  <2>3. r * c.cols + k < lo * c.cols \/ hi * c.cols <= r * c.cols + k
    BY <2>1, <2>2, CellPlace
  <2> QED BY <2>1, <2>3 DEF Within, Buffer
<1> QED BY <1>1 DEF Line

(* Lines kept by one change and by the next are kept by both.               *)
LEMMA LinesTrans ==
  ASSUME NEW c, NEW m, NEW q, NEW p, NEW A, NEW B,
         KeptLines(c, m, q, A), KeptLines(c, q, p, B)
  PROVE  KeptLines(c, m, p, A \cup B)
<1> SUFFICES ASSUME NEW r \in (0 .. c.rows - 1) \ (A \cup B)
             PROVE  Line(p, c, r) = Line(m, c, r)
  BY DEF KeptLines
<1>1. Line(q, c, r) = Line(m, c, r) /\ Line(p, c, r) = Line(q, c, r)
  BY DEF KeptLines
<1> QED BY <1>1

(* The lines of a screen of the same size.                                  *)
LEMMA LinesOfSize ==
  ASSUME NEW c, NEW d, SameSize(c, d), NEW m, NEW q, NEW A, KeptLines(d, m, q, A)
  PROVE  KeptLines(c, m, q, A)
  BY DEF SameSize, KeptLines, Line

(* memsetw writes n characters from an address on.                          *)
LEMMA SetWithin ==
  ASSUME NEW c, NEW m \in Texts(c), NEW to \in Int, NEW n \in Int, NEW from \in Int, NEW upto \in Int,
         c.rows * c.cols \in Nat, from <= to, to + n <= upto
  PROVE  memsetw(m, to, n) \in Texts(c) /\ Within(c, m, memsetw(m, to, n), from, upto)
<1>1. DOMAIN m = Buffer(c) /\ \A i \in Buffer(c) : i \in Int /\ m[i] \in Cell
  BY DEF Texts, Buffer
<1>2. memsetw(m, to, n) = [i \in Buffer(c) |-> IF i \in to .. to + n - 1 THEN Blank ELSE m[i]]
  BY <1>1 DEF memsetw
<1>3. Blank \in Cell
  BY DEF Cell
<1> HIDE DEF Cell
<1>4. memsetw(m, to, n) \in Texts(c)
  BY <1>1, <1>2, <1>3 DEF Texts
<1>5. ASSUME NEW i \in Buffer(c), i < from \/ upto <= i PROVE memsetw(m, to, n)[i] = m[i]
  BY <1>1, <1>2, <1>5
<1> QED BY <1>4, <1>5 DEF Within

(* memmovew writes n characters and reads as many, inside the buffer.       *)
LEMMA MoveWithin ==
  ASSUME NEW c, NEW m \in Texts(c), NEW to \in Int, NEW src \in Nat, NEW n \in Int,
         NEW from \in Int, NEW upto \in Int,
         c.rows * c.cols \in Nat, from <= to, to + n <= upto, src + n <= c.rows * c.cols
  PROVE  memmovew(m, to, src, n) \in Texts(c) /\ Within(c, m, memmovew(m, to, src, n), from, upto)
<1>1. DOMAIN m = Buffer(c) /\ \A i \in Buffer(c) : i \in Int /\ m[i] \in Cell
  BY DEF Texts, Buffer
<1>2. memmovew(m, to, src, n)
        = [i \in Buffer(c) |-> IF i \in to .. to + n - 1 THEN m[i - to + src] ELSE m[i]]
  BY <1>1 DEF memmovew
<1>3. ASSUME NEW i \in Buffer(c), i \in to .. to + n - 1 PROVE m[i - to + src] \in Cell
  <2>1. i - to + src \in 0 .. c.rows * c.cols - 1
    BY <1>3
  <2> QED BY <1>1, <2>1 DEF Buffer
<1>4. memmovew(m, to, src, n) \in Texts(c)
  BY <1>1, <1>2, <1>3 DEF Texts
<1>5. ASSUME NEW i \in Buffer(c), i < from \/ upto <= i PROVE memmovew(m, to, src, n)[i] = m[i]
  BY <1>1, <1>2, <1>5
<1> QED BY <1>4, <1>5 DEF Within

(* Two writes between the same addresses.                                   *)
LEMMA WithinTrans ==
  ASSUME NEW c, NEW m, NEW q, NEW p, NEW from, NEW upto,
         Within(c, m, q, from, upto), Within(c, q, p, from, upto)
  PROVE  Within(c, m, p, from, upto)
  BY DEF Within

-----------------------------------------------------------------------------
(* What a function that may change the lines of rows must show.             *)
Edits(c, m, q, rows) == q \in Texts(c) /\ KeptLines(c, m, q, rows)

(* No change is a change of any lines.                                      *)
LEMMA NoEdit == ASSUME NEW c, NEW m \in Texts(c), NEW rows PROVE Edits(c, m, m, rows)
  BY DEF Edits, KeptLines

(* The addresses a scroll of n lines from row t to row b deals with.        *)
LEMMA ScrollPlaces ==
  ASSUME NEW c, Shape(c), NEW t \in Nat, NEW b \in Nat, NEW n \in Nat, t + n < b, b <= c.rows
  PROVE  /\ t * c.cols \in Nat /\ n * c.cols \in Nat /\ b * c.cols \in Nat
         /\ c.rows * c.cols \in Nat
         /\ (t + n) * c.cols = t * c.cols + n * c.cols
         /\ (b - t - n) * c.cols = b * c.cols - t * c.cols - n * c.cols
         /\ (b - n) * c.cols = b * c.cols - n * c.cols
         /\ t * c.cols + n * c.cols <= b * c.cols
         /\ b * c.cols <= c.rows * c.cols
<1>1. c.cols \in Nat /\ c.rows \in Nat
  BY Fields
<1>2. /\ t * c.cols \in Nat /\ n * c.cols \in Nat /\ b * c.cols \in Nat
      /\ c.rows * c.cols \in Nat
  BY <1>1, ProductIsNat
<1>3. \A x, y, w \in Int : (x + y) * w = x * w + y * w /\ (x - y) * w = x * w - y * w
  OBVIOUS
<1>4. (t + n) * c.cols = t * c.cols + n * c.cols
  BY <1>1, <1>3
<1>5. (b - n) * c.cols = b * c.cols - n * c.cols
  BY <1>1, <1>3
<1>6. (b - t - n) * c.cols = b * c.cols - t * c.cols - n * c.cols
  <2>1. (b - t) * c.cols = b * c.cols - t * c.cols
    BY <1>1, <1>3
  <2>2. ((b - t) - n) * c.cols = (b - t) * c.cols - n * c.cols
    BY <1>1, <1>3
  <2> QED BY <2>1, <2>2
<1>7. (t + n) * c.cols <= b * c.cols /\ b * c.cols <= c.rows * c.cols
  BY <1>1, RowsOrder
<1> QED BY <1>2, <1>4, <1>5, <1>6, <1>7

(* A scroll moves at least a line, and one line stays.                      *)
LEMMA ScrollCount ==
  ASSUME NEW t \in Nat, NEW b \in Nat, NEW nr \in Int, t < b, ~(ScrollBy(t, b, nr) < 1)
  PROVE  ScrollBy(t, b, nr) \in Nat /\ t + ScrollBy(t, b, nr) < b
  BY DEF ScrollBy

(* scroll_region_up stays between its lines.                                *)
LEMMA ScrollUpEdits ==
  ASSUME NEW c, Shape(c), NEW m \in Texts(c), NEW t \in Nat, NEW b \in Nat, NEW nr \in Int
  PROVE  Edits(c, m, scroll_region_up(c, m, t, b, nr), t .. b - 1)
<1> DEFINE n == ScrollBy(t, b, nr)
<1>1. CASE b > c.rows \/ t >= b \/ n < 1
  BY <1>1, NoEdit DEF scroll_region_up
<1>2. CASE ~(b > c.rows \/ t >= b \/ n < 1)
  <2>0. c.cols \in Nat /\ c.rows \in Nat
    BY Fields
  <2>1. n \in Nat /\ t + n < b /\ b <= c.rows
    BY <1>2, <2>0, ScrollCount
  <2>2. scroll_region_up(c, m, t, b, nr)
          = memsetw(memmovew(m, t * c.cols, (t + n) * c.cols, (b - t - n) * c.cols),
                    (b - n) * c.cols, n * c.cols)
    BY <1>2 DEF scroll_region_up
  <2> HIDE DEF n
  <2> DEFINE T == t * c.cols
             N == n * c.cols
             B == b * c.cols
             q == memmovew(m, T, T + N, B - T - N)
             p == memsetw(q, B - N, N)
  <2>3. /\ T \in Nat /\ N \in Nat /\ B \in Nat /\ T + N <= B
        /\ c.rows * c.cols \in Nat /\ B <= c.rows * c.cols
        /\ (t + n) * c.cols = T + N /\ (b - t - n) * c.cols = B - T - N /\ (b - n) * c.cols = B - N
    BY <2>1, ScrollPlaces
  <2>4. scroll_region_up(c, m, t, b, nr) = p
    BY <2>2, <2>3
  <2> HIDE DEF T, N, B
  <2>5. /\ T + N \in Nat /\ B - T - N \in Int /\ B - N \in Int
        /\ T <= T /\ T + (B - T - N) <= B /\ T + N + (B - T - N) <= c.rows * c.cols
        /\ T <= B - N /\ B - N + N <= B
    BY <2>3
  <2>6. q \in Texts(c) /\ Within(c, m, q, T, B)
    BY <2>3, <2>5, MoveWithin
  <2> HIDE DEF q
  <2>7. p \in Texts(c) /\ Within(c, q, p, T, B)
    BY <2>3, <2>5, <2>6, SetWithin
  <2>8. Within(c, m, p, t * c.cols, b * c.cols)
    BY <2>6, <2>7, WithinTrans DEF T, B
  <2> HIDE DEF p
  <2>9. KeptLines(c, m, p, t .. b - 1)
    BY <2>0, <2>8, LinesOf
  <2> QED BY <2>4, <2>7, <2>9 DEF Edits
<1> QED BY <1>1, <1>2

(* So does scroll_region_down.                                              *)
LEMMA ScrollDownEdits ==
  ASSUME NEW c, Shape(c), NEW m \in Texts(c), NEW t \in Nat, NEW b \in Nat, NEW nr \in Int
  PROVE  Edits(c, m, scroll_region_down(c, m, t, b, nr), t .. b - 1)
<1> DEFINE n == ScrollBy(t, b, nr)
<1>1. CASE b > c.rows \/ t >= b \/ n < 1
  BY <1>1, NoEdit DEF scroll_region_down
<1>2. CASE ~(b > c.rows \/ t >= b \/ n < 1)
  <2>0. c.cols \in Nat /\ c.rows \in Nat
    BY Fields
  <2>1. n \in Nat /\ t + n < b /\ b <= c.rows
    BY <1>2, <2>0, ScrollCount
  <2>2. scroll_region_down(c, m, t, b, nr)
          = memsetw(memmovew(m, (t + n) * c.cols, t * c.cols, (b - t - n) * c.cols),
                    t * c.cols, n * c.cols)
    BY <1>2 DEF scroll_region_down
  <2> HIDE DEF n
  <2> DEFINE T == t * c.cols
             N == n * c.cols
             B == b * c.cols
             q == memmovew(m, T + N, T, B - T - N)
             p == memsetw(q, T, N)
  <2>3. /\ T \in Nat /\ N \in Nat /\ B \in Nat /\ T + N <= B
        /\ c.rows * c.cols \in Nat /\ B <= c.rows * c.cols
        /\ (t + n) * c.cols = T + N /\ (b - t - n) * c.cols = B - T - N
    BY <2>1, ScrollPlaces
  <2>4. scroll_region_down(c, m, t, b, nr) = p
    BY <2>2, <2>3
  <2> HIDE DEF T, N, B
  <2>5. /\ T + N \in Int /\ B - T - N \in Int
        /\ T <= T + N /\ T + N + (B - T - N) <= B /\ T + (B - T - N) <= c.rows * c.cols
        /\ T <= T
    BY <2>3
  <2>6. q \in Texts(c) /\ Within(c, m, q, T, B)
    BY <2>3, <2>5, MoveWithin
  <2> HIDE DEF q
  <2>7. p \in Texts(c) /\ Within(c, q, p, T, B)
    BY <2>3, <2>5, <2>6, SetWithin
  <2>8. Within(c, m, p, t * c.cols, b * c.cols)
    BY <2>6, <2>7, WithinTrans DEF T, B
  <2> HIDE DEF p
  <2>9. KeptLines(c, m, p, t .. b - 1)
    BY <2>0, <2>8, LinesOf
  <2> QED BY <2>4, <2>7, <2>9 DEF Edits
<1> QED BY <1>1, <1>2

(* The addresses of the cursor's line.                                      *)
LEMMA LinePlaces ==
  ASSUME NEW c, Shape(c), c.y < c.rows
  PROVE  /\ c.y * c.cols \in Nat /\ c.rows * c.cols \in Nat
         /\ (c.y + 1) * c.cols = c.y * c.cols + c.cols
         /\ c.y * c.cols + c.cols <= c.rows * c.cols
<1>1. c.cols \in Nat /\ c.rows \in Nat /\ c.y \in Nat
  BY Fields
<1>2. (c.y + 1) * c.cols = c.y * c.cols + c.cols
  BY <1>1, NextRow
<1>3. (c.y + 1) * c.cols <= c.rows * c.cols
  BY <1>1, RowsOrder
<1> QED BY <1>1, <1>2, <1>3, ProductIsNat

(* A change within the cursor's line.                                       *)
LEMMA LineEdits ==
  ASSUME NEW c, Shape(c), c.y < c.rows, NEW m, NEW q, q \in Texts(c),
         Within(c, m, q, c.y * c.cols, c.y * c.cols + c.cols)
  PROVE  Edits(c, m, q, {c.y})
<1>1. c.cols \in Nat /\ c.rows \in Nat /\ c.y \in Nat
  BY Fields
<1>2. (c.y + 1) * c.cols = c.y * c.cols + c.cols /\ c.y + 1 \in Nat
  BY <1>1, NextRow
<1>3. KeptLines(c, m, q, c.y .. (c.y + 1) - 1)
  BY <1>1, <1>2, LinesOf
<1>4. c.y .. (c.y + 1) - 1 = {c.y}
  BY <1>1
<1> QED BY <1>3, <1>4 DEF Edits

(* Erasing n characters of the line, from an address in it.                 *)
LEMMA EraseEdits ==
  ASSUME NEW c, Shape(c), c.y < c.rows, NEW m \in Texts(c), NEW from \in Int, NEW n \in Int,
         c.y * c.cols <= from, from + n <= c.y * c.cols + c.cols
  PROVE  Edits(c, m, memsetw(m, from, n), {c.y})
<1>1. c.cols \in Nat /\ c.y * c.cols \in Nat /\ c.rows * c.cols \in Nat
  BY Fields, LinePlaces
<1>2. /\ memsetw(m, from, n) \in Texts(c)
      /\ Within(c, m, memsetw(m, from, n), c.y * c.cols, c.y * c.cols + c.cols)
  BY <1>1, SetWithin
<1> QED BY <1>2, LineEdits

(* Insertion and deletion stay in the cursor's line.                        *)
LEMMA InsertEdits ==
  ASSUME NEW c, Good(c), NEW m \in Texts(c), NEW nr \in 0 .. c.cols - c.x
  PROVE  /\ Edits(c, m, insert_char(c, m, nr), {c.y})
         /\ Edits(c, m, delete_char(c, m, nr), {c.y})
<1> DEFINE P == c.y * c.cols
           R == c.rows * c.cols
           qi == memmovew(m, c.pos + nr, c.pos, c.cols - nr - c.x)
           pi == memsetw(qi, c.pos, nr)
           qd == memmovew(m, c.pos, c.pos + nr, c.cols - nr - c.x)
           pd == memsetw(qd, c.pos + c.cols - nr - c.x, nr)
<1>1. /\ Shape(c) /\ c.y < c.rows /\ c.cols \in Nat /\ c.x \in Nat /\ c.x < c.cols
      /\ c.pos \in Nat /\ c.pos = P + c.x
      /\ P \in Nat /\ R \in Nat /\ P + c.cols <= R
  BY GoodFields, LinePlaces DEF Good
<1>2. insert_char(c, m, nr) = pi /\ delete_char(c, m, nr) = pd
  BY DEF insert_char, delete_char
<1> HIDE DEF P, R
<1>3. /\ c.pos + nr \in Nat /\ c.cols - nr - c.x \in Int
      /\ P <= c.pos /\ P <= c.pos + nr
      /\ c.pos + nr + (c.cols - nr - c.x) <= P + c.cols
      /\ c.pos + (c.cols - nr - c.x) <= P + c.cols
      /\ c.pos + (c.cols - nr - c.x) <= R /\ c.pos + nr + (c.cols - nr - c.x) <= R
      /\ c.pos + nr <= P + c.cols
      /\ c.pos + c.cols - nr - c.x \in Int /\ P <= c.pos + c.cols - nr - c.x
      /\ c.pos + c.cols - nr - c.x + nr <= P + c.cols
      /\ P + c.cols \in Int /\ nr \in Int
  BY <1>1
<1>4. qi \in Texts(c) /\ Within(c, m, qi, P, P + c.cols)
  BY <1>1, <1>3, MoveWithin DEF R
<1>5. qd \in Texts(c) /\ Within(c, m, qd, P, P + c.cols)
  BY <1>1, <1>3, MoveWithin DEF R
<1> HIDE DEF qi, qd
<1>6. pi \in Texts(c) /\ Within(c, qi, pi, P, P + c.cols)
  BY <1>1, <1>3, <1>4, SetWithin DEF R
<1>7. pd \in Texts(c) /\ Within(c, qd, pd, P, P + c.cols)
  BY <1>1, <1>3, <1>5, SetWithin DEF R
<1> HIDE DEF pi, pd
<1>8. Within(c, m, pi, P, P + c.cols) /\ Within(c, m, pd, P, P + c.cols)
  BY <1>4, <1>5, <1>6, <1>7, WithinTrans
<1>9. Edits(c, m, pi, {c.y}) /\ Edits(c, m, pd, {c.y})
  BY <1>1, <1>6, <1>7, <1>8, LineEdits DEF P
<1> QED BY <1>2, <1>9

(* One character, stored in the cursor's line.                              *)
LEMMA StoreEdits ==
  ASSUME NEW c, Shape(c), c.y < c.rows, NEW m \in Texts(c), NEW ch \in Cell,
         NEW j \in 0 .. c.cols - 1, c.pos = c.y * c.cols + j
  PROVE  Edits(c, m, [m EXCEPT ![c.pos] = ch], {c.y})
<1> DEFINE q == [m EXCEPT ![c.pos] = ch]
<1>1. c.cols \in Nat /\ c.y * c.cols \in Nat
  BY Fields, LinePlaces
<1>2. q \in Texts(c)
  BY DEF Texts
<1>3. ASSUME NEW i \in Buffer(c), i < c.y * c.cols \/ c.y * c.cols + c.cols <= i
      PROVE  q[i] = m[i]
  <2>1. i # c.pos
    BY <1>1, <1>3 DEF Buffer
  <2> QED BY <2>1 DEF Texts
<1>4. Within(c, m, q, c.y * c.cols, c.y * c.cols + c.cols)
  BY <1>3 DEF Within
<1> HIDE DEF q
<1>5. Edits(c, m, q, {c.y})
  BY <1>2, <1>4, LineEdits
<1> QED BY <1>5 DEF q

(* A line feed and a reverse one change lines of the region only.           *)
LEMMA FeedEdits ==
  ASSUME NEW c, Shape(c), NEW m \in Texts(c)
  PROVE  /\ Edits(c, m, vte_lf_text(c, m), c.top .. c.bottom - 1)
         /\ Edits(c, m, vte_ri_text(c, m), c.top .. c.bottom - 1)
<1>1. c.top \in Nat /\ c.bottom \in Nat /\ 1 \in Int
  BY Fields
<1> QED BY <1>1, ScrollUpEdits, ScrollDownEdits, NoEdit DEF vte_lf_text, vte_ri_text

-----------------------------------------------------------------------------
(* The size and the region survive every movement of the cursor.            *)
SameRegion(c, d) == SameSize(c, d) /\ d.top = c.top /\ d.bottom = c.bottom

(* No movement of the cursor resizes; those within a line keep the line.    *)
LEMMA MovesKeepRegion ==
  ASSUME NEW c \in VcScreen
  PROVE  /\ \A a, b : SameRegion(c, gotoxy(c, a, b))
         /\ \A a, b : SameRegion(c, gotoxay(c, a, b))
         /\ SameRegion(c, vte_lf(c))
         /\ SameRegion(c, vte_ri(c))
         /\ SameRegion(c, vte_cr(c)) /\ vte_cr(c).y = c.y
         /\ SameRegion(c, vte_bs(c))
         /\ \A j : SameRegion(c, TabTo(c, j))
         /\ SameRegion(c, Advance(c)) /\ Advance(c).y = c.y
<1>1. \A a, b : SameRegion(c, gotoxy(c, a, b))
  BY DEF gotoxy, SameRegion, SameSize, VcScreen
<1>2. \A a, b : SameRegion(c, gotoxay(c, a, b))
  BY <1>1 DEF gotoxay
<1>3. SameRegion(c, vte_lf(c)) /\ SameRegion(c, vte_ri(c))
  BY DEF vte_lf, vte_ri, SameRegion, SameSize, VcScreen
<1>4. SameRegion(c, vte_cr(c)) /\ vte_cr(c).y = c.y /\ SameRegion(c, vte_bs(c))
  BY DEF vte_cr, vte_bs, SameRegion, SameSize, VcScreen
<1>5. /\ \A j : SameRegion(c, TabTo(c, j))
      /\ SameRegion(c, Advance(c)) /\ Advance(c).y = c.y
  BY DEF TabTo, Advance, SameRegion, SameSize, VcScreen
<1> QED BY <1>1, <1>2, <1>3, <1>4, <1>5

(* Assignments that move nothing.                                           *)
LEMMA FlagsKeepSize ==
  ASSUME NEW c \in VcScreen, NEW v
  PROVE  /\ SameSize(c, vte_decsc(c))
         /\ SameSize(c, [c EXCEPT !.decawm = v])
         /\ SameSize(c, [c EXCEPT !.irm = v])
         /\ SameSize(c, [c EXCEPT !.tab_stop = v])
         /\ SameSize(c, [c EXCEPT !.decom = v])
         /\ SameSize(c, [c EXCEPT !.need_wrap = v])
         /\ SameSize(c, vte_ris(c))
<1>1. SameSize(c, vte_ris(c))
  <2> DEFINE d == [c EXCEPT !.top = 0, !.bottom = c.rows, !.need_wrap = FALSE, !.decom = FALSE,
                            !.decawm = TRUE, !.irm = FALSE,
                            !.tab_stop = DefaultTabs \cup BeyondReset(c)]
  <2>1. d.cols = c.cols /\ d.rows = c.rows
    BY DEF VcScreen
  <2>2. vte_ris(c) = vte_decsc(gotoxy(d, 0, 0))
    BY DEF vte_ris
  <2> HIDE DEF d
  <2> DEFINE g == gotoxy(d, 0, 0)
  <2>3. g.cols = d.cols /\ g.rows = d.rows
    BY DEF gotoxy
  <2> HIDE DEF g
  <2>4. vte_decsc(g).cols = g.cols /\ vte_decsc(g).rows = g.rows
    BY DEF vte_decsc
  <2> QED BY <2>1, <2>2, <2>3, <2>4 DEF SameSize, g
<1>2. SameSize(c, vte_decsc(c))
  BY DEF vte_decsc, SameSize, VcScreen
<1> QED BY <1>1, <1>2 DEF SameSize, VcScreen

(* The lines a step may change when it does not insert or delete lines.     *)
Region(c) == c.top .. c.bottom - 1

KeepStep ==
  /\ SameSize(s, s')
  /\ Edits(s, text, text', Region(s) \cup {s.y, s'.y})

(* More lines may change than do.                                           *)
LEMMA EditsMore ==
  ASSUME NEW c, NEW m, NEW q, NEW A, NEW B, Edits(c, m, q, A), A \subseteq B
  PROVE  Edits(c, m, q, B)
  BY DEF Edits, KeptLines

(* One change and then another.                                             *)
LEMMA EditsTrans ==
  ASSUME NEW c, NEW m, NEW q, NEW p, NEW A, NEW B, Edits(c, m, q, A), Edits(c, q, p, B)
  PROVE  Edits(c, m, p, A \cup B)
  BY LinesTrans DEF Edits

(* The same, on a screen of the same size.                                  *)
LEMMA EditsOfSize ==
  ASSUME NEW c, NEW d, SameSize(c, d), NEW m, NEW q, NEW A
  PROVE  /\ Texts(d) = Texts(c)
         /\ Edits(d, m, q, A) => Edits(c, m, q, A)
<1>1. Texts(d) = Texts(c)
  BY DEF SameSize, Texts, Buffer
<1> QED BY <1>1, LinesOfSize DEF Edits

(* A step that leaves the text alone.                                       *)
LEMMA PlainStep ==
  ASSUME SameSize(s, s'), text' = text, text \in Texts(s) PROVE KeepStep
  BY NoEdit DEF KeepStep

(* The line feed before a character, and the text it leaves.                *)
LEMMA WrappedEdits ==
  ASSUME NEW c, Good(c), NEW m \in Texts(c)
  PROVE  /\ Good(Wrapped(c)) /\ SameRegion(c, Wrapped(c))
         /\ Edits(c, m, Wrapped_text(c, m), Region(c))
<1>1. CASE ~c.need_wrap
  BY <1>1, NoEdit DEF Wrapped, Wrapped_text, SameRegion, SameSize
<1>2. CASE c.need_wrap
  <2> DEFINE d == vte_cr(c)
  <2>1. Good(d) /\ SameRegion(c, d) /\ c \in VcScreen
    BY CrGood, MovesKeepRegion DEF Good, Shape
  <2>2. Wrapped(c) = vte_lf(d) /\ Wrapped_text(c, m) = vte_lf_text(d, m)
    BY <1>2 DEF Wrapped, Wrapped_text
  <2> HIDE DEF d
  <2>3. Shape(d) /\ d \in VcScreen
    BY <2>1 DEF Good, Shape
  <2>4. Good(vte_lf(d)) /\ SameRegion(d, vte_lf(d))
    BY <2>1, <2>3, LfGood, MovesKeepRegion
  <2>5. m \in Texts(d) /\ SameSize(c, d)
    BY <2>1, EditsOfSize DEF SameRegion
  <2>6. Edits(d, m, vte_lf_text(d, m), d.top .. d.bottom - 1)
    BY <2>3, <2>5, FeedEdits
  <2>7. Edits(c, m, vte_lf_text(d, m), Region(c))
    BY <2>1, <2>5, <2>6, EditsOfSize DEF SameRegion, Region
  <2>8. SameRegion(c, vte_lf(d))
    BY <2>1, <2>4 DEF SameRegion, SameSize
  <2> QED BY <2>2, <2>4, <2>7, <2>8
<1> QED BY <1>1, <1>2

(* A character: the wrap, the insertion and the character itself.           *)
LEMMA WriteKeeps ==
  ASSUME Inv, text \in Texts(s), NEW ch \in Cell, do_con_write(ch) PROVE KeepStep
<1> DEFINE c == Wrapped(s)
           m == Wrapped_text(s, text)
           n == IF c.irm THEN insert_char(c, m, 1) ELSE m
           q == [n EXCEPT ![c.pos] = ch]
<1>1. s' = Advance(c) /\ text' = q /\ Good(s)
  BY QuietState DEF do_con_write, Do
<1>2. Good(c) /\ SameRegion(s, c) /\ Edits(s, text, m, Region(s))
  BY <1>1, WrappedEdits
<1> HIDE DEF c, m
<1>3. /\ Shape(c) /\ c \in VcScreen /\ c.y < c.rows /\ c.cols \in Nat /\ c.x \in Nat /\ c.x < c.cols
      /\ c.pos = c.y * c.cols + c.x
  BY <1>2, GoodFields DEF Good, Shape
<1>4. SameSize(s, c) /\ m \in Texts(c)
  BY <1>2, EditsOfSize DEF SameRegion, Edits
<1>5. Edits(c, m, n, {c.y})
  <2>1. 1 \in 0 .. c.cols - c.x
    BY <1>3
  <2> QED BY <1>2, <1>4, <2>1, InsertEdits, NoEdit
<1> HIDE DEF n
<1>6. n \in Texts(c) /\ c.x \in 0 .. c.cols - 1
  BY <1>3, <1>5 DEF Edits
<1>7. Edits(c, n, q, {c.y})
  BY <1>3, <1>6, StoreEdits
<1> HIDE DEF q
<1>8. Edits(s, m, n, {c.y}) /\ Edits(s, n, q, {c.y})
  BY <1>4, <1>5, <1>7, EditsOfSize
<1>9. Edits(s, text, q, (Region(s) \cup {c.y}) \cup {c.y})
  BY <1>2, <1>8, EditsTrans
<1>10. SameRegion(c, s') /\ s'.y = c.y
  BY <1>1, <1>3, MovesKeepRegion
<1>11. SameSize(s, s')
  BY <1>4, <1>10 DEF SameRegion, SameSize
<1>12. Edits(s, text, text', Region(s) \cup {s.y, s'.y})
  <2>1. (Region(s) \cup {c.y}) \cup {c.y} \subseteq Region(s) \cup {s.y, s'.y}
    BY <1>10
  <2> QED BY <1>1, <1>9, <2>1, EditsMore
<1> QED BY <1>11, <1>12 DEF KeepStep

(* A step that feeds a line, from a screen d that differs from s in the     *)
(* column at most.                                                          *)
LEMMA FeedStep ==
  ASSUME NEW d, Shape(d), SameRegion(s, d), SameSize(s, s'), text \in Texts(s),
         text' = vte_lf_text(d, text) \/ text' = vte_ri_text(d, text)
  PROVE  KeepStep
<1>1. SameSize(s, d) /\ text \in Texts(d)
  BY EditsOfSize DEF SameRegion
<1>2. Edits(d, text, text', d.top .. d.bottom - 1)
  BY <1>1, FeedEdits
<1>3. Edits(s, text, text', Region(s))
  BY <1>1, <1>2, EditsOfSize DEF SameRegion, Region
<1> QED BY <1>3, EditsMore DEF KeepStep

-----------------------------------------------------------------------------
(* A step that may rewrite everything, without a change of the size.        *)
RewriteStep == SameSize(s, s') /\ text' \in Texts(s)

(* Erasing leaves a text, wherever it begins and ends.                      *)
LEMMA EraseText ==
  ASSUME NEW c, Shape(c), NEW m \in Texts(c), NEW from \in Int, NEW n \in Int
  PROVE  memsetw(m, from, n) \in Texts(c)
<1>1. c.rows * c.cols \in Nat
  BY Fields, ProductIsNat
<1>2. from + n \in Int /\ from <= from /\ from + n <= from + n
  OBVIOUS
<1> QED BY <1>1, <1>2, SetWithin

(* Characters of control: only the reset and the alignment pattern rewrite. *)
LEMMA ControlKeeps ==
  ASSUME Inv, text \in Texts(s), Control
  PROVE  KeepStep \/ (RewriteStep /\ (RIS \/ DECALN))
<1>0. ~prt.on
  BY DEF Control, BS, CR, LF, NEL, RI, HT, HTS, DECSC, DECRC, RIS, DECALN, Do
<1>1. Good(s) /\ Shape(s) /\ s \in VcScreen
  BY <1>0, QuietState DEF Shape
<1>2. CASE BS \/ CR \/ HT \/ DECRC
  <2>1. SameRegion(s, s') /\ text' = text
    BY <1>1, <1>2, MovesKeepRegion DEF BS, CR, HT, DECRC, vte_decrc, Do
  <2> QED BY <2>1, PlainStep DEF SameRegion
<1>3. CASE HTS \/ DECSC
  <2>1. SameSize(s, s') /\ text' = text
    BY <1>1, <1>3, FlagsKeepSize DEF HTS, DECSC, Do
  <2> QED BY <2>1, PlainStep
<1>4. CASE LF \/ RI
  <2>1. SameRegion(s, s') /\ SameRegion(s, s)
    BY <1>1, <1>4, MovesKeepRegion DEF LF, RI, Do, SameRegion, SameSize
  <2>2. text' = vte_lf_text(s, text) \/ text' = vte_ri_text(s, text)
    BY <1>4 DEF LF, RI, Do
  <2> QED BY <1>1, <2>1, <2>2, FeedStep DEF SameRegion
<1>5. CASE NEL
  <2> DEFINE d == vte_cr(s)
  <2>1. Shape(d) /\ SameRegion(s, d) /\ s' = vte_lf(d) /\ text' = vte_lf_text(d, text)
    BY <1>1, <1>5, CrGood, MovesKeepRegion DEF NEL, Do, Good
  <2> HIDE DEF d
  <2>2. SameRegion(d, s')
    BY <2>1, MovesKeepRegion DEF Shape
  <2>3. SameSize(s, s')
    BY <2>1, <2>2 DEF SameRegion, SameSize
  <2> QED BY <2>1, <2>3, FeedStep
<1>6. CASE RIS
  <2>1. SameSize(s, s') /\ text' = memsetw(text, 0, s.rows * s.cols)
    BY <1>1, <1>6, FlagsKeepSize DEF RIS, Do
  <2>2. s.rows * s.cols \in Nat
    BY <1>1, Fields, ProductIsNat
  <2>3. s.rows * s.cols \in Int /\ 0 \in Int
    BY <2>2
  <2>4. text' \in Texts(s)
    BY <1>1, <2>1, <2>3, EraseText
  <2> QED BY <1>6, <2>1, <2>4 DEF RewriteStep
<1>7. CASE DECALN
  <2>1. SameSize(s, s') /\ text' = [i \in DOMAIN text |-> Glyph]
    BY <1>1, <1>7, FlagsKeepSize DEF DECALN, Do
  <2>2. text' \in Texts(s)
    BY <2>1 DEF Texts, Cell
  <2> QED BY <1>7, <2>1, <2>2 DEF RewriteStep
<1> QED BY <1>2, <1>3, <1>4, <1>5, <1>6, <1>7 DEF Control

(* Insertion and deletion of lines, which start at the cursor.              *)
LinesStep == SameSize(s, s') /\ Edits(s, text, text', s.y .. s.bottom - 1)

(* Sequences with one parameter: erasing in the display rewrites.           *)
LEMMA SequenceKeeps ==
  ASSUME Inv, text \in Texts(s), NEW n \in Params, Sequence(n)
  PROVE  \/ KeepStep
         \/ LinesStep /\ (vte_il(n) \/ vte_dl(n))
         \/ RewriteStep /\ vte_ed(n)
<1>0. ~prt.on
  BY DEF Sequence, CUU, CUD, CUF, CUB, CNL, CPL, CHA, VPA, CHT, CBT, CVT, TBC, vte_ed, vte_el,
         vte_ech, vte_ich, vte_dch, vte_il, vte_dl, Erase, Edit, Do, Start
<1>1. Good(s) /\ Shape(s) /\ s \in VcScreen
  BY <1>0, QuietState DEF Shape
<1>2. CASE CUU(n) \/ CUD(n) \/ CUF(n) \/ CUB(n) \/ CNL(n) \/ CPL(n) \/ CHA(n) \/ VPA(n)
  <2>1. \E a, b : s' = gotoxy(s, a, b) \/ s' = gotoxay(s, a, b)
    BY <1>2 DEF CUU, CUD, CUF, CUB, CNL, CPL, CHA, VPA, Do
  <2>2. text' = text
    BY <1>2 DEF CUU, CUD, CUF, CUB, CNL, CPL, CHA, VPA, Do
  <2>3. SameRegion(s, s')
    BY <1>1, <2>1, MovesKeepRegion
  <2> QED BY <2>2, <2>3, PlainStep DEF SameRegion
<1>3. CASE CHT(n) \/ CBT(n) \/ CVT(n)
  BY <1>3, PlainStep DEF CHT, CBT, CVT, Start, SameSize
<1>4. CASE TBC(n)
  <2>1. text' = text /\ \E tabs : s' = [s EXCEPT !.tab_stop = tabs]
    BY <1>4 DEF TBC, Do
  <2> QED BY <1>1, <2>1, FlagsKeepSize, PlainStep
<1>5. /\ s.y < s.rows /\ s.x \in Nat /\ s.y \in Nat /\ s.cols \in Nat /\ s.rows \in Nat
      /\ s.x < s.cols /\ s.pos = s.y * s.cols + s.x /\ s.y * s.cols \in Nat /\ s.bottom \in Nat
  BY <1>1, GoodFields
<1>6. SameSize(s, [s EXCEPT !.need_wrap = FALSE])
  BY <1>1, FlagsKeepSize
<1> DEFINE k == AtMost(AtLeastOne(n), s.cols - s.x)
<1>7. k \in 0 .. s.cols - s.x
  BY <1>5, ParamNat DEF AtMost
<1> HIDE DEF k
<1>8. ASSUME s' = [s EXCEPT !.need_wrap = FALSE], Edits(s, text, text', {s.y}) PROVE KeepStep
  BY <1>6, <1>8, EditsMore DEF KeepStep
<1>9. CASE vte_el(n) \/ vte_ech(n)
  <2>1. /\ s' = [s EXCEPT !.need_wrap = FALSE]
        /\ \/ text' = memsetw(text, s.pos, s.cols - s.x)
           \/ text' = memsetw(text, s.pos - s.x, s.x + 1)
           \/ text' = memsetw(text, s.pos - s.x, s.cols)
           \/ text' = memsetw(text, s.pos, k)
    BY <1>9 DEF vte_el, vte_ech, Erase, Do, k
  <2>2. \E from, m \in Int :
          /\ text' = memsetw(text, from, m)
          /\ s.y * s.cols <= from /\ from + m <= s.y * s.cols + s.cols
    <3>1. /\ s.pos \in Int /\ s.pos - s.x \in Int /\ s.cols - s.x \in Int /\ s.x + 1 \in Int
          /\ s.cols \in Int /\ k \in Int
          /\ s.y * s.cols <= s.pos /\ s.y * s.cols <= s.pos - s.x
          /\ s.pos + (s.cols - s.x) <= s.y * s.cols + s.cols
          /\ s.pos - s.x + (s.x + 1) <= s.y * s.cols + s.cols
          /\ s.pos - s.x + s.cols <= s.y * s.cols + s.cols
          /\ s.pos + k <= s.y * s.cols + s.cols
      BY <1>5, <1>7
    <3> QED BY <2>1, <3>1
  <2>3. Edits(s, text, text', {s.y})
    BY <1>1, <1>5, <2>2, EraseEdits
  <2> QED BY <1>8, <2>1, <2>3
<1>10. CASE vte_ich(n) \/ vte_dch(n)
  <2>1. /\ s' = [s EXCEPT !.need_wrap = FALSE]
        /\ text' = insert_char(s, text, k) \/ text' = delete_char(s, text, k)
    BY <1>10 DEF vte_ich, vte_dch, Edit, Do, k
  <2>2. Edits(s, text, text', {s.y})
    BY <1>1, <1>7, <2>1, InsertEdits
  <2> QED BY <1>8, <2>1, <2>2
<1>11. CASE vte_il(n) \/ vte_dl(n)
  <2> DEFINE j == AtMost(AtLeastOne(n), s.rows - s.y)
  <2>1. /\ s' = [s EXCEPT !.need_wrap = FALSE]
        /\ \/ text' = scroll_region_down(s, text, s.y, s.bottom, j)
           \/ text' = scroll_region_up(s, text, s.y, s.bottom, j)
    BY <1>11 DEF vte_il, vte_dl, Edit, Do
  <2>2. j \in Int
    BY <1>5, ParamNat DEF AtMost
  <2> HIDE DEF j
  <2>3. Edits(s, text, text', s.y .. s.bottom - 1)
    BY <1>1, <1>5, <2>1, <2>2, ScrollUpEdits, ScrollDownEdits
  <2> QED BY <1>6, <1>11, <2>1, <2>3 DEF LinesStep
<1>12. CASE vte_ed(n)
  <2>1. /\ s' = [s EXCEPT !.need_wrap = FALSE]
        /\ \/ text' = memsetw(text, s.pos, s.rows * s.cols - s.pos)
           \/ text' = memsetw(text, 0, s.pos + 1)
           \/ text' = memsetw(text, 0, s.rows * s.cols)
    BY <1>12 DEF vte_ed, Erase, Do
  <2> DEFINE R == s.rows * s.cols
  <2>2. R \in Nat /\ s.y * s.cols + s.cols <= R
    BY <1>1, <1>5, LinePlaces
  <2>3. \E from, m \in Int : text' = memsetw(text, from, m)
    <3>1. s.pos \in Int /\ R - s.pos \in Int /\ s.pos + 1 \in Int /\ R \in Int /\ 0 \in Int
      BY <1>5, <2>2
    <3> QED BY <2>1, <3>1
  <2>4. text' \in Texts(s)
    BY <1>1, <2>3, EraseText
  <2> QED BY <1>6, <1>12, <2>1, <2>4 DEF RewriteStep
<1> QED BY <1>2, <1>3, <1>4, <1>9, <1>10, <1>11, <1>12 DEF Sequence

(* Sequences with two parameters move the cursor.                           *)
LEMMA PairKeeps ==
  ASSUME Inv, text \in Texts(s), NEW n \in Params, NEW k \in Params,
         CUP(n, k) \/ DECSTBM(n, k) \/ putconsxy(n, k)
  PROVE  KeepStep
<1>0. ~prt.on /\ text' = text
  BY DEF CUP, DECSTBM, putconsxy, Do
<1>1. s \in VcScreen /\ s.rows \in Nat
  BY <1>0, QuietState DEF Shape
<1>2. CASE CUP(n, k) \/ putconsxy(n, k)
  <2>1. SameRegion(s, s')
    BY <1>1, <1>2, MovesKeepRegion DEF CUP, putconsxy, Do
  <2> QED BY <1>0, <2>1, PlainStep DEF SameRegion
<1>3. CASE DECSTBM(n, k)
  <2> DEFINE t == AtLeastOne(n) - 1
             b == IF k = 0 THEN s.rows ELSE k
             c == [s EXCEPT !.top = t, !.bottom = b]
  <2>1. s' = gotoxay(c, 0, 0)
    BY <1>3 DEF DECSTBM, Do
  <2>2. t \in Nat /\ b \in Nat
    BY <1>1, ParamNat
  <2> HIDE DEF t, b
  <2>3. c \in VcScreen /\ SameSize(s, c)
    BY <1>1, <2>2 DEF VcScreen, SameSize
  <2> HIDE DEF c
  <2>4. SameSize(s, s')
    BY <2>1, <2>3, MovesKeepRegion DEF SameRegion, SameSize
  <2> QED BY <1>0, <2>4, PlainStep
<1> QED BY <1>2, <1>3

(* Modes.                                                                   *)
LEMMA ModeKeeps == ASSUME Inv, text \in Texts(s), NEW on \in BOOLEAN, set_mode(on) PROVE KeepStep
<1>0. ~prt.on /\ text' = text
  BY DEF set_mode, Do
<1>1. s \in VcScreen
  BY <1>0, QuietState DEF Shape
<1>2. CASE s' = gotoxay([s EXCEPT !.decom = on], 0, 0)
  <2> DEFINE c == [s EXCEPT !.decom = on]
  <2>1. c \in VcScreen /\ SameSize(s, c)
    BY <1>1, FlagsKeepSize DEF VcScreen
  <2>2. s' = gotoxay(c, 0, 0)
    BY <1>2
  <2> HIDE DEF c
  <2>3. SameSize(s, s')
    BY <2>1, <2>2, MovesKeepRegion DEF SameRegion, SameSize
  <2> QED BY <1>0, <2>3, PlainStep
<1>3. CASE s' = [s EXCEPT !.decawm = on] \/ s' = [s EXCEPT !.irm = on]
  BY <1>0, <1>1, <1>3, FlagsKeepSize, PlainStep
<1> QED BY <1>2, <1>3 DEF set_mode, Do

(* Loops.                                                                   *)
LEMMA LoopKeeps == ASSUME Inv, text \in Texts(s), LoopStep, ~prt.on PROVE KeepStep
<1>1. Shape(s) /\ s \in VcScreen
  BY QuietState DEF Shape
<1>2. CASE text' = text /\ \E j \in 0 .. s.cols - 1 : s' = TabTo(s, j)
  <2>1. SameRegion(s, s')
    BY <1>1, <1>2, MovesKeepRegion
  <2> QED BY <1>2, <2>1, PlainStep DEF SameRegion
<1>3. CASE s' = vte_lf(s) /\ text' = vte_lf_text(s, text)
  <2>1. SameRegion(s, s') /\ SameRegion(s, s)
    BY <1>1, <1>3, MovesKeepRegion DEF SameRegion, SameSize
  <2> QED BY <1>1, <1>3, <2>1, FeedStep DEF SameRegion
<1> QED BY <1>2, <1>3 DEF LoopStep

-----------------------------------------------------------------------------
(* vc_resize copies rows that the old buffer has.                           *)
LEMMA ResizeTexts ==
  ASSUME Inv, text \in Texts(s), NEW size \in Sizes, vc_resize(size) PROVE text' \in Texts(s')
<1> DEFINE c == [s EXCEPT !.cols = size[1], !.rows = size[2], !.top = 0, !.bottom = size[2]]
           skip == IF size[2] < s.rows THEN s.rows - size[2] ELSE 0
<1>0. ~prt.on /\ s' = vte_decsc(gotoxy(c, s.x, s.y)) /\ text' = Resized_text(s, text, size)
  BY DEF vc_resize, Do
<1>1. Shape(s) /\ s.cols \in Nat /\ s.rows \in Nat /\ s.x \in Int /\ s.y \in Int
  BY <1>0, QuietState
<1>2. size[1] \in Nat /\ size[1] > 0 /\ size[2] \in Nat /\ size[2] > 0
  BY SizesAssumption, TabAssumption DEF TabWords
<1>3. Shape(c)
  BY <1>1, <1>2, ResizeShape
<1>9. c.cols = size[1] /\ c.rows = size[2]
  BY <1>1 DEF Shape, VcScreen
<1> HIDE DEF c
<1>4. SameSize(c, s')
  <2>1. Good(gotoxy(c, s.x, s.y)) /\ SameSize(c, gotoxy(c, s.x, s.y))
    BY <1>1, <1>3, GotoxyGood, MovesKeepRegion DEF Shape, SameRegion
  <2>2. SameSize(gotoxy(c, s.x, s.y), s')
    BY <1>0, <2>1, FlagsKeepSize DEF Good, Shape
  <2> QED BY <2>1, <2>2 DEF SameSize
<1>5. Texts(s') = [0 .. size[2] * size[1] - 1 -> Cell]
  BY <1>9, <1>4 DEF SameSize, Texts, Buffer
<1>6. skip \in Nat
  BY <1>1, <1>2
<1> DEFINE cell(i) == IF i \div size[1] + skip < s.rows /\ i % size[1] < s.cols
                      THEN text[(i \div size[1] + skip) * s.cols + (i % size[1])] ELSE Blank
<1>7. text' = [i \in 0 .. size[2] * size[1] - 1 |-> cell(i)]
  BY <1>0 DEF Resized_text
<1>8. ASSUME NEW i \in 0 .. size[2] * size[1] - 1 PROVE cell(i) \in Cell
  <2> DEFINE r == i \div size[1] + skip
             k == i % size[1]
  <2>1. r \in Nat /\ k \in Nat
    BY <1>2, <1>6
  <2>2. cell(i) = IF r < s.rows /\ k < s.cols THEN text[r * s.cols + k] ELSE Blank
    OBVIOUS
  <2> HIDE DEF r, k, cell
  <2>3. CASE r < s.rows /\ k < s.cols
    <3>1. r \in 0 .. s.rows - 1 /\ k \in 0 .. s.cols - 1
      BY <1>1, <2>1, <2>3
    <3>2. r * s.cols + k \in Buffer(s)
      BY <1>1, <3>1, CellPlace DEF Buffer
    <3> QED BY <2>2, <2>3, <3>2 DEF Texts
  <2>4. CASE ~(r < s.rows /\ k < s.cols)
    BY <2>2, <2>4 DEF Cell
  <2> QED BY <2>3, <2>4
<1> HIDE DEF cell
<1> QED BY <1>5, <1>7, <1>8

(* A character of a kernel message, on the screen c that a line feed left.  *)
LEMMA PrintedKeeps ==
  ASSUME NEW c, Shape(c), c.y < c.rows, SameRegion(s, c), NEW m, Edits(s, text, m, Region(s)),
         NEW cnt, NEW myx \in 0 .. c.cols - 1, c.pos = c.y * c.cols + myx, Printed(c, m, cnt, myx)
  PROVE  KeepStep
<1> DEFINE q == [m EXCEPT ![c.pos] = Glyph]
<1>1. c \in VcScreen /\ SameSize(s, c) /\ m \in Texts(c) /\ Glyph \in Cell
  BY EditsOfSize DEF Shape, SameRegion, Edits, Cell
<1>2. Edits(c, m, q, {c.y})
  BY <1>1, StoreEdits
<1>3. text' = q
  BY DEF Printed
<1> HIDE DEF q
<1>4. Edits(s, m, q, {c.y})
  BY <1>1, <1>2, EditsOfSize
<1>5. Edits(s, text, q, Region(s) \cup {c.y})
  BY <1>4, EditsTrans
<1>6. s' = [c EXCEPT !.need_wrap = TRUE] \/ s' = [c EXCEPT !.pos = c.pos + 1]
  BY DEF Printed
<1>7. s'.cols = c.cols /\ s'.rows = c.rows /\ s'.y = c.y
  BY <1>1, <1>6 DEF VcScreen
<1>8. SameSize(s, s')
  BY <1>1, <1>7 DEF SameSize
<1>9. Edits(s, text, text', Region(s) \cup {s.y, s'.y})
  BY <1>3, <1>5, <1>7, EditsMore
<1> QED BY <1>8, <1>9 DEF KeepStep

(* Catching up moves the cursor within its line.                            *)
LEMMA CaughtUpRegion == ASSUME s \in VcScreen PROVE SameRegion(s, CaughtUp)
  BY DEF CaughtUp, SameRegion, SameSize, VcScreen

(* Kernel messages scroll the region and write where the cursor is.         *)
LEMMA PrintkKeeps == ASSUME Inv, text \in Texts(s), Printk PROVE KeepStep
<1>0. Shape(s) /\ s \in VcScreen /\ OnScreen(s) /\ SameSize(s, s) /\ SameRegion(s, s)
  BY DEF Inv, Shape, SameSize, SameRegion
<1>1. CASE PrintkStart
  BY <1>0, <1>1, PlainStep DEF PrintkStart
<1>2. CASE PrintkEnd
  <2>1. text' = text /\ ((\E v : s' = [s EXCEPT !.x = v])
                            \/ \E v : s' = [s EXCEPT !.x = v, !.need_wrap = TRUE])
    BY <1>2 DEF PrintkEnd
  <2>2. SameSize(s, s')
    BY <1>0, <2>1 DEF SameSize, VcScreen
  <2> QED BY <2>1, <2>2, PlainStep
<1>3. CASE PrintkChar
  <2>1. CASE Printed(s, text, prt.cnt, prt.myx)
    <3>1. /\ s.y < s.rows /\ s.cols \in Nat /\ prt.myx \in Nat /\ prt.myx < s.cols
          /\ s.pos = s.y * s.cols + prt.myx
      BY <1>0, <1>3, Fields DEF PrintkChar, Inv, Lagging, OnScreen
    <3>2. prt.myx \in 0 .. s.cols - 1
      BY <3>1
    <3>3. Edits(s, text, text, Region(s))
      BY NoEdit
    <3> QED BY <1>0, <2>1, <3>1, <3>2, <3>3, PrintedKeeps
  <2>2. CASE Printed(vte_cr(vte_lf(CaughtUp)), vte_lf_text(CaughtUp, text), 0, 0)
    <3> DEFINE e == CaughtUp
               d == vte_lf(e)
               c == vte_cr(d)
               m == vte_lf_text(e, text)
    <3>1. Good(e) /\ SameRegion(s, e)
      BY <1>0, <1>3, CaughtUpGood, CaughtUpRegion DEF PrintkChar
    <3> HIDE DEF e
    <3>2. Shape(e) /\ e \in VcScreen /\ SameSize(s, e) /\ text \in Texts(e)
      BY <3>1, EditsOfSize DEF Good, Shape, SameRegion
    <3>3. Good(d) /\ SameRegion(e, d)
      BY <3>1, <3>2, LfGood, MovesKeepRegion
    <3>4. Edits(e, text, m, e.top .. e.bottom - 1)
      BY <3>2, FeedEdits
    <3>5. Edits(s, text, m, Region(s))
      BY <3>1, <3>2, <3>4, EditsOfSize DEF SameRegion, Region
    <3> HIDE DEF d, m
    <3>6. Good(c) /\ c.x = 0 /\ SameRegion(d, c)
      BY <3>3, CrGood, MovesKeepRegion DEF Good, Shape
    <3> HIDE DEF c
    <3>7. SameRegion(s, c)
      BY <3>1, <3>3, <3>6 DEF SameRegion, SameSize
    <3>8. Shape(c) /\ c.y < c.rows /\ c.pos = c.y * c.cols + 0 /\ 0 \in 0 .. c.cols - 1
      BY <3>6, GoodFields DEF Good
    <3>9. Printed(c, m, 0, 0)
      BY <2>2 DEF c, d, e, m
    <3> QED BY <3>5, <3>7, <3>8, <3>9, PrintedKeeps
  <2> QED BY <1>3, <2>1, <2>2 DEF PrintkChar
<1>4. ASSUME NEW ctl \in {"bs", "cr", "nl"}, PrintkControl(ctl) PROVE KeepStep
  <2> DEFINE e == CaughtUp
  <2>1. Good(e) /\ SameRegion(s, e)
    BY <1>0, <1>4, CaughtUpGood, CaughtUpRegion DEF PrintkControl
  <2>2. \/ s' = vte_bs(e) /\ text' = text
        \/ s' = vte_cr(e) /\ text' = text
        \/ s' = vte_cr(vte_lf(e)) /\ text' = vte_lf_text(e, text)
    BY <1>4 DEF PrintkControl
  <2> HIDE DEF e
  <2>3. Shape(e) /\ e \in VcScreen
    BY <2>1 DEF Good, Shape
  <2>4. Good(vte_lf(e)) /\ SameRegion(e, vte_lf(e)) /\ SameRegion(vte_lf(e), vte_cr(vte_lf(e)))
    BY <2>1, <2>3, LfGood, MovesKeepRegion DEF Good, Shape
  <2>5. SameRegion(e, vte_bs(e)) /\ SameRegion(e, vte_cr(e))
    BY <2>3, MovesKeepRegion
  <2>6. SameSize(s, s')
    BY <2>1, <2>2, <2>4, <2>5 DEF SameRegion, SameSize
  <2> QED BY <2>1, <2>2, <2>3, <2>6, PlainStep, FeedStep
<1> QED BY <1>1, <1>2, <1>3, <1>4 DEF Printk

-----------------------------------------------------------------------------
(* What a step of the screen does to the text.                              *)
TextStep ==
  \/ KeepStep
  \/ LinesStep /\ \E n \in Params : vte_il(n) \/ vte_dl(n)
  \/ RewriteStep /\ (RIS \/ DECALN \/ \E n \in Params : vte_ed(n))
  \/ text' \in Texts(s') /\ \E size \in Sizes : vc_resize(size)

(* Every step is one of these.                                              *)
LEMMA NextText == ASSUME Inv, Exclusive, text \in Texts(s), Next PROVE TextStep
<1>1. ASSUME NEW ch \in Cell, do_con_write(ch) PROVE TextStep
  BY <1>1, WriteKeeps DEF TextStep
<1>2. CASE Control
  BY <1>2, ControlKeeps DEF TextStep
<1>3. ASSUME NEW n \in Params, Sequence(n) PROVE TextStep
  BY <1>3, SequenceKeeps DEF TextStep
<1>4. ASSUME NEW n \in Params, NEW k \in Params, CUP(n, k) \/ DECSTBM(n, k) \/ putconsxy(n, k)
      PROVE  TextStep
  BY <1>4, PairKeeps DEF TextStep
<1>5. ASSUME NEW on \in BOOLEAN, set_mode(on) PROVE TextStep
  BY <1>5, ModeKeeps DEF TextStep
<1>6. CASE LoopStep
  <2>1. ~prt.on
    BY <1>6 DEF LoopStep, Exclusive
  <2> QED BY <1>6, <2>1, LoopKeeps DEF TextStep
<1>7. ASSUME NEW size \in Sizes, vc_resize(size) PROVE TextStep
  BY <1>7, ResizeTexts DEF TextStep
<1>8. CASE Printk
  BY <1>8, PrintkKeeps DEF TextStep
<1> QED BY <1>1, <1>2, <1>3, <1>4, <1>5, <1>6, <1>7, <1>8 DEF Next

(* Whatever it does, the buffer has one character for every place.          *)
LEMMA TextsStep == ASSUME Inv, Exclusive, text \in Texts(s), [Next]_vars PROVE text' \in Texts(s')
<1>1. CASE UNCHANGED vars
  BY <1>1 DEF vars, Texts, Buffer
<1>2. CASE Next
  <2>1. ASSUME SameSize(s, s'), text' \in Texts(s) PROVE text' \in Texts(s')
    BY <2>1, EditsOfSize
  <2>2. TextStep
    BY <1>2, NextText
  <2> QED BY <2>1, <2>2 DEF TextStep, KeepStep, LinesStep, RewriteStep, Edits
<1> QED BY <1>1, <1>2

(* The loops have something left, and the locals of a kernel message are    *)
(* numbers.                                                                 *)
LoopBodies == {"none", "vte_cht", "vte_cbt", "vte_cvt"}
Locals ==
  /\ loop = Idle \/ loop \in [body : LoopBodies, left : Nat \ {0}]
  /\ prt \in [on : BOOLEAN, cnt : Nat, myx : Nat]

(* A loop that starts has at least one round.                               *)
LEMMA StartLocals ==
  ASSUME Locals, NEW body \in LoopBodies, NEW n \in Int, Start(body, n) PROVE Locals'
<1>1. loop' = [body |-> body, left |-> n] /\ n \in Nat \ {0} /\ prt' = prt
  BY DEF Start
<1> QED BY <1>1 DEF Locals

(* No step takes them out of their types.                                   *)
LEMMA LocalsStep == ASSUME Inv, Inv', Locals, [Next]_vars PROVE Locals'
<1>0. ASSUME UNCHANGED <<loop, prt>> PROVE Locals'
  BY <1>0 DEF Locals
<1>1. CASE UNCHANGED vars
  BY <1>0, <1>1 DEF vars
<1>2. ASSUME NEW n \in Params, CHT(n) \/ CBT(n) \/ CVT(n) PROVE Locals'
  <2>1. n \in Int /\ AtLeastOne(n) \in Int
    BY ParamNat
  <2>2. ToInt(n) \in Int /\ ToInt(AtLeastOne(n)) \in Int
    BY <2>1, ToIntIsInt
  <2>3. "vte_cht" \in LoopBodies /\ "vte_cbt" \in LoopBodies /\ "vte_cvt" \in LoopBodies
    BY DEF LoopBodies
  <2> QED BY <1>2, <2>2, <2>3, StartLocals DEF CHT, CBT, CVT
<1>3. CASE LoopStep
  <2>1. loop \in [body : LoopBodies, left : Nat \ {0}] /\ prt' = prt
    BY <1>3 DEF LoopStep, Locals
  <2>2. CASE loop.left = 1
    BY <1>3, <2>1, <2>2 DEF LoopStep, Locals
  <2>3. CASE loop.left # 1
    <3>1. loop.left - 1 \in Nat \ {0}
      BY <2>1, <2>3
    <3>2. loop' = [loop EXCEPT !.left = loop.left - 1]
      BY <1>3, <2>3 DEF LoopStep
    <3>3. loop' \in [body : LoopBodies, left : Nat \ {0}]
      BY <2>1, <3>1, <3>2
    <3> QED BY <2>1, <3>3 DEF Locals
  <2> QED BY <2>2, <2>3
<1>4. CASE Printk
  <2>1. loop' = loop
    BY <1>4 DEF Printk, PrintkStart, PrintkChar, PrintkControl, PrintkEnd
  <2>2. s.x \in Nat /\ s'.x \in Nat
    BY Fields DEF Inv
  <2>3. prt.on => prt.cnt \in Nat /\ prt.myx \in Nat
    BY DEF Inv, Lagging
  <2>4. prt' \in [on : BOOLEAN, cnt : Nat, myx : Nat]
    <3>1. CASE PrintkStart
      BY <2>2, <3>1 DEF PrintkStart
    <3>2. CASE PrintkChar
      <4>1. ASSUME NEW c, NEW m, NEW cnt \in Nat, NEW myx \in Nat, Printed(c, m, cnt, myx)
            PROVE  prt' \in [on : BOOLEAN, cnt : Nat, myx : Nat]
        <5> DEFINE j == IF myx = c.cols - 1 THEN myx ELSE myx + 1
        <5>1. j \in Nat
          OBVIOUS
        <5>2. prt' = [on |-> TRUE, cnt |-> cnt + 1, myx |-> j]
          BY <4>1 DEF Printed
        <5> HIDE DEF j
        <5> QED BY <5>1, <5>2
      <4>2. 0 \in Nat
        OBVIOUS
      <4> QED BY <2>3, <3>2, <4>1, <4>2 DEF PrintkChar
    <3>3. CASE PrintkEnd
      BY <3>3 DEF PrintkEnd, Silent
    <3>4. ASSUME NEW ctl, PrintkControl(ctl) PROVE prt' \in [on : BOOLEAN, cnt : Nat, myx : Nat]
      BY <2>2, <3>4 DEF PrintkControl
    <3> QED BY <1>4, <3>1, <3>2, <3>3, <3>4 DEF Printk
  <2> QED BY <2>1, <2>4 DEF Locals
<1>5. CASE Next /\ ~LoopStep /\ ~Printk /\ ~(\E n \in Params : CHT(n) \/ CBT(n) \/ CVT(n))
  <2>1. UNCHANGED <<loop, prt>>
    BY <1>5 DEF Next, do_con_write, Control, BS, CR, LF, NEL, RI, HT, HTS, DECSC, DECRC, RIS,
         DECALN, Sequence, CUU, CUD, CUF, CUB, CNL, CPL, CHA, VPA, TBC, vte_ed,
         vte_el, vte_ech, vte_ich, vte_dch, vte_il, vte_dl, Erase, Edit, CUP, DECSTBM,
         putconsxy, set_mode, vc_resize, Do
  <2> QED BY <1>0, <2>1
<1> QED BY <1>1, <1>2, <1>3, <1>4, <1>5

(* The inductive invariant with the text.                                   *)
ScreenInv == Inv /\ Exclusive /\ text \in Texts(s) /\ Locals

(* It holds of every behaviour.                                             *)
THEOREM ScreenAndText == Spec => []ScreenInv
<1>1. Init => ScreenInv
  <2> SUFFICES ASSUME Init PROVE ScreenInv
    OBVIOUS
  <2>1. Inv /\ Exclusive
    BY InitInv DEF Init, Exclusive, Silent
  <2>2. text \in Texts(s)
    BY DEF Init, Texts, Cell
  <2>3. Locals
    BY DEF Init, Locals, Silent
  <2> QED BY <2>1, <2>2, <2>3 DEF ScreenInv
<1>2. ScreenInv /\ [Next]_vars => ScreenInv'
  BY InvStep, ExclusiveStep, TextsStep, LocalsStep DEF ScreenInv
<1> QED BY <1>1, <1>2, PTL DEF Spec

(***************************************************************************)
(* Every variable keeps its type, and the buffer has one character for each *)
(* place of the screen: no function copies a character from outside of it,  *)
(* whatever its parameters and however often the screen is resized.         *)
(***************************************************************************)
THEOREM TextStaysWhole == Spec => []TypeOK
<1>1. ScreenInv => TypeOK
  <2> SUFFICES ASSUME ScreenInv PROVE TypeOK
    OBVIOUS
  <2>1. s \in VcScreen /\ text \in [Buffer(s) -> Cell]
    BY DEF ScreenInv, Inv, Shape, Texts
  <2>2. loop \in [body : {"none", "vte_cht", "vte_cbt", "vte_cvt"}, left : Nat]
    BY DEF ScreenInv, Locals, LoopBodies, Idle
  <2>3. prt \in [on : BOOLEAN, cnt : Nat, myx : Nat]
    BY DEF ScreenInv, Locals
  <2> QED BY <2>1, <2>2, <2>3 DEF TypeOK
<1> QED BY <1>1, ScreenAndText, PTL

(***************************************************************************)
(* A step changes the lines of the scrolling region and the cursor's, and   *)
(* those from the cursor to the end of the region when it inserts or        *)
(* deletes lines; only erasing in the display, resetting, the alignment     *)
(* pattern and resizing change others.                                      *)
(***************************************************************************)
THEOREM ScrollStaysConfined == Spec => ScrollConfined
<1> DEFINE Act == \/ KeptBut(s.top .. s.bottom - 1)
                  \/ KeptBut(s.y .. s.bottom - 1) /\ \E n \in Params : vte_il(n) \/ vte_dl(n)
                  \/ \E size \in Sizes : vc_resize(size)
                  \/ RIS \/ DECALN \/ \E n \in Params : vte_ed(n)
<1>1. ASSUME ScreenInv, Next PROVE Act
  <2>1. KeepStep => KeptBut(s.top .. s.bottom - 1)
    BY DEF KeepStep, Edits, KeptLines, KeptBut, SameSize, Region
  <2>2. LinesStep => KeptBut(s.y .. s.bottom - 1)
    BY DEF LinesStep, Edits, KeptLines, KeptBut, SameSize
  <2>3. TextStep
    BY <1>1, NextText DEF ScreenInv
  <2> QED BY <2>1, <2>2, <2>3 DEF TextStep
<1> HIDE DEF Act
<1>2. ScreenInv /\ [Next]_vars => [Act]_vars
  BY <1>1
<1> USE DEF Act
<1> QED BY <1>2, ScreenAndText, PTL DEF Spec, ScrollConfined
=============================================================================
