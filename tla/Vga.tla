-------------------------------- MODULE Vga --------------------------------
(***************************************************************************)
(* The text console on VGA hardware.  The text of the foreground console   *)
(* lies in video memory, at an origin that hardware scrolling moves; the   *)
(* text of every other console, and of the foreground console while        *)
(* graphics or a blanked screen own the memory, lies in its buffer.        *)
(*                                                                         *)
(* Source: drivers/video/console/vgacon.c, the callers in drivers/char/    *)
(* vt.c (set_origin, update_screen, do_blank_screen, unblank_vt,           *)
(* scroll_region_up and down) and vt_ioctl.c (switch_screen, con_set_cmap).*)
(*                                                                         *)
(* Memory is counted in rows; video memory comes first, and the buffers of *)
(* the consoles lie above it, each at the address BUF of its own.  A row   *)
(* is BLANK, GFX (a picture), OTHERS (memory of neither) or the console    *)
(* that wrote it.  Every action is one request under the console           *)
(* semaphore; the functions map a record of the whole state.               *)
(***************************************************************************)
EXTENDS Integers, FiniteSets

CONSTANTS
  Cons,          \* the consoles of the display, numbers
  Rows,          \* rows of a screen
  VramRows,      \* rows of video memory
  Margin,        \* rows of scrollback not worth showing; 4 in the code
  Palettes,      \* colour maps
  Uses,          \* what a behaviour is about: records of the requests in it (ops), the
                 \* adapter (type) and whether the intervals are set (interval, off)
  MaxWrites,     \* bound: rows written in a behaviour
  MaxFront       \* bound: rows in front of its buffer that a text is scrolled to

VARIABLES
  vga,
  lost           \* history: the consoles whose text was ever exposed, see Exposed

vgaVars == <<vga, lost>>

ASSUME VgaAssumption ==
  /\ Cons \subseteq Nat /\ \E c \in Cons : \A d \in Cons : c <= d
  /\ Rows \in Nat \ {0} /\ VramRows \in Nat /\ Rows <= VramRows /\ Margin \in Nat
  /\ Palettes # {} /\ MaxFront \in Nat

BUF == VramRows + MaxFront               \* the address of a console's buffer
BLANK == -1
GFX == -2
OTHERS == -3
Screen == 0 .. Rows - 1
FgCons == CHOOSE c \in Cons : \A d \in Cons : c <= d

(* type         vga_video_type: "VGAC" can load colours and suspend, "EGAC" *)
(* use          the requests of this behaviour                              *)
(* fg           fg_console                                                  *)
(* con[c]       mode (vc_mode), origin, visible and end (vc_origin,         *)
(*              vc_visible_origin, vc_scr_end), palette, buf (vc_screenbuf) *)
(* blanked, state, interval, off, blank_mode                                *)
(*              vt_blanked, blank_state, blank_interval, off_interval,      *)
(*              blank_mode                                                  *)
(* gfx, pal, vesa, rolled                                                   *)
(*              vga_is_gfx, vga_palette_blanked, vga_vesa_blanked,          *)
(*              vga_rolled_over                                             *)
(* vram, top, dac, reg                                                      *)
(*              the hardware: memory, start address, colours, sync registers*)
(* saved        vga_state                                                   *)
(* text[c]      history: the screen as the programs on console c wrote it   *)
(* writes       history                                                     *)
Normal == [clock |-> "text", vsync |-> "text", hsync |-> "text"]

BootScreen(use, pal) ==
  [type |-> use.type, use |-> use.ops, fg |-> FgCons,
   con |-> [c \in Cons |->
     [mode |-> "TEXT", palette |-> pal, buf |-> [y \in Screen |-> BLANK],
      origin |-> IF c = FgCons THEN 0 ELSE BUF, visible |-> IF c = FgCons THEN 0 ELSE BUF,
      end |-> IF c = FgCons THEN Rows ELSE BUF + Rows]],
   blanked |-> FALSE, state |-> IF use.interval THEN "normal_wait" ELSE "off",
   interval |-> use.interval, off |-> use.off, blank_mode |-> 0,
   gfx |-> FALSE, pal |-> FALSE, vesa |-> 0, rolled |-> 0,
   vram |-> [r \in 0 .. VramRows - 1 |-> BLANK], top |-> 0, dac |-> pal,
   reg |-> Normal, saved |-> Normal,
   text |-> [c \in Cons |-> [y \in Screen |-> BLANK]], writes |-> 0]

VgaInit ==
  /\ vga \in {BootScreen(use, CHOOSE pal \in Palettes : TRUE) : use \in Uses}
  /\ lost = {}

(***************************************************************************)
(* The rows of a console, wherever they are.  What is written in front of a *)
(* buffer falls to others, and is not kept.                                *)
(***************************************************************************)
At(t, c, r) ==
  IF r \in DOMAIN t.vram THEN t.vram[r]
  ELSE IF r - BUF \in Screen THEN t.con[c].buf[r - BUF] ELSE OTHERS
Row(t, c, y) == At(t, c, t.con[c].origin + y)
Put(t, c, f) ==
  LET o == t.con[c].origin IN
  [t EXCEPT !.vram = [r \in DOMAIN @ |-> IF r - o \in Screen THEN f[r - o] ELSE @[r]],
            !.con[c].buf = [y \in Screen |->
               IF (BUF + y) - o \in Screen THEN f[(BUF + y) - o] ELSE @[y]]]

Visible(t, c) == t.fg = c

(***************************************************************************)
(* vgacon: the place of the text.                                          *)
(***************************************************************************)
ViewAt(t, c, v) == [t EXCEPT !.con[c].visible = v, !.top = v]

(* Scrolling the view by lines; 0 turns scrollback off.  Video memory is a  *)
(* ring once the text rolled over its end.                                  *)
ViewRow(t, c, lines) ==
  LET origin == t.con[c].origin
      ring == t.rolled > t.con[c].end + Margin
      ul == IF ring THEN t.con[c].end ELSE 0
      we == IF ring THEN t.rolled + 1 ELSE VramRows
      st == (origin - ul + we) % we
      margin == IF st < 2 * Margin THEN 0 ELSE Margin
      p == ((t.con[c].visible - ul + we) % we) + lines
      q == IF p < margin THEN 0 ELSE p
  IN ((IF q > st - margin THEN st ELSE q) + ul) % we

vgacon_scroll(t, c, lines) ==
  ViewAt(t, c, IF lines = 0 THEN t.con[c].origin ELSE ViewRow(t, c, lines))

(* vgacon_cursor: no cursor in a view of the past.                          *)
vgacon_cursor(t, c) ==
  IF t.con[c].origin = t.con[c].visible THEN t ELSE vgacon_scroll(t, c, 0)

MaySetOrigin(t) == ~ t.gfx /\ ~ (t.blanked /\ ~ t.pal)
vgacon_set_origin(t, c) ==
  IF MaySetOrigin(t)
  THEN [t EXCEPT !.con[c].origin = 0, !.con[c].visible = 0, !.top = 0, !.rolled = 0]
  ELSE t

\* Faulty variant: the text of a console that leaves the screen is not saved.
vgacon_save_screenNot(t, c) == t
vgacon_save_screen(t, c) ==
  IF t.gfx THEN t ELSE [t EXCEPT !.con[c].buf = [y \in Screen |-> Row(t, c, y)]]

vgacon_switch(t, c) == IF t.gfx THEN t ELSE Put(t, c, t.con[c].buf)

(* Rows t0 .. Rows - 1 moved by n up or down in place, blank rows coming in.*)
MovedRows(f, t0, up, n) ==
  [y \in Screen |->
     IF y < t0 THEN f[y]
     ELSE IF up THEN (IF y + n < Rows THEN f[y + n] ELSE BLANK)
     ELSE (IF y - n >= t0 THEN f[y - n] ELSE BLANK)]

(* vgacon_scroll_region of the whole screen by less than half of it: the    *)
(* origin moves; at an end of the memory the text is copied to the other.   *)
HardScroll(t, c, up, n) ==
  LET u == vgacon_cursor(t, c)
      o == u.con[c].origin
      over == IF up THEN u.con[c].end + n >= VramRows ELSE o - n < 0
      new == IF up THEN (IF over THEN 0 ELSE o + n) ELSE (IF over THEN VramRows - Rows ELSE o - n)
      rows == MovedRows([y \in Screen |-> Row(u, c, y)], 0, up, n)
      rolled == IF ~ over THEN u.rolled ELSE IF up THEN o ELSE 0
      at == [u EXCEPT !.con[c].origin = new, !.con[c].end = new + Rows, !.rolled = rolled]
  IN ViewAt(Put(at, c, rows), c, new)

(***************************************************************************)
(* vgacon: colours and blanking.                                           *)
(***************************************************************************)
vgacon_set_palette(t, c) ==
  IF t.type # "VGAC" \/ t.pal THEN t ELSE [t EXCEPT !.dac = t.con[c].palette]

(* The registers are saved when the display is not yet suspended.           *)
\* Faulty variant: they are saved each time.
vga_vesa_blankSaving(t, mode) ==
  [t EXCEPT !.saved = t.reg,
            !.reg = [clock |-> "on", vsync |-> IF mode \in {1, 3} THEN "off" ELSE @.vsync,
                     hsync |-> IF mode \in {2, 3} THEN "off" ELSE @.hsync]]
vga_vesa_blank(t, mode) ==
  [t EXCEPT !.saved = IF t.vesa = 0 THEN t.reg ELSE @,
            !.reg = [clock |-> "on", vsync |-> IF mode \in {1, 3} THEN "off" ELSE @.vsync,
                     hsync |-> IF mode \in {2, 3} THEN "off" ELSE @.hsync]]
vga_vesa_unblank(t) == [t EXCEPT !.reg = t.saved]

(* con_blank with 0; the caller redraws unless the colours were blanked.    *)
Unblanked(t, c) ==
  LET u == IF t.vesa # 0 THEN [vga_vesa_unblank(t) EXCEPT !.vesa = 0] ELSE t IN
  IF u.pal THEN [u EXCEPT !.dac = u.con[c].palette, !.pal = FALSE] ELSE [u EXCEPT !.gfx = FALSE]
Redraws(t) == ~ t.pal

(* con_blank with 1 or -1.                                                  *)
PaletteBlanks(t, mode_switch) == ~ mode_switch /\ t.type = "VGAC"
Blanked(t, c, mode_switch) ==
  IF PaletteBlanks(t, mode_switch) THEN [t EXCEPT !.dac = "black", !.pal = TRUE]
  ELSE LET u == vgacon_set_origin(t, c) IN
       [u EXCEPT !.vram = [r \in DOMAIN @ |-> IF r \in Screen THEN BLANK ELSE @[r]],
                 !.gfx = IF mode_switch THEN TRUE ELSE @]

VesaBlanked(t, blank) ==
  IF t.type = "VGAC" THEN [vga_vesa_blank(t, blank - 1) EXCEPT !.vesa = blank] ELSE t

(***************************************************************************)
(* vt.c and vt_ioctl.c.                                                    *)
(***************************************************************************)
set_origin(t, c) ==
  LET u == IF Visible(t, c) /\ MaySetOrigin(t) THEN vgacon_set_origin(t, c)
           ELSE [t EXCEPT !.con[c].origin = BUF, !.con[c].visible = BUF]
  IN [u EXCEPT !.con[c].end = u.con[c].origin + Rows]

hide_cursor(t, c) == vgacon_cursor(t, c)
set_cursor(t, c) ==
  IF Visible(t, c) /\ ~ t.blanked /\ t.con[c].mode = "TEXT" THEN vgacon_cursor(t, c) ELSE t

set_palette(t, c) ==
  IF Visible(t, c) /\ t.con[c].mode = "TEXT" THEN vgacon_set_palette(t, c) ELSE t

update_screen(t, c) ==
  set_cursor(set_palette(vgacon_switch(set_origin(hide_cursor(t, c), c), c), c), c)

powerdown_screen(t) ==
  CASE t.blank_mode = 0 -> VesaBlanked(t, 2)
    [] t.blank_mode \in {1, 2} -> VesaBlanked(t, 4)
    [] OTHER -> t

\* Faulty variant: the text is not sent to its buffer after blanking.
EnterGraphicsStaying(t, c) ==
  [Blanked(vgacon_save_screen(hide_cursor(t, c), c), c, TRUE) EXCEPT !.blanked = TRUE]
EnterGraphics(t, c) ==
  set_origin([Blanked(vgacon_save_screen(hide_cursor(t, c), c), c, TRUE) EXCEPT !.blanked = TRUE], c)

BlankText(t, c) ==
  LET u == [Blanked(vgacon_save_screen(hide_cursor(t, c), c), c, FALSE) EXCEPT !.blanked = TRUE]
      v == IF PaletteBlanks(t, FALSE) THEN u ELSE set_origin(u, c)
      w == [v EXCEPT !.state = IF v.off THEN "vesa_wait" ELSE @]
  IN IF w.blank_mode # 0 THEN VesaBlanked(w, w.blank_mode + 1) ELSE w

do_blank_screen(t, entering_gfx) ==
  LET c == t.fg
      u == [t EXCEPT !.state = "off"]
  IN IF t.blanked THEN (IF t.state = "vesa_wait" THEN powerdown_screen(u) ELSE t)
     ELSE IF t.state # "normal_wait" THEN t
     ELSE IF entering_gfx THEN EnterGraphics(u, c)
     ELSE IF t.con[c].mode # "TEXT" THEN [u EXCEPT !.blanked = TRUE]
     ELSE BlankText(u, c)

unblank_vt(t) ==
  LET c == t.fg
      u == [t EXCEPT !.state = IF t.interval THEN "normal_wait" ELSE @, !.blanked = FALSE]
      v == Unblanked(u, c)
      w == IF Redraws(t) THEN update_screen(v, c) ELSE v
  IN IF ~ t.blanked \/ t.con[c].mode # "TEXT" THEN t ELSE set_cursor(set_palette(w, c), c)

poke_blanked_console(t) ==
  IF t.con[t.fg].mode = "GRAPHICS" THEN t
  ELSE IF t.blanked THEN unblank_vt(t)
  ELSE [t EXCEPT !.state = IF t.interval THEN "normal_wait" ELSE @]

switch_screen(t, new) ==
  LET old == t.fg
      u == [hide_cursor(t, old) EXCEPT !.fg = new]
      v == set_origin(set_origin(vgacon_save_screen(u, old), old), new)
  IN set_cursor(set_palette(vgacon_switch(v, new), new), new)

ModeChanged(t, c) == IF t.con[c].mode = "TEXT" THEN unblank_vt(t) ELSE do_blank_screen(t, TRUE)

(***************************************************************************)
(* Requests.                                                               *)
(***************************************************************************)

(* The text of the foreground console is exposed: it is not in its buffer,  *)
(* though the video memory belongs to a graphics program or to a blanked    *)
(* screen.                                                                  *)
Exposed(t) ==
  {c \in {t.fg} : /\ t.con[c].origin # BUF
                  /\ t.con[c].mode = "GRAPHICS" \/ ~ MaySetOrigin(t)}

complete_change_console(new) ==
  /\ new # vga.fg /\ "switch" \in vga.use
  /\ LET t == switch_screen(vga, new) IN
     vga' = IF vga.con[vga.fg].mode # t.con[new].mode THEN ModeChanged(t, new) ELSE t

KDSETMODE(c) ==
  /\ "mode" \in vga.use
  /\ LET t == [vga EXCEPT !.con[c].mode = IF @ = "TEXT" THEN "GRAPHICS" ELSE "TEXT"] IN
     vga' = IF Visible(vga, c) THEN ModeChanged(t, c) ELSE t

(* A graphics program draws, and loads colours.                             *)
DrawGraphics ==
  /\ vga.con[vga.fg].mode = "GRAPHICS"
  /\ vga' = [vga EXCEPT !.vram = [r \in DOMAIN @ |-> GFX], !.dac = "picture"]

(* do_con_write: a row of text, or n lines scrolled below the row t0.       *)
Unhidden(t, c) == IF Visible(t, c) THEN hide_cursor(t, c) ELSE t

WriteRow(c, y) ==
  /\ vga.writes < MaxWrites
  /\ LET t == Unhidden(vga, c)
         f == [[z \in Screen |-> Row(t, c, z)] EXCEPT ![y] = c]
     IN vga' = [set_cursor(Put(t, c, f), c) EXCEPT !.text[c][y] = c, !.writes = @ + 1]

(* Only graphics keep the driver from scrolling in hardware.  On a screen   *)
(* blanked without the colours the origin is the console's buffer, above    *)
(* video memory: the text is scrolled up into the blanked memory, or down   *)
(* in front of its buffer.                                                  *)
Hard(t, c, t0, n) == Visible(t, c) /\ t0 = 0 /\ ~ t.gfx /\ ~ (n >= Rows \div 2)

(* Bound: a text is not scrolled further than MaxFront in front of a buffer.*)
Within(t, c, up, n) ==
  up \/ t.con[c].origin < VramRows \/ t.con[c].origin - n >= BUF - MaxFront

ScrollRegion(c, t0, up, n) ==
  /\ "scroll" \in vga.use
  /\ LET t == Unhidden(vga, c)
         soft == IF Visible(t, c) /\ t0 = 0 /\ ~ t.gfx THEN vgacon_cursor(t, c) ELSE t
         u == IF Hard(t, c, t0, n) THEN HardScroll(t, c, up, n)
              ELSE Put(soft, c, MovedRows([y \in Screen |-> Row(soft, c, y)], t0, up, n))
     IN /\ Hard(t, c, t0, n) => Within(t, c, up, n)
        /\ vga' = [set_cursor(u, c) EXCEPT !.text[c] = MovedRows(@, t0, up, n)]

(* vt_callback with a scrollback_delta.  With an address in the arithmetic  *)
(* that is not one of video memory the result is any row.                   *)
InMemory(t) == t.con[t.fg].origin < VramRows /\ t.rolled < VramRows

Scrollback(lines) ==
  /\ "view" \in vga.use /\ vga.con[vga.fg].mode = "TEXT"
  /\ IF InMemory(vga) THEN vga' = vgacon_scroll(vga, vga.fg, lines)
     ELSE \E any \in {0, VramRows - 1} : vga' = ViewAt(vga, vga.fg, any)

BlankTimer == "blank" \in vga.use /\ vga.state # "off" /\ vga' = do_blank_screen(vga, FALSE)
Poke == "blank" \in vga.use /\ vga' = poke_blanked_console(vga)
SETVESABLANK(mode) == "blank" \in vga.use /\ vga' = [vga EXCEPT !.blank_mode = mode]

con_set_cmap(p) ==
  /\ "colours" \in vga.use
  /\ vga' = set_palette([vga EXCEPT !.con = [c \in Cons |-> [@[c] EXCEPT !.palette = p]]], vga.fg)

EscPalette(c, p) == "colours" \in vga.use /\ vga' = set_palette([vga EXCEPT !.con[c].palette = p], c)

VgaNext ==
  /\ \/ \E c \in Cons :
          \/ complete_change_console(c) \/ KDSETMODE(c)
          \/ \E y \in Screen : WriteRow(c, y)
          \/ \E t0 \in 0 .. 1, up \in BOOLEAN, n \in 1 .. Rows - 2 : ScrollRegion(c, t0, up, n)
          \/ \E p \in Palettes : EscPalette(c, p)
     \/ \E lines \in {-2, -1, 1} : Scrollback(lines)
     \/ \E p \in Palettes : con_set_cmap(p)
     \/ \E mode \in 0 .. 3 : SETVESABLANK(mode)
     \/ DrawGraphics \/ BlankTimer \/ Poke
  /\ lost' = lost \cup Exposed(vga')

VgaSpec == VgaInit /\ [][VgaNext]_vgaVars

(***************************************************************************)
(* Properties.                                                             *)
(***************************************************************************)

(* Switching, scrolling in hardware, blanking and graphics never lose or    *)
(* exchange the text of a console that was not exposed: where the text is   *)
(* kept by now, it is what the programs wrote, whatever happens to others   *)
(* (vgacon_save_screen, vgacon_switch, vgacon_scroll_region).  The code     *)
(* does lose the text of consoles that were.                                *)
TextKept == \A c \in Cons \ lost, y \in Screen : Row(vga, c, y) = vga.text[c][y]

(* Text is exposed only when graphics, or a scroll, come to a screen that   *)
(* is blanked or whose blanking is off: on a lit one with an interval       *)
(* do_blank_screen and set_origin put it into the buffer first.             *)
LateGraphics == vga.blanked \/ vga.state # "normal_wait"
ExposedOnlyLate == [][lost' # lost => LateGraphics]_vgaVars

(* The text and the view of a console whose text is in video memory lie     *)
(* inside of it, and only one console has its text there: always for a      *)
(* console that was not exposed, and while the driver owns the memory for   *)
(* all.                                                                     *)
InsideVram ==
  \A c \in Cons : vga.con[c].origin # BUF =>
    /\ c = vga.fg /\ vga.con[c].end = vga.con[c].origin + Rows
    /\ c \notin lost \/ MaySetOrigin(vga) =>
         /\ vga.con[c].origin \in 0 .. VramRows - Rows
         /\ vga.con[c].visible \in 0 .. VramRows - Rows

(* A text console in the foreground of a screen that is not blanked is what *)
(* the monitor shows: its view, with the sync signals on, and, unless its   *)
(* text was exposed, its rows and its colours; and only rows of video       *)
(* memory are text of it or shown (vgacon_blank, vgacon_set_palette,        *)
(* set_origin, vgacon_scroll).  After exposure, a picture may stay on it.   *)
MonitorShows ==
  /\ InsideVram
  /\ vga.con[vga.fg].mode = "TEXT" /\ ~ vga.blanked =>
       /\ vga.top = vga.con[vga.fg].visible /\ vga.top # BUF /\ vga.reg = Normal
       /\ vga.fg \notin lost =>
            /\ vga.top = vga.con[vga.fg].origin =>
                 \A y \in Screen : vga.vram[vga.top + y] = vga.text[vga.fg][y]
            /\ vga.type = "VGAC" => vga.dac = vga.con[vga.fg].palette
=============================================================================
