----------------------------- MODULE Selection -----------------------------
(***************************************************************************)
(* What is drawn over the text of a console by changing the text's own     *)
(* memory: the inverted selection, the complemented mouse pointer and the  *)
(* soft cursor.  Each is undone later, by inverting again or by writing    *)
(* back what was read, while other requests write, switch, scroll back and *)
(* blank.  The selected text goes to the buffer that pasting reads.        *)
(*                                                                         *)
(* Source: drivers/char/selection.c, the cursor and invert functions of    *)
(* drivers/char/vt.c, switch_screen of vt_ioctl.c, vgacon_cursor.          *)
(*                                                                         *)
(* Every action is one stretch under the console semaphore; the functions  *)
(* map a record of the whole state.  A console's memory is Back rows of    *)
(* past text and its screen; places are counted in cells.  The consoles    *)
(* have one size, and /dev/vcs is not written to.                          *)
(***************************************************************************)
EXTENDS Integers, Sequences, FiniteSets, FiniteSetsExt

Seqs == INSTANCE SequencesExt

CONSTANTS
  Cons,          \* the consoles, numbers
  Seatings,      \* functions that map a console to its display
  Rows, Cols,    \* the size of a screen
  Back,          \* rows of past text
  Texts,         \* memories at first, sequences of characters
  Places,        \* places of the screen that the mouse points at
  InWord,        \* inwordLut: the characters of words
  CursorTypes,   \* subsets of {"hard", "soft"}; {}: vc_dectcem is off
  MaxWrites,     \* bound: characters written in a behaviour
  None           \* no console, cell or pointer

VARIABLE sel

SPACE == " "
ScreenCells == 0 .. Rows * Cols - 1
Memory == 0 .. (Back + Rows) * Cols - 1
RowStart(p) == p - (p % Cols)
RowEnd(p) == RowStart(p) + Cols - 1

Characters == InWord \cup {SPACE} \cup UNION {{m[i + 1] : i \in Memory} : m \in Texts}
MemoryCell == [ch : Characters, inv : BOOLEAN, cmp : BOOLEAN, cur : BOOLEAN]
Plain(ch) == [ch |-> ch, inv |-> FALSE, cmp |-> FALSE, cur |-> FALSE]

ASSUME SelectionAssumption ==
  /\ Cons \subseteq Nat /\ \A seat \in Seatings : DOMAIN seat = Cons
  /\ Rows \in Nat \ {0} /\ Cols \in Nat \ {0} /\ Back \in Nat
  /\ Places \subseteq ScreenCells
ASSUME NoneAssumption == None \notin MemoryCell \cup [con : Cons, at : Memory, old : MemoryCell]

(* fg[d], blanked[d], original[d]                                          *)
(*              fg_console, vt_blanked, cursor_original: a cell, or None   *)
(* con[c]       display: display_fg; mem; pos: vc_pos; view: the row of    *)
(*              vc_visible_origin (the origin is row Back); back: the rows *)
(*              of past text that are there; type: of the cursor           *)
(* cons, start, end, buffer                                                *)
(*              sel_cons, sel_start, sel_end, sel_buffer                   *)
(* p            complement_pos: the cell of the pointer and what it held   *)
(* text[c]      history: the memory as programs wrote it; writes           *)
Foreground(seat) == [d \in {seat[c] : c \in Cons} |-> Min({c \in Cons : seat[c] = d})]
Unselected(seat, fg, m) ==
  [fg |-> fg, blanked |-> [d \in DOMAIN fg |-> FALSE], original |-> [d \in DOMAIN fg |-> None],
   con |-> [c \in Cons |->
     [display |-> seat[c], mem |-> [i \in Memory |-> Plain(m[i + 1])], pos |-> 0,
      view |-> Back, back |-> IF c = fg[seat[c]] THEN Back ELSE 0, type |-> {"hard"}]],
   cons |-> None, start |-> -1, end |-> -1, buffer |-> <<>>, p |-> None,
   text |-> [c \in Cons |-> [i \in Memory |-> m[i + 1]]], writes |-> 0]

SelInit == sel \in {Unselected(seat, Foreground(seat), m) : seat \in Seatings, m \in Texts}

Visible(t, c) == t.fg[t.con[c].display] = c

(* screenpos with viewed: a place of the screen in the memory.              *)
screenpos(t, c, p) == t.con[c].view * Cols + p
CursorCell(t, c) == Back * Cols + t.con[c].pos

(***************************************************************************)
(* Selection and pointer.                                                  *)
(***************************************************************************)
invert(cell) == [cell EXCEPT !.inv = ~ @]
highlight(t, from, to) ==
  [t EXCEPT !.con[t.cons].mem = [i \in Memory |->
     IF i \in screenpos(t, t.cons, from) .. screenpos(t, t.cons, to)
     THEN invert(@[i]) ELSE @[i]]]

complement(cell) == [cell EXCEPT !.cmp = ~ @]
HidePointer(t) ==
  IF t.p = None THEN t ELSE [t EXCEPT !.con[t.p.con].mem[t.p.at] = t.p.old, !.p = None]
ShowPointer(t, where) ==
  LET u == HidePointer(t)
      at == screenpos(u, u.cons, where)
      old == u.con[u.cons].mem[at]
  IN [u EXCEPT !.con[u.cons].mem[at] = complement(@), !.p = [con |-> u.cons, at |-> at, old |-> old]]

clear_selection(t) ==
  LET u == HidePointer(t) IN
  IF u.start = -1 THEN u ELSE [highlight(u, u.start, u.end) EXCEPT !.start = -1, !.end = -1]

(***************************************************************************)
(* Cursor.                                                                 *)
(***************************************************************************)
inverse(cell) == [cell EXCEPT !.cur = ~ @]
add_softcursor(t, c) ==
  LET d == t.con[c].display
      at == CursorCell(t, c)
  IN IF "soft" \notin t.con[c].type \/ t.original[d] # None THEN t
     ELSE [t EXCEPT !.original[d] = t.con[c].mem[at], !.con[c].mem[at] = inverse(@)]

hide_softcursor(t, c) ==
  LET d == t.con[c].display IN
  IF t.original[d] = None THEN t
  ELSE [t EXCEPT !.con[c].mem[CursorCell(t, c)] = t.original[d], !.original[d] = None]

(* con_cursor: a view of the past ends.                                     *)
con_cursor(t, c) == [t EXCEPT !.con[c].view = Back]

Deselect(t, c) == IF c = t.cons THEN clear_selection(t) ELSE t

\* Faulty variant: the driver moves the view before the selection is removed from it.
hide_cursorLate(t, c) == hide_softcursor(Deselect(con_cursor(t, c), c), c)
hide_cursor(t, c) == hide_softcursor(con_cursor(Deselect(t, c), c), c)

set_cursor(t, c) ==
  LET u == add_softcursor(Deselect(t, c), c) IN
  IF ~ Visible(t, c) \/ t.blanked[t.con[c].display] THEN t
  ELSE IF t.con[c].type = {} THEN hide_cursor(t, c)
  ELSE IF "hard" \in t.con[c].type THEN con_cursor(u, c) ELSE u

(***************************************************************************)
(* set_selection.                                                          *)
(***************************************************************************)
sel_pos(t, p) == t.con[t.cons].mem[screenpos(t, t.cons, p)].ch
isspace(t, p) == sel_pos(t, p) = SPACE

(* A word is a run of spaces, or of word characters, within a row.          *)
Alike(t, p, q) ==
  \A r \in (IF p < q THEN p .. q ELSE q .. p) :
    IF isspace(t, p) THEN isspace(t, r) ELSE sel_pos(t, r) \in InWord
WordStart(t, p) ==
  LET run == {q \in RowStart(p) .. p : Alike(t, p, q)} IN IF run = {} THEN p ELSE Min(run)
WordEnd(t, p) ==
  LET run == {q \in p .. RowEnd(p) : Alike(t, p, q)} IN IF run = {} THEN p ELSE Max(run)

Modes == {"SELCHAR", "SELWORD", "SELLINE"}
NewStart(t, mode, ps) ==
  CASE mode = "SELCHAR" -> ps [] mode = "SELWORD" -> WordStart(t, ps) [] mode = "SELLINE" -> RowStart(ps)
NewEnd(t, mode, pe) ==
  CASE mode = "SELCHAR" -> pe [] mode = "SELWORD" -> WordEnd(t, pe) [] mode = "SELLINE" -> RowEnd(pe)

atedge(p) == p = RowStart(p) \/ p = RowEnd(p)

(* To the end of the line if on trailing space.                             *)
Trailing(t, start, end) ==
  IF end > start /\ ~ atedge(end) /\ \A p \in end .. RowEnd(end) : isspace(t, p)
  THEN RowEnd(end) ELSE end

(* The new range highlighted, by the difference where one end is the old.   *)
Rehighlight(t, start, end) ==
  IF t.start = -1 THEN highlight(t, start, end)
  ELSE IF start = t.start
  THEN IF end > t.end THEN highlight(t, t.end + 1, end) ELSE highlight(t, end + 1, t.end)
  ELSE IF end = t.end
  THEN IF start < t.start THEN highlight(t, start, t.start - 1) ELSE highlight(t, t.start, start - 1)
  ELSE highlight(clear_selection(t), start, end)

(* The copy of the range: at the end of each row bp goes back to obp, where *)
(* the trailing blanks began, and a return is added.                        *)
\* Faulty variant: obp is not moved to the start of the next line.
CopyUnmoved(t, start, end) ==
  LET copy[i \in start - 1 .. end] ==
        IF i < start THEN [b |-> <<>>, obp |-> 0]
        ELSE LET b == Append(copy[i - 1].b, sel_pos(t, i))
                 obp == IF isspace(t, i) THEN copy[i - 1].obp ELSE Len(b)
             IN IF i = RowEnd(i) /\ obp # Len(b)
                THEN [b |-> Append(SubSeq(b, 1, obp), "CR"), obp |-> obp]
                ELSE [b |-> b, obp |-> obp]
  IN copy[end].b
Copy(t, start, end) ==
  LET copy[i \in start - 1 .. end] ==
        IF i < start THEN [b |-> <<>>, obp |-> 0]
        ELSE LET b == Append(copy[i - 1].b, sel_pos(t, i))
                 obp == IF isspace(t, i) THEN copy[i - 1].obp ELSE Len(b)
                 line == IF obp # Len(b) THEN Append(SubSeq(b, 1, obp), "CR") ELSE b
             IN IF i = RowEnd(i) THEN [b |-> line, obp |-> Len(line)] ELSE [b |-> b, obp |-> obp]
  IN copy[end].b

Selected(t, start, end, memory) ==
  LET u == [Rehighlight(t, start, end) EXCEPT !.start = start, !.end = end] IN
  IF start = t.start /\ end = t.end THEN t
  ELSE IF ~ memory THEN clear_selection(u) ELSE [u EXCEPT !.buffer = Copy(u, start, end)]

unblank_vt(t, d) ==
  IF t.blanked[d] THEN set_cursor([t EXCEPT !.blanked[d] = FALSE], t.fg[d]) ELSE t

(* The request comes from any console of display d.  Places are on the      *)
(* screen: limit saw to it.  poke: a blanked screen need not wait for an    *)
(* explicit request (ignore_poke).                                          *)
Ready(d, poke) ==
  LET t == IF poke THEN unblank_vt(sel, d) ELSE sel
      fg == t.fg[d]
  IN IF t.cons = fg THEN t ELSE [clear_selection(t) EXCEPT !.cons = fg]

SetSel(d, mode, ps, pe, poke, memory) ==
  LET t == Ready(d, poke)
      u == HidePointer(t)
      start == NewStart(t, mode, ps)
  IN sel' = Selected(u, start, Trailing(u, start, NewEnd(t, mode, pe)), memory)

SELPOINTER(d, pe, poke) == sel' = ShowPointer(Ready(d, poke), pe)
SELCLEAR(d, poke) == sel' = clear_selection(IF poke THEN unblank_vt(sel, d) ELSE sel)

(***************************************************************************)
(* The other requests.                                                     *)
(***************************************************************************)
Undraw(t, c) == IF Visible(t, c) THEN hide_cursor(t, c) ELSE t
NextPlace(p) == (p + 1) % (Rows * Cols)
PutChar(t, c, ch) ==
  [t EXCEPT !.con[c].mem[CursorCell(t, c)] = Plain(ch), !.con[c].pos = NextPlace(@),
            !.text[c][CursorCell(t, c)] = ch, !.writes = @ + 1]

(* Under one hold of the semaphore the output is written, and under a       *)
(* second one the cursor is set again.                                      *)
ConWrite(c, ch) == sel.writes < MaxWrites /\ sel' = PutChar(Undraw(sel, c), c, ch)
WriteCursor(c, type) == sel' = [Undraw(sel, c) EXCEPT !.con[c].type = type]
vt_flush_chars(c) == sel' = set_cursor(sel, c)

vt_console_print(c, ch) ==
  /\ sel.writes < MaxWrites
  /\ sel' = unblank_vt(set_cursor(PutChar(Undraw(sel, c), c, ch), c), sel.con[c].display)

(* CSI ? m: the mask of the pointer changes.                                *)
ComplementMask(c) == sel' = clear_selection(Undraw(sel, c))

set_origin(t, c) == [t EXCEPT !.con[c].view = Back, !.con[c].back = 0]

switch_screen(new) ==
  LET d == sel.con[new].display
      old == sel.fg[d]
      t == [hide_cursor(sel, old) EXCEPT !.fg[d] = new]
  IN /\ new # old
     /\ sel' = set_cursor(set_origin(set_origin(t, old), new), new)

(* vt_callback: the process that controls the console is asked first; or    *)
(* the keyboard scrolled the view.                                          *)
AskRelease(d) == sel' = hide_cursor(sel, sel.fg[d])
Scrollback(d, row) ==
  LET t == clear_selection(sel)
      c == t.fg[d]
  IN /\ row \in Back - t.con[c].back .. Back
     /\ sel' = [t EXCEPT !.con[c].view = row]

do_blank_screen(d) ==
  /\ ~ sel.blanked[d]
  /\ sel' = [hide_cursor(sel, sel.fg[d]) EXCEPT !.blanked[d] = TRUE]

SelNext ==
  \/ \E d \in DOMAIN sel.fg : \E poke \in (IF sel.blanked[d] THEN BOOLEAN ELSE {TRUE}) :
       \/ \E ps, pe \in Places, mode \in Modes :
            \E memory \in (IF mode = "SELLINE" THEN BOOLEAN ELSE {TRUE}) :
              ps <= pe /\ SetSel(d, mode, ps, pe, poke, memory)
       \/ \E pe \in Places : SELPOINTER(d, pe, poke)
       \/ SELCLEAR(d, poke)
  \/ \E c \in Cons, ch \in InWord \cup {SPACE} : ConWrite(c, ch) \/ vt_console_print(c, ch)
  \/ \E c \in Cons, type \in CursorTypes : WriteCursor(c, type)
  \/ \E c \in Cons : vt_flush_chars(c) \/ ComplementMask(c) \/ switch_screen(c)
  \/ \E d \in DOMAIN sel.fg : AskRelease(d) \/ do_blank_screen(d) \/ \E row \in 0 .. Back : Scrollback(d, row)

SelSpec == SelInit /\ [][SelNext]_sel

(***************************************************************************)
(* Properties.                                                             *)
(***************************************************************************)

(* Whatever happens, in whatever order, the memory of every console is the  *)
(* text its programs wrote with exactly the layers that are due: the        *)
(* selected range inverted, the pointer complemented, the soft cursor at    *)
(* the cursor.  Nothing is left behind, and no text is replaced by what was *)
(* saved under a layer (hide_cursor, set_cursor, clear_selection).          *)
LayersExact ==
  \A c \in Cons, i \in Memory :
    sel.con[c].mem[i] =
      [ch  |-> sel.text[c][i],
       inv |-> c = sel.cons /\ sel.start # -1 /\ i - screenpos(sel, c, 0) \in sel.start .. sel.end,
       cmp |-> sel.p # None /\ sel.p.con = c /\ sel.p.at = i,
       cur |-> sel.original[sel.con[c].display] # None /\ Visible(sel, c) /\ i = CursorCell(sel, c)]

(* A line of the selection as a user reads it: blanks up to the right edge  *)
(* of the screen are one return.                                            *)
LineText(start, end) ==
  LET chars == [k \in 1 .. end - start + 1 |-> sel.text[sel.cons][screenpos(sel, sel.cons, start + k - 1)]]
      kept == {k \in DOMAIN chars : \E q \in DOMAIN chars : q >= k /\ chars[q] # SPACE}
  IN IF end = RowEnd(end) /\ chars[Len(chars)] = SPACE
     THEN Append(SubSeq(chars, 1, Cardinality(kept)), "CR") ELSE chars
SelectedText ==
  Seqs!FlattenSeq([r \in 1 .. Rows |->
    LET from == Max({(r - 1) * Cols, sel.start})
        to == Min({r * Cols - 1, sel.end})
    IN IF from > to THEN <<>> ELSE LineText(from, to)])

(* While a selection is shown, the buffer that pasting reads holds the text *)
(* of the selected lines, and fits into the memory allocated for it.        *)
BufferExact ==
  sel.start # -1 => sel.buffer = SelectedText /\ Len(sel.buffer) <= sel.end - sel.start + 1
=============================================================================
