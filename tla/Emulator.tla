------------------------------ MODULE Emulator ------------------------------
(***************************************************************************)
(* The terminal emulator of one virtual console as the reader of a stream  *)
(* of bytes: the states of an escape sequence, its parameters, the graphic *)
(* rendition, the character sets, the coding and the modes.                *)
(*                                                                         *)
(* Source: drivers/char/decvte.c (terminal_emulation and the functions it  *)
(* calls), drivers/char/vt.c (do_con_write, build_attr).                   *)
(*                                                                         *)
(* What a control function does to the cursor and to the text is in module *)
(* Screen; here it ends the sequence and nothing more.  Everything runs    *)
(* under console_sem.  A byte is one step; the loops over the parameters   *)
(* of SGR, SM and RM are one step per parameter, with no byte in between.  *)
(***************************************************************************)
EXTENDS Integers

CONSTANTS
  NPAR,          \* parameters a sequence can hold (16), at least 8
  Word,          \* the number of values of an unsigned int (2^32), more than Rows
  Rows,          \* lines of the console
  CanDoColor,    \* vc_can_do_color
  HiFont,        \* vc_hi_font_mask = 0x100
  Alphabets      \* the sets of bytes the program may write

(* The bytes.  A graphic character is written as itself, but for "quote"    *)
(* and "grave"; "cont" is a byte 101xxxxx; a lead byte is named by the      *)
(* number of bytes that follow it.                                          *)
C0 == {"NUL", "ENQ", "BEL", "BS", "HT", "LF", "FF", "CR", "SO", "SI", "CAN", "SUB", "ESC"}
C1 == {"IND", "NEL", "HTS", "RI", "SCI", "CSI"}
Lead == [lead1 |-> 1, lead2 |-> 2, lead3 |-> 3, lead4 |-> 4, lead5 |-> 5]
High == C1 \cup DOMAIN Lead \cup {"cont", "0xff"}

Digit == [c \in {"0", "1", "2", "3", "4", "5", "6", "7", "8", "9"} |->
            CASE c = "0" -> 0 [] c = "1" -> 1 [] c = "2" -> 2 [] c = "3" -> 3 [] c = "4" -> 4
              [] c = "5" -> 5 [] c = "6" -> 6 [] c = "7" -> 7 [] c = "8" -> 8 [] c = "9" -> 9]
HexLetter == [c \in {"A", "B", "C", "D", "E", "F", "a", "b", "c", "d", "e", "f"} |->
            CASE c \in {"A", "a"} -> 10 [] c \in {"B", "b"} -> 11 [] c \in {"C", "c"} -> 12
              [] c \in {"D", "d"} -> 13 [] c \in {"E", "e"} -> 14 [] c \in {"F", "f"} -> 15]

(* Control characters with a function, and those disp_ctrl cannot display.  *)
CTRL_ACTION == {"NUL", "BEL", "BS", "HT", "LF", "FF", "CR", "SO", "SI", "CAN", "SUB", "ESC"}
CTRL_ALWAYS == {"NUL", "BS", "LF", "FF", "CR", "SO", "SI", "ESC"}

(* The states of the emulator inside a control sequence.                    *)
CsiStates == {"EScsi_getpars", "EScsi_space", "EScsi_exclam", "EScsi_dquote",
              "EScsi_dollar", "EScsi_and", "EScsi_star", "EScsi_plus"}

VARIABLES
  alphabet,  \* what the program writes
  state,     \* vc_state
  npar, par, \* vc_npar, vc_par
  priv,      \* which of vc_priv1 .. vc_priv4 is set
  loop,      \* the loop over the parameters that is running
  rend,      \* the rendition: vc_intensity ... vc_color
  dflt,      \* vc_def_color, vc_ulcolor, vc_halfcolor
  decscnm,   \* reverse screen
  attr,      \* vc_attr, computed from all of these
  erase,     \* the attribute in vc_video_erase_char, likewise
  sets,      \* the designated and the active character set
  font,      \* vc_translate, vc_disp_ctrl, vc_toggle_meta
  saved,     \* what DECSC saves
  utf, utf_count,
  c8bit, decscl,
  modes,     \* the other modes, those in kbd_table included
  palette,   \* the entries of vc_palette that were set
  reply      \* what this byte put into the input queue

parser == <<state, npar, par, priv, loop>>
look == <<rend, dflt, decscnm, attr, erase>>
chars == <<sets, font, saved>>
coding == <<utf, c8bit, decscl>>
others == <<modes, palette>>
emulatorVars == <<alphabet, parser, look, chars, coding, utf_count, others, reply>>

-----------------------------------------------------------------------------
(* The attribute byte.                                                      *)

(* color_table exchanges the bits of red and blue.                          *)
color_table(n) == LET h == n % 8
                  IN [hue |-> (h % 2) * 4 + ((h \div 2) % 2) * 2 + h \div 4, hi |-> n >= 8]

InverseVideo(a) == [fg |-> [a.fg EXCEPT !.hue = a.bg.hue], bg |-> [a.bg EXCEPT !.hue = a.fg.hue]]

build_attr(d, r, blink, underline, reverse) ==
  IF ~CanDoColor
  THEN [fg |-> [hue |-> r.intensity + (IF underline THEN 4 ELSE 0), hi |-> reverse],
        bg |-> [hue |-> 0, hi |-> blink]]
  ELSE LET a == IF underline THEN [r.color EXCEPT !.fg = d.ulcolor]
                ELSE IF r.intensity = 0 THEN [r.color EXCEPT !.fg = d.halfcolor] ELSE r.color
           v == IF reverse THEN InverseVideo(a) ELSE a
       IN [fg |-> [v.fg EXCEPT !.hi = (v.fg.hi # (r.intensity = 2))],
           bg |-> [v.bg EXCEPT !.hi = ~HiFont /\ (v.bg.hi # blink)]]

AttrOf(d, r, scnm) == build_attr(d, r, r.blink, r.underline, r.reverse # scnm)
EraseOf(d, r, scnm) == build_attr(d, r, FALSE, FALSE, scnm)

(* update_attr, for the values the step assigns.                            *)
update_attr == attr' = AttrOf(dflt', rend', decscnm') /\ erase' = EraseOf(dflt', rend', decscnm')

default_attr(r, d) ==
  [intensity |-> 1, underline |-> FALSE, blink |-> FALSE, reverse |-> FALSE,
   color |-> IF CanDoColor THEN d.def_color ELSE r.color]

-----------------------------------------------------------------------------
(* Initial state: vc_init, which ends with vte_ris.                         *)

Grey(n) == [hue |-> n % 8, hi |-> n >= 8]
OnBlack(n) == [fg |-> Grey(n), bg |-> Grey(0)]

ModesReset(m) ==
  [m EXCEPT !.decarm = TRUE, !.dectcem = TRUE, !.kam = FALSE, !.irm = FALSE, !.ckmode = FALSE,
            !.repeat = TRUE, !.applic = FALSE, !.crlf = FALSE, !.mouse = 0,
            !.cursor_type = FALSE, !.complement_mask = FALSE]

SetsReset == [charset |-> 0, G0 |-> "LAT1_MAP", G1 |-> "GRAF_MAP"]
FontReset == [translate |-> "LAT1_MAP", disp_ctrl |-> FALSE, toggle_meta |-> FALSE]
NoLoop == [f |-> "none", i |-> 0, on |-> FALSE]

EmulatorInit ==
  /\ alphabet \in Alphabets
  /\ state = "ESinit" /\ npar = 0 /\ par = [i \in 0 .. NPAR - 1 |-> 0] /\ priv = "none"
  /\ loop = NoLoop
  /\ dflt = [def_color |-> OnBlack(7), ulcolor |-> Grey(15), halfcolor |-> Grey(8)]
  /\ rend = [intensity |-> 1, underline |-> FALSE, blink |-> FALSE, reverse |-> FALSE,
             color |-> OnBlack(7)]
  /\ decscnm = FALSE
  /\ attr = AttrOf(dflt, rend, FALSE) /\ erase = EraseOf(dflt, rend, FALSE)
  /\ sets = SetsReset /\ font = FontReset
  /\ saved = [rend |-> rend, sets |-> sets]
  /\ utf = FALSE /\ utf_count = 0 /\ c8bit = FALSE /\ decscl = 0
  /\ modes = [decarm |-> TRUE, decnkm |-> FALSE, dectcem |-> TRUE, kam |-> FALSE, irm |-> FALSE,
              ckmode |-> FALSE, repeat |-> TRUE, applic |-> FALSE, crlf |-> FALSE, mouse |-> 0,
              cursor_type |-> FALSE, complement_mask |-> FALSE]
  /\ palette = {}
  /\ reply = "none"

-----------------------------------------------------------------------------
(* The functions that keep state of the emulator.  Each one names what it   *)
(* changes and leaves the rest.                                             *)

Goto(s) == state' = s /\ UNCHANGED <<npar, par, priv, loop>>
Silent == reply' = "none"
KeepAll == Silent /\ UNCHANGED <<look, chars, coding, others>>
Answer(r) == reply' = r /\ UNCHANGED <<look, chars, coding, others>>

set_translate(m) == font' = [font EXCEPT !.translate = m]

(* Faulty variant: the saved rendition is not turned into an attribute.     *)
vte_decrcKeepsAttr ==
  /\ rend' = saved.rend /\ sets' = saved.sets
  /\ set_translate(IF sets'.charset = 1 THEN sets'.G1 ELSE sets'.G0)
  /\ Silent /\ UNCHANGED <<dflt, decscnm, attr, erase, saved, coding, others>>

vte_decrc ==
  /\ rend' = saved.rend /\ sets' = saved.sets
  /\ set_translate(IF sets'.charset = 1 THEN sets'.G1 ELSE sets'.G0)
  /\ UNCHANGED <<dflt, decscnm>> /\ update_attr
  /\ Silent /\ UNCHANGED <<saved, coding, others>>

vte_decsc ==
  /\ saved' = [rend |-> rend, sets |-> sets]
  /\ Silent /\ UNCHANGED <<look, sets, font, coding, others>>

(* The reset forgets a partial character; utf_count is set here.            *)
vte_ris ==
  /\ state' = "ESinit" /\ priv' = "none" /\ UNCHANGED <<npar, par, loop>>
  /\ rend' = default_attr(rend, dflt) /\ decscnm' = FALSE /\ UNCHANGED dflt /\ update_attr
  /\ sets' = SetsReset /\ font' = FontReset
  /\ saved' = [rend |-> rend', sets |-> sets']
  /\ utf' = FALSE /\ c8bit' = FALSE
  /\ modes' = ModesReset(modes)
  /\ Silent /\ UNCHANGED <<decscl, palette>>

SelectC1(on) == c8bit' = IF decscl # 1 THEN on ELSE c8bit

vte_decscl ==
  /\ \/ /\ par[0] = 61
        /\ IF npar = 1 THEN decscl' = 1 /\ c8bit' = FALSE ELSE UNCHANGED <<decscl, c8bit>>
     \/ /\ par[0] \in 62 .. 64
        /\ IF npar <= 2 THEN decscl' = 4 /\ c8bit' = (par[1] # 1)
                        ELSE UNCHANGED <<decscl, c8bit>>
     \/ par[0] \notin 61 .. 64 /\ UNCHANGED <<decscl, c8bit>>
  /\ Silent /\ UNCHANGED <<look, chars, utf, others>>

(* Colours of underline and half intensity, and the defaults; the other     *)
(* setterm commands (blanking, bell, consoles) are not kept here.           *)
setterm_command(p) ==
  /\ \/ /\ p[0] = 1 /\ CanDoColor /\ p[1] < 16
        /\ dflt' = [dflt EXCEPT !.ulcolor = color_table(p[1])]
        /\ UNCHANGED <<rend, decscnm>>
        /\ IF rend.underline THEN update_attr ELSE UNCHANGED <<attr, erase>>
     \/ /\ p[0] = 2 /\ CanDoColor /\ p[1] < 16
        /\ dflt' = [dflt EXCEPT !.halfcolor = color_table(p[1])]
        /\ UNCHANGED <<rend, decscnm>>
        /\ IF rend.intensity = 0 THEN update_attr ELSE UNCHANGED <<attr, erase>>
     \/ /\ p[0] = 8
        /\ dflt' = [dflt EXCEPT !.def_color = attr]
        /\ rend' = default_attr(rend, dflt')
        /\ UNCHANGED decscnm /\ update_attr
     \/ /\ p[0] \notin {1, 2, 8} \/ (p[0] # 8 /\ ~(CanDoColor /\ p[1] < 16))
        /\ UNCHANGED look
  /\ Silent /\ UNCHANGED <<chars, coding, others>>

(* DECRPM: DECCKM and LNM are answered from bits that no function sets.     *)
PermanentlyReset == {2, 3, 4, 42, 60, 61, 64, 67, 68, 69, 73, 81}

vte_decrqm(dec, p) ==
  LET Status(on) == IF on THEN "set" ELSE "reset"
  IN IF dec
     THEN CASE p = 1  -> "reset"
            [] p = 5  -> Status(decscnm)
            [] p = 8  -> Status(modes.decarm)
            [] p = 25 -> Status(modes.dectcem)
            [] p = 66 -> Status(modes.decnkm)
            [] p \in PermanentlyReset -> "permanently reset"
            [] p \in {6, 7} -> "screen mode"
            [] OTHER  -> "unknown"
     ELSE CASE p = 2  -> Status(modes.kam)
            [] p = 4  -> Status(modes.irm)
            [] p = 20 -> "reset"
            [] p \in (1 .. 22) \ {2, 4, 20} -> "permanently reset"
            [] OTHER  -> "unknown"

-----------------------------------------------------------------------------
(* The loops over the parameters.                                           *)

SgrRendition(p, r) ==
  CASE p = 0          -> default_attr(r, dflt)
    [] p = 1          -> [r EXCEPT !.intensity = 2]
    [] p = 2          -> [r EXCEPT !.intensity = 0]
    [] p = 4          -> [r EXCEPT !.underline = TRUE]
    [] p \in {5, 6}   -> [r EXCEPT !.blink = TRUE]
    [] p = 7          -> [r EXCEPT !.reverse = TRUE]
    [] p \in {21, 22} -> [r EXCEPT !.intensity = 1]
    [] p = 24         -> [r EXCEPT !.underline = FALSE]
    [] p = 25         -> [r EXCEPT !.blink = FALSE]
    [] p = 27         -> [r EXCEPT !.reverse = FALSE]
    [] p \in {38, 39} -> [r EXCEPT !.underline = (p = 38), !.color.fg = dflt.def_color.fg]
    [] p = 49         -> [r EXCEPT !.color.bg = dflt.def_color.bg]
    [] p \in 30 .. 37 -> [r EXCEPT !.color.fg = color_table(p - 30)]
    [] p \in 40 .. 47 -> [r EXCEPT !.color.bg = color_table(p - 40)]
    [] OTHER          -> r

SgrFont(p) ==
  CASE p = 10 -> [translate |-> IF sets.charset = 0 THEN sets.G0 ELSE sets.G1,
                  disp_ctrl |-> FALSE, toggle_meta |-> FALSE]
    [] p \in {11, 12} -> [translate |-> "IBMPC_MAP", disp_ctrl |-> TRUE, toggle_meta |-> p = 12]
    [] OTHER -> font

vte_sgr ==
  /\ loop.f = "sgr" /\ loop.i <= npar
  /\ loop' = [loop EXCEPT !.i = loop.i + 1]
  /\ rend' = SgrRendition(par[loop.i], rend) /\ font' = SgrFont(par[loop.i])
  /\ UNCHANGED <<alphabet, state, npar, par, priv, dflt, decscnm, attr, erase, sets, saved,
                 coding, utf_count, others, reply>>

vte_sgr_end ==
  /\ loop.f = "sgr" /\ loop.i > npar
  /\ loop' = NoLoop
  /\ UNCHANGED <<rend, dflt, decscnm>> /\ update_attr
  /\ UNCHANGED <<alphabet, state, npar, par, priv, chars, coding, utf_count, others, reply>>

DecMode(p, on) ==
  CASE p = 1    -> [modes EXCEPT !.ckmode = on]
    [] p = 8    -> [modes EXCEPT !.decarm = on, !.repeat = on]
    [] p = 9    -> [modes EXCEPT !.mouse = IF on THEN 1 ELSE 0]
    [] p = 25   -> [modes EXCEPT !.dectcem = on]
    [] p = 66   -> [modes EXCEPT !.decnkm = on, !.applic = on]
    [] p = 1000 -> [modes EXCEPT !.mouse = IF on THEN 2 ELSE 0]
    [] OTHER    -> modes

AnsiMode(p, on) ==
  CASE p = 4  -> [modes EXCEPT !.irm = on]
    [] p = 20 -> [modes EXCEPT !.crlf = on]
    [] OTHER  -> modes

set_mode ==
  /\ loop.f = "mode" /\ loop.i <= npar
  /\ loop' = [loop EXCEPT !.i = loop.i + 1]
  /\ LET p == par[loop.i]
     IN \/ /\ priv = "?" /\ p = 5
           /\ decscnm' = loop.on
           /\ UNCHANGED <<rend, dflt, font, modes>>
           /\ IF decscnm # loop.on THEN update_attr ELSE UNCHANGED <<attr, erase>>
        \/ /\ priv = "?" /\ p # 5
           /\ modes' = DecMode(p, loop.on)
           /\ UNCHANGED <<look, font>>
        \/ /\ priv # "?"
           /\ modes' = AnsiMode(p, loop.on)
           /\ font' = [font EXCEPT !.disp_ctrl = IF p = 3 THEN loop.on ELSE @]
           /\ UNCHANGED look
  /\ UNCHANGED <<alphabet, state, npar, par, priv, sets, saved, coding, utf_count, palette, reply>>

set_mode_end ==
  /\ loop.f = "mode" /\ loop.i > npar
  /\ loop' = NoLoop
  /\ UNCHANGED <<alphabet, state, npar, par, priv, look, chars, coding, utf_count, others, reply>>

-----------------------------------------------------------------------------
(* terminal_emulation, for one byte.  None of it but vte_ris is concerned   *)
(* with utf_count, which the caller decides.                                *)

Shift(n) ==
  /\ sets' = [sets EXCEPT !.charset = n]
  /\ font' = [font EXCEPT !.translate = IF n = 1 THEN sets.G1 ELSE sets.G0, !.disp_ctrl = (n = 1)]

(* Control characters work in the middle of a sequence.                     *)
ControlC0(c) ==
  /\ c \in C0 \cup {"DEL"}
  /\ Goto(CASE c \in {"CAN", "SUB"} -> "ESinit" [] c = "ESC" -> "ESesc" [] OTHER -> state)
  /\ \/ c \in {"SO", "SI"} /\ Shift(IF c = "SO" THEN 1 ELSE 0)
        /\ Silent /\ UNCHANGED <<look, saved, coding, others>>
     \/ c = "ENQ" /\ Answer("answerback")
     \/ c \notin {"SO", "SI", "ENQ"} /\ KeepAll

ControlC1(c) ==
  /\ c8bit /\ c \in C1
  /\ Goto(IF c = "CSI" THEN "EScsi" ELSE state)
  /\ IF c = "SCI" THEN Answer("DA") ELSE KeepAll

(* The first byte after ESC.                                                *)
EscNext == [c \in {" ", "#", "%", "(", ")", "[", "]"} |->
              CASE c = " " -> "ESacs" [] c = "#" -> "ESscf" [] c = "%" -> "ESdocs"
                [] c = "(" -> "ESgzd4" [] c = ")" -> "ESg1d4" [] c = "[" -> "EScsi"
                [] c = "]" -> "ESosc"]

EscFunction(c) ==
  \/ c = "7" /\ vte_decsc
  \/ c = "8" /\ vte_decrc
  \/ /\ c \in {"=", ">"}
     /\ modes' = [modes EXCEPT !.decnkm = (c = "="), !.applic = (c = "=")]
     /\ Silent /\ UNCHANGED <<look, chars, coding, palette>>
  \/ c = "Z" /\ Answer("DA")
  \/ /\ c \in {"grave", "b"}
     /\ modes' = [modes EXCEPT !.kam = (c = "b")]
     /\ Silent /\ UNCHANGED <<look, chars, coding, palette>>
  \/ c \notin {"7", "8", "=", ">", "Z", "grave", "b", "c"} /\ KeepAll

Esc(c) ==
  /\ state = "ESesc"
  /\ \/ c \in DOMAIN EscNext /\ Goto(EscNext[c]) /\ KeepAll
     \/ c \notin DOMAIN EscNext \cup {"c"} /\ Goto("ESinit") /\ EscFunction(c)
     \/ c = "c" /\ vte_ris

AnnounceCode(c) ==
  /\ state = "ESacs" /\ Goto("ESinit")
  /\ IF c \in {"F", "G"} THEN SelectC1(c = "G") ELSE UNCHANGED c8bit
  /\ Silent /\ UNCHANGED <<look, chars, utf, decscl, others>>

DesignateCoding(c) ==
  /\ state = "ESdocs" /\ Goto("ESinit")
  /\ utf' = IF c = "@" THEN FALSE ELSE IF c \in {"G", "8"} THEN TRUE ELSE utf
  /\ Silent /\ UNCHANGED <<look, chars, c8bit, decscl, others>>

MapOf(c, m) == CASE c = "0" -> "GRAF_MAP" [] c \in {"A", "B"} -> "LAT1_MAP"
                 [] c = "U" -> "IBMPC_MAP" [] c = "K" -> "USER_MAP" [] OTHER -> m

(* G0 with ESC ( and G1 with ESC ); the table follows if the set is active. *)
DesignateSet(c) ==
  /\ \/ /\ state = "ESgzd4"
        /\ sets' = [sets EXCEPT !.G0 = MapOf(c, sets.G0)]
        /\ IF sets.charset = 0 THEN set_translate(sets'.G0) ELSE UNCHANGED font
     \/ /\ state = "ESg1d4"
        /\ sets' = [sets EXCEPT !.G1 = MapOf(c, sets.G1)]
        /\ IF sets.charset = 1 THEN set_translate(sets'.G1) ELSE UNCHANGED font
  /\ Goto("ESinit")
  /\ Silent /\ UNCHANGED <<look, saved, coding, others>>

(* Screen alignment and function keys change nothing that is kept here: the *)
(* erase character gets its blank back.                                     *)
OneMore(c) == state \in {"ESscf", "ESfunckey"} /\ Goto("ESinit") /\ KeepAll

ClearedPar == [i \in 0 .. NPAR - 1 |-> 0]

Osc(c) ==
  /\ state = "ESosc"
  /\ \/ /\ c = "P" /\ state' = "ESpalette" /\ npar' = 0 /\ par' = ClearedPar
        /\ UNCHANGED <<priv, loop>> /\ KeepAll
     \/ /\ c = "R" /\ Goto("ESinit") /\ palette' = {}
        /\ Silent /\ UNCHANGED <<look, chars, coding, modes>>
     \/ c \notin {"P", "R"} /\ Goto("ESinit") /\ KeepAll

Palette(c) ==
  /\ state = "ESpalette"
  /\ \/ /\ c \in DOMAIN Digit \cup DOMAIN HexLetter
        /\ par' = [par EXCEPT ![npar] = IF c \in DOMAIN Digit THEN Digit[c] ELSE HexLetter[c]]
        /\ npar' = npar + 1
        /\ \/ npar = 6 /\ palette' = palette \cup {par'[0]} /\ state' = "ESinit"
           \/ npar < 6 /\ UNCHANGED <<palette, state>>
        /\ Silent /\ UNCHANGED <<priv, loop, look, chars, coding, modes>>
     \/ c \notin DOMAIN Digit \cup DOMAIN HexLetter /\ Goto("ESinit") /\ KeepAll

-----------------------------------------------------------------------------
(* Control sequences.                                                       *)

Intermediate == [c \in {" ", "!", "quote", "$", "&", "*", "+"} |->
                   CASE c = " " -> "EScsi_space" [] c = "!" -> "EScsi_exclam"
                     [] c = "quote" -> "EScsi_dquote" [] c = "$" -> "EScsi_dollar"
                     [] c = "&" -> "EScsi_and" [] c = "*" -> "EScsi_star"
                     [] c = "+" -> "EScsi_plus"]

(* The defaults that a function of the screen puts into the parameters.     *)
AtLeast(n, d) == IF n = 0 THEN d ELSE n
LessOne(n) == IF n = 0 THEN 0 ELSE n - 1
ParDefaults(c, p) ==
  CASE c \in {"A", "k", "B", "e", "C", "a", "D", "j", "E", "F", "I", "Y"} ->
            [p EXCEPT ![0] = AtLeast(@, 1)]
    [] c \in {"G", "grave", "d"} -> [p EXCEPT ![0] = LessOne(@)]
    [] c \in {"H", "f"} -> [p EXCEPT ![0] = LessOne(@), ![1] = LessOne(@)]
    [] c = "r" -> [p EXCEPT ![0] = AtLeast(@, 1), ![1] = AtLeast(@, Rows)]
    [] OTHER -> p

Reports == [n \in {6, 15, 25, 26, 53, 62, 75, 85} |-> IF n = 6 THEN "DECXCPR" ELSE "DEC DSR"]

(* The functions that know a private parameter; 'n' knows it or not.        *)
PrivateFunction(c, n, p, pr) ==
  \/ /\ c \in {"h", "l"}
     /\ loop' = [f |-> "mode", i |-> 0, on |-> c = "h"]
     /\ state' = "ESinit" /\ npar' = n /\ par' = p /\ priv' = pr /\ KeepAll
  \/ /\ c = "$" /\ pr = "?"
     /\ state' = "EScsi_dollar" /\ npar' = n /\ par' = p /\ priv' = pr
     /\ UNCHANGED loop /\ KeepAll
  \/ /\ c \in {"J", "K"} /\ pr = "?"
     /\ state' = "ESinit" /\ npar' = n /\ par' = p /\ priv' = pr
     /\ UNCHANGED loop /\ KeepAll
  \/ /\ \/ c = "n"
        \/ c = "c" /\ pr \in {"=", ">", "?"}
        \/ c = "m" /\ pr = "?"
     /\ state' = "ESinit" /\ npar' = n /\ par' = p
     /\ priv' = IF c = "n" /\ pr # "?" THEN pr ELSE "none"
     /\ UNCHANGED loop
     /\ \/ /\ c = "c" /\ pr = "?"
           /\ modes' = [modes EXCEPT !.cursor_type = p[0] # 0]
           /\ Silent /\ UNCHANGED <<look, chars, coding, palette>>
        \/ /\ c = "c" /\ pr # "?"
           /\ IF p[0] # 0 THEN KeepAll ELSE Answer(IF pr = "=" THEN "DA3" ELSE "DA2")
        \/ /\ c = "m"
           /\ modes' = [modes EXCEPT !.complement_mask = p[0] # 0]
           /\ Silent /\ UNCHANGED <<look, chars, coding, palette>>
        \/ /\ c = "n" /\ pr = "?"
           /\ IF p[0] \in DOMAIN Reports THEN Answer(Reports[p[0]]) ELSE KeepAll
        \/ /\ c = "n" /\ pr # "?"
           /\ IF p[0] \in {5, 6} THEN Answer(IF p[0] = 5 THEN "DSR" ELSE "CPR") ELSE KeepAll

IsPrivate(c, pr) ==
  \/ c \in {"h", "l", "n"}
  \/ c \in {"$", "J", "K", "m"} /\ pr = "?"
  \/ c = "c" /\ pr \in {"=", ">", "?"}

(* The last byte of a sequence, or an intermediate one.                     *)
GotPars(c, n, p, pr) ==
  \/ PrivateFunction(c, n, p, pr)
  \/ /\ ~IsPrivate(c, pr) /\ pr # "none"
     /\ state' = "ESinit" /\ npar' = n /\ par' = p /\ priv' = "none"
     /\ UNCHANGED loop /\ KeepAll
  \/ /\ ~IsPrivate(c, pr) /\ pr = "none" /\ npar' = n /\ priv' = pr
     /\ \/ /\ c \in DOMAIN Intermediate
           /\ state' = Intermediate[c] /\ par' = p /\ UNCHANGED loop /\ KeepAll
        \/ /\ c \notin DOMAIN Intermediate
           /\ state' = "ESinit" /\ par' = ParDefaults(c, p)
           /\ loop' = IF c = "m" THEN [f |-> "sgr", i |-> 0, on |-> FALSE] ELSE loop
           /\ \/ c = "]" /\ setterm_command(p)
              \/ c = "c" /\ p[0] = 0 /\ Answer("DA")
              \/ c = "x" /\ Answer("DECREPTPARM")
              \/ c \notin {"]", "x"} /\ ~(c = "c" /\ p[0] = 0) /\ KeepAll

(* Faulty variant: a separator is counted without a look at the limit.      *)
SeparatorUnbounded(c, n) == c = ";" /\ n < NPAR

Separator(c, n) == c = ";" /\ n < NPAR - 1

GetPars(c, n, p, pr) ==
  \/ /\ Separator(c, n)
     /\ state' = "EScsi_getpars" /\ npar' = n + 1 /\ par' = p /\ priv' = pr
     /\ UNCHANGED loop /\ KeepAll
  \/ /\ c \in DOMAIN Digit
     /\ state' = "EScsi_getpars" /\ npar' = n /\ priv' = pr
     /\ par' = [p EXCEPT ![n] = (@ * 10 + Digit[c]) % Word]
     /\ UNCHANGED loop /\ KeepAll
  \/ ~Separator(c, n) /\ c \notin DOMAIN Digit /\ GotPars(c, n, p, pr)

Csi(c) ==
  /\ state = "EScsi"
  /\ \/ /\ c = "["
        /\ state' = "ESfunckey" /\ npar' = 0 /\ par' = ClearedPar
        /\ UNCHANGED <<priv, loop>> /\ KeepAll
     \/ /\ c \in {"<", "=", ">", "?"}
        /\ state' = IF c = "<" THEN "ESinit" ELSE "EScsi_getpars"
        /\ npar' = 0 /\ par' = ClearedPar /\ priv' = c
        /\ UNCHANGED loop /\ KeepAll
     \/ c \notin {"[", "<", "=", ">", "?"} /\ GetPars(c, 0, ClearedPar, "none")

Parameters(c) == state = "EScsi_getpars" /\ GetPars(c, npar, par, priv)

(* The byte after an intermediate one.                                      *)
AfterIntermediate(c) ==
  /\ state \in CsiStates \ {"EScsi_getpars"}
  /\ \/ state = "EScsi_exclam" /\ c = "p" /\ vte_ris
     \/ state = "EScsi_dquote" /\ c = "p" /\ Goto("ESinit") /\ vte_decscl
     \/ state = "EScsi_dollar" /\ c = "p" /\ Goto("ESinit")
        /\ Answer(vte_decrqm(priv = "?", par[0]))
     \/ /\ ~(state \in {"EScsi_exclam", "EScsi_dquote", "EScsi_dollar"} /\ c = "p")
        /\ Goto("ESinit") /\ KeepAll

Sequence(c) ==
  /\ c \notin C0 \cup {"DEL"} /\ ~(c8bit /\ c \in C1)
  /\ \/ state = "ESinit" /\ Goto("ESinit") /\ KeepAll
     \/ Esc(c)
     \/ AnnounceCode(c)
     \/ DesignateCoding(c)
     \/ DesignateSet(c)
     \/ OneMore(c)
     \/ Osc(c)
     \/ Palette(c)
     \/ Csi(c)
     \/ Parameters(c)
     \/ AfterIntermediate(c)

terminal_emulation(c) == ControlC0(c) \/ ControlC1(c) \/ Sequence(c)

-----------------------------------------------------------------------------
(* do_con_write: what becomes of the next byte.  In the ground state it is  *)
(* taken as it is; otherwise UTF-8 is combined, if it is on.  (The comment  *)
(* at this test, vt.c:1251, has it the other way round; no property is      *)
(* about it.)                                                               *)

(* The byte has a glyph of its own.                                         *)
Displayable(c) ==
  /\ c # "NUL"
  /\ c \in C0 => ~utf /\ c \notin (IF font.disp_ctrl THEN CTRL_ALWAYS ELSE CTRL_ACTION)
  /\ c = "DEL" => font.disp_ctrl
  /\ c # "CSI"

Combines == state # "ESinit" /\ utf
IsCont(c) == c \in C1 \cup {"cont"}

(* The reset forgets a partial character.                                   *)
Resets(c) == <<state, c>> \in {<<"ESesc", "c">>, <<"EScsi_exclam", "p">>}

(* A byte that is not part of a character of several bytes.                 *)
Plain(c) ==
  /\ ~(state = "ESinit" /\ Displayable(c))
  /\ terminal_emulation(c)
  /\ UNCHANGED alphabet

(* Text goes to the screen.                                                 *)
Display(c) ==
  /\ state = "ESinit" /\ Displayable(c)
  /\ UNCHANGED <<alphabet, parser, utf_count>> /\ KeepAll

Raw(c) ==
  /\ ~Combines
  /\ Plain(c)
  /\ utf_count' = IF Resets(c) THEN 0 ELSE utf_count

Ascii(c) == Combines /\ c \notin High /\ Plain(c) /\ utf_count' = 0

(* A byte that begins a character, continues one or breaks it off.          *)
Combine(c) ==
  /\ Combines /\ c \in High /\ ~(utf_count = 1 /\ IsCont(c))
  /\ utf_count' = IF IsCont(c) /\ utf_count > 0 THEN utf_count - 1
                  ELSE IF c \in DOMAIN Lead THEN Lead[c] ELSE 0
  /\ UNCHANGED <<alphabet, parser>> /\ KeepAll

(* The last byte of a character: an overlong form may stand for any byte.   *)
Combined(c) ==
  /\ Combines /\ utf_count = 1 /\ IsCont(c)
  /\ utf_count' = 0
  /\ \E d \in alphabet : Plain(d)

do_con_write(c) == Display(c) \/ Raw(c) \/ Ascii(c) \/ Combine(c) \/ Combined(c)

Byte == loop = NoLoop /\ \E c \in alphabet : do_con_write(c)

EmulatorNext == Byte \/ vte_sgr \/ vte_sgr_end \/ set_mode \/ set_mode_end

EmulatorSpec == EmulatorInit /\ [][EmulatorNext]_emulatorVars
-----------------------------------------------------------------------------
(* Properties.                                                              *)

(* The attribute and the erase character that the writers use are those of  *)
(* the current rendition, colours and screen mode, whichever of the nine    *)
(* functions changed them; only inside SGR are they behind.                 *)
AttrFresh ==
  loop.f # "sgr" => attr = AttrOf(dflt, rend, decscnm) /\ erase = EraseOf(dflt, rend, decscnm)

(* The translation table is the one of the active character set, unless SGR *)
(* chose the table of the font: designating, shifting, restoring and        *)
(* resetting all bring it along.                                            *)
TranslateFresh == font.translate \in {"IBMPC_MAP", IF sets.charset = 0 THEN sets.G0 ELSE sets.G1}

(* The attribute and the table that the writers use are fresh.              *)
CachesFresh == AttrFresh /\ TranslateFresh

(* vc_npar stays inside vc_par, in a control sequence and in a palette      *)
(* sequence, which counts to seven; a loop reads no parameter beyond; and a *)
(* parameter that the sequence did not give is zero, so that no function    *)
(* takes one of an earlier sequence for its own.                            *)
ParametersSound ==
  /\ npar \in 0 .. NPAR - 1 /\ DOMAIN par = 0 .. NPAR - 1
  /\ state = "ESpalette" => npar < 7 /\ \A i \in 0 .. NPAR - 1 : par[i] < 16
  /\ loop.f # "none" => state = "ESinit" /\ loop.i <= npar + 1
  /\ state \in CsiStates => \A i \in npar + 1 .. NPAR - 1 : par[i] = 0
=============================================================================
