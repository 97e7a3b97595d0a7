--------------------------- MODULE EmulatorProofs ---------------------------
(***************************************************************************)
(* Theorems about the terminal emulator: for any number of parameters, any *)
(* width of an integer, any alphabet and any display, vc_npar stays inside *)
(* vc_par, and the attribute and the translation table are those of the    *)
(* state they are computed from.                                           *)
(*                                                                         *)
(* A sequence is read by one function per state, so the argument follows   *)
(* the functions: what GetPars does with the parameters it is given, what  *)
(* each function does to the look and to the character sets, and last what *)
(* a byte does.                                                            *)
(***************************************************************************)
EXTENDS Emulator, TLAPS

(* What decvte.c assumes of its constants: vc_par has room for the seven    *)
(* digits of a palette sequence.                                            *)
Sizes == NPAR \in Nat /\ NPAR >= 8 /\ Word \in Nat /\ Word > 0 /\ Rows \in Nat

Indices == 0 .. NPAR - 1
Pars == [Indices -> Nat]
LoopRecord == [f : {"none", "sgr", "mode"}, i : Nat, on : BOOLEAN]
Tables == {"LAT1_MAP", "GRAF_MAP", "IBMPC_MAP", "USER_MAP"}
CharSets == [charset : {0, 1}, G0 : Tables, G1 : Tables]

(* The parameters: those beyond vc_npar are zero.                           *)
ZeroBeyond(n, p) == \A i \in n + 1 .. NPAR - 1 : p[i] = 0

ParInv ==
  /\ par \in Pars /\ npar \in Indices /\ loop \in LoopRecord
  /\ ParametersSound

-----------------------------------------------------------------------------
(* The parameters.                                                          *)

LEMMA DigitNat == \A c \in DOMAIN Digit : Digit[c] \in 0 .. 9
BY DEF Digit

(* A letter of a palette sequence (Palette) is one of the values ten to     *)
(* fifteen.                                                                 *)
LEMMA HexLetterNat == \A c \in DOMAIN HexLetter : HexLetter[c] \in 10 .. 15
BY DEF HexLetter

(* The records of the parameter loops of csi_m and set_mode start at the    *)
(* first parameter.                                                         *)
LEMMA LoopRecords ==
  /\ NoLoop \in LoopRecord /\ NoLoop.f = "none" /\ NoLoop.i = 0
  /\ \A k \in {"sgr", "mode"}, b \in BOOLEAN :
       LET l == [f |-> k, i |-> 0, on |-> b] IN l \in LoopRecord /\ l.i = 0 /\ l.f = k
BY DEF NoLoop, LoopRecord

(* An ESC [ clears the parameters: numbers all, and zero.                   *)
LEMMA Cleared ==
  ASSUME Sizes
  PROVE  ClearedPar \in Pars /\ ZeroBeyond(0, ClearedPar) /\ 0 \in Indices
         /\ \A i \in Indices : ClearedPar[i] = 0
BY DEF Sizes, ClearedPar, Pars, Indices, ZeroBeyond

(* A parameter that wraps around is a number still.                         *)
LEMMA NextDigit ==
  ASSUME Sizes, NEW p \in Pars, NEW n \in Indices, NEW c \in DOMAIN Digit
  PROVE  LET q == [p EXCEPT ![n] = (@ * 10 + Digit[c]) % Word]
         IN q \in Pars /\ (ZeroBeyond(n, p) => ZeroBeyond(n, q))
<1>1. p[n] \in Nat /\ Digit[c] \in Nat
  BY DigitNat DEF Pars
<1>2. p[n] * 10 + Digit[c] \in Nat
  BY <1>1
<1>3. \A k \in Nat : k % Word \in Nat
  BY DEF Sizes
<1>4. (p[n] * 10 + Digit[c]) % Word \in Nat
  BY <1>2, <1>3
<1> QED  BY <1>4 DEF Sizes, Pars, Indices, ZeroBeyond

(* The defaults a function puts in place of zero parameters are numbers.    *)
LEMMA DefaultsArePars ==
  ASSUME Sizes, NEW p \in Pars, NEW c
  PROVE  ParDefaults(c, p) \in Pars
<1>1. 0 \in Indices /\ 1 \in Indices
  BY DEF Sizes, Indices
<1>2. \A k \in Nat : LessOne(k) \in Nat /\ AtLeast(k, 1) \in Nat /\ AtLeast(k, Rows) \in Nat
  BY DEF LessOne, AtLeast, Sizes
<1>3. p[0] \in Nat /\ p[1] \in Nat
  BY <1>1 DEF Pars
<1>4. /\ [p EXCEPT ![0] = AtLeast(@, 1)] \in Pars
      /\ [p EXCEPT ![0] = LessOne(@)] \in Pars
      /\ [p EXCEPT ![0] = LessOne(@), ![1] = LessOne(@)] \in Pars
      /\ [p EXCEPT ![0] = AtLeast(@, 1), ![1] = AtLeast(@, Rows)] \in Pars
  BY <1>1, <1>2, <1>3 DEF Pars
<1> QED  BY <1>4 DEF ParDefaults

(* What a sequence that is being read leaves behind.                        *)
LEMMA GotParsKeeps ==
  ASSUME Sizes, loop = NoLoop, NEW c, NEW pr,
         NEW n \in Indices, NEW p \in Pars, ZeroBeyond(n, p), GotPars(c, n, p, pr)
  PROVE  ParInv'
<1>1. npar' = n /\ npar' \in Indices
  BY DEF GotPars, PrivateFunction
<1>2. par' \in Pars /\ (par' = p \/ state' = "ESinit")
  BY DefaultsArePars DEF GotPars, PrivateFunction
<1>3. loop' \in LoopRecord /\ (loop'.f # "none" => state' = "ESinit" /\ loop'.i = 0)
  <2>1. \/ loop' = loop
        \/ state' = "ESinit" /\ loop' = [f |-> "mode", i |-> 0, on |-> c = "h"]
        \/ state' = "ESinit" /\ loop' = [f |-> "sgr", i |-> 0, on |-> FALSE]
    BY DEF GotPars, PrivateFunction
  <2>2. (c = "h") \in BOOLEAN
    OBVIOUS
  <2> QED  BY <2>1, <2>2, LoopRecords
<1>4. state' # "ESpalette"
  BY DEF GotPars, PrivateFunction, Intermediate
<1>5. state' \in CsiStates => ZeroBeyond(npar', par')
  BY <1>1, <1>2 DEF CsiStates
<1> QED  BY <1>1, <1>2, <1>3, <1>4, <1>5 DEF ParInv, ParametersSound, Pars, Indices, ZeroBeyond

(* The state EScsi_getpars, a digit, a separator or the final character,    *)
(* keeps the parameters sound.                                              *)
LEMMA GetParsKeeps ==
  ASSUME Sizes, loop = NoLoop, NEW c, NEW pr,
         NEW n \in Indices, NEW p \in Pars, ZeroBeyond(n, p), GetPars(c, n, p, pr)
  PROVE  ParInv'
<1>1. CASE Separator(c, n) /\ state' = "EScsi_getpars" /\ npar' = n + 1 /\ par' = p /\ loop' = loop
  <2>1. npar' \in Indices /\ ZeroBeyond(npar', par')
    <3>0. n < NPAR - 1 /\ npar' = n + 1 /\ par' = p
      BY <1>1 DEF Separator
    <3>1. n \in Nat /\ NPAR \in Nat
      BY DEF Indices, Sizes
    <3>2. \A i \in n + 1 + 1 .. NPAR - 1 : i \in n + 1 .. NPAR - 1
      BY <3>1
    <3> QED  BY <3>0, <3>1, <3>2 DEF Indices, ZeroBeyond
  <2> QED  BY <1>1, <2>1, LoopRecords DEF ParInv, ParametersSound, Pars, Indices, ZeroBeyond, CsiStates
<1>2. CASE /\ c \in DOMAIN Digit /\ state' = "EScsi_getpars" /\ npar' = n /\ loop' = loop
           /\ par' = [p EXCEPT ![n] = (@ * 10 + Digit[c]) % Word]
  <2>1. par' \in Pars /\ ZeroBeyond(npar', par')
    BY <1>2, NextDigit
  <2> QED  BY <1>2, <2>1 DEF ParInv, ParametersSound, Pars, Indices, ZeroBeyond, NoLoop,
                           LoopRecord, CsiStates
<1>3. CASE GotPars(c, n, p, pr)
  BY <1>3, GotParsKeeps
<1> QED  BY <1>1, <1>2, <1>3 DEF GetPars

(* Elsewhere the parameters are cleared, kept, or those of a palette entry. *)
LEMMA ParKept ==
  ASSUME ParInv, UNCHANGED <<npar, par, loop>>, state' = state \/ state' \notin {"ESpalette"} \cup CsiStates,
         loop = NoLoop
  PROVE  ParInv'
BY DEF ParInv, ParametersSound, NoLoop

(* A sequence that starts over, with its parameters cleared, is sound.      *)
LEMMA ParCleared ==
  ASSUME Sizes, ParInv, npar' = 0, par' = ClearedPar, loop' = loop, loop = NoLoop
  PROVE  ParInv'
<1>1. par' \in Pars /\ ZeroBeyond(0, par') /\ 0 \in Indices /\ \A i \in Indices : par'[i] = 0
  BY Cleared
<1> QED  BY <1>1 DEF ParInv, ParametersSound, Pars, Indices, ZeroBeyond, NoLoop, LoopRecord

(* The seven digits of a palette sequence fill parameters that stay inside  *)
(* the array.                                                               *)
LEMMA PaletteKeeps ==
  ASSUME Sizes, ParInv, loop = NoLoop, NEW c, Palette(c)
  PROVE  ParInv'
<1>1. CASE c \in DOMAIN Digit \cup DOMAIN HexLetter
  <2> DEFINE v == IF c \in DOMAIN Digit THEN Digit[c] ELSE HexLetter[c]
  <2>1. v \in 0 .. 15
    BY <1>1, DigitNat, HexLetterNat
  <2>2. npar \in Indices /\ npar < 7 /\ par \in Pars /\ \A i \in Indices : par[i] < 16
    BY DEF Palette, ParInv, ParametersSound, Indices
  <2>3. par' = [par EXCEPT ![npar] = v] /\ npar' = npar + 1 /\ loop' = loop
        /\ ((npar = 6 /\ state' = "ESinit") \/ (npar < 6 /\ state' = state))
    BY <1>1 DEF Palette
  <2> HIDE DEF v
  <2>4. par' \in Pars /\ npar' \in Indices /\ \A i \in Indices : par'[i] < 16
    BY <2>1, <2>2, <2>3 DEF Pars, Indices, Sizes
  <2>5. state = "ESpalette"
    BY DEF Palette
  <2> QED  BY <2>2, <2>3, <2>4, <2>5 DEF ParInv, ParametersSound, Pars, Indices, Sizes, NoLoop,
                                LoopRecord, CsiStates
<1>2. CASE c \notin DOMAIN Digit \cup DOMAIN HexLetter
  BY <1>2, ParKept DEF Palette, Goto, CsiStates
<1> QED  BY <1>1, <1>2

(* A character in whatever state of terminal_emulation keeps the parameters *)
(* sound.                                                                   *)
LEMMA EmulationKeepsPars ==
  ASSUME Sizes, ParInv, loop = NoLoop, NEW c, terminal_emulation(c)
  PROVE  ParInv'
<1> USE DEF CsiStates
<1>1. CASE ControlC0(c)
  <2>1. UNCHANGED <<npar, par, loop>> /\ (state' = state \/ state' \in {"ESinit", "ESesc"})
    BY <1>1 DEF ControlC0, Goto
  <2> QED  BY <2>1, ParKept
<1>2. CASE ControlC1(c)
  <2>1. UNCHANGED <<npar, par, loop>> /\ (state' = state \/ state' = "EScsi")
    BY <1>2 DEF ControlC1, Goto
  <2> QED  BY <2>1, ParKept
<1>3. CASE Sequence(c)
  <2>1. CASE state = "ESinit" /\ Goto("ESinit")
    BY <2>1, ParKept DEF Goto
  <2>2. CASE Esc(c)
    <3>1. UNCHANGED <<npar, par, loop>>
          /\ state' \in {"ESinit", "ESacs", "ESscf", "ESdocs", "ESgzd4", "ESg1d4", "EScsi", "ESosc"}
      BY <2>2 DEF Esc, Goto, EscNext, vte_ris
    <3> QED  BY <3>1, ParKept
  <2>3. CASE AnnounceCode(c) \/ DesignateCoding(c) \/ DesignateSet(c) \/ OneMore(c)
    BY <2>3, ParKept DEF AnnounceCode, DesignateCoding, DesignateSet, OneMore, Goto
  <2>4. CASE Osc(c)
    <3>1. \/ UNCHANGED <<npar, par, loop>> /\ state' = "ESinit"
          \/ npar' = 0 /\ par' = ClearedPar /\ loop' = loop
      BY <2>4 DEF Osc, Goto
    <3> QED  BY <3>1, ParKept, ParCleared
  <2>5. CASE Palette(c)
    BY <2>5, PaletteKeeps
  <2>6. CASE Csi(c)
    <3>1. CASE GetPars(c, 0, ClearedPar, "none")
      BY <3>1, GetParsKeeps, Cleared
    <3>2. CASE npar' = 0 /\ par' = ClearedPar /\ loop' = loop
      BY <3>2, ParCleared
    <3> QED  BY <2>6, <3>1, <3>2 DEF Csi
  <2>7. CASE Parameters(c)
    <3>1. npar \in Indices /\ par \in Pars /\ ZeroBeyond(npar, par) /\ GetPars(c, npar, par, priv)
      BY <2>7 DEF Parameters, ParInv, ParametersSound, ZeroBeyond, Indices
    <3> QED  BY <3>1, GetParsKeeps
  <2>8. CASE AfterIntermediate(c)
    <3>1. UNCHANGED <<npar, par, loop>> /\ state' = "ESinit"
      BY <2>8 DEF AfterIntermediate, Goto, vte_ris
    <3> QED  BY <3>1, ParKept
  <2> QED  BY <1>3, <2>1, <2>2, <2>3, <2>4, <2>5, <2>6, <2>7, <2>8 DEF Sequence
<1> QED  BY <1>1, <1>2, <1>3 DEF terminal_emulation

(* A byte reaches the emulator as it is or as the end of a character, or    *)
(* leaves the parser alone.                                                 *)
LEMMA ByteCases ==
  ASSUME Byte
  PROVE  /\ loop = NoLoop
         /\ \/ UNCHANGED parser /\ KeepAll
            \/ \E c \in alphabet : terminal_emulation(c)
BY DEF Byte, do_con_write, Display, Raw, Ascii, Combine, Combined, Plain

(* Every step keeps the parameters sound.                                   *)
LEMMA ParStep ==
  ASSUME Sizes, ParInv, [EmulatorNext]_emulatorVars
  PROVE  ParInv'
<1>1. CASE Byte
  <2>1. CASE UNCHANGED parser
    BY <2>1 DEF parser, ParInv, ParametersSound
  <2>2. CASE \E c \in alphabet : terminal_emulation(c)
    BY <1>1, <2>2, ByteCases, EmulationKeepsPars
  <2> QED  BY <1>1, <2>1, <2>2, ByteCases
<1>2. CASE vte_sgr \/ set_mode
  <2>1. /\ loop.f # "none" /\ loop.i <= npar /\ loop' = [loop EXCEPT !.i = loop.i + 1]
        /\ UNCHANGED <<state, npar, par>>
    BY <1>2 DEF vte_sgr, set_mode
  <2>2. loop' \in LoopRecord /\ loop'.i = loop.i + 1 /\ loop'.f = loop.f
    BY <2>1 DEF ParInv, LoopRecord
  <2> QED  BY <2>1, <2>2 DEF ParInv, ParametersSound, Indices, LoopRecord, Sizes
<1>3. CASE vte_sgr_end \/ set_mode_end
  <2>1. loop' = NoLoop /\ UNCHANGED <<state, npar, par>>
    BY <1>3 DEF vte_sgr_end, set_mode_end
  <2> QED  BY <2>1, LoopRecords DEF ParInv, ParametersSound
<1>4. CASE UNCHANGED emulatorVars
  BY <1>4 DEF emulatorVars, parser, ParInv, ParametersSound
<1> QED  BY <1>1, <1>2, <1>3, <1>4 DEF EmulatorNext

(* The parameters are sound at the start.                                   *)
LEMMA ParStart == Sizes /\ EmulatorInit => ParInv
<1> SUFFICES ASSUME Sizes, EmulatorInit PROVE ParInv
  OBVIOUS
<1>1. par = ClearedPar
  BY DEF EmulatorInit, ClearedPar
<1>2. par \in Pars /\ npar \in Indices
  BY <1>1, Cleared DEF EmulatorInit
<1> QED  BY <1>2 DEF EmulatorInit, ParInv, ParametersSound, NoLoop, LoopRecord, Pars, Indices, CsiStates

(* vc_npar indexes vc_par, a palette sequence counts to seven, the loops of *)
(* SGR and of the modes stay below vc_npar, and a parameter that a sequence *)
(* did not give is zero: for any NPAR of at least eight, any width of an    *)
(* unsigned int and any bytes.                                              *)
THEOREM ParametersStaySound == Sizes => (EmulatorSpec => []ParametersSound)
<1> SUFFICES ASSUME Sizes PROVE EmulatorSpec => []ParametersSound
  OBVIOUS
<1>1. EmulatorInit => ParInv
  BY ParStart
<1>2. ParInv /\ [EmulatorNext]_emulatorVars => ParInv'
  BY ParStep
<1>3. ParInv => ParametersSound
  BY DEF ParInv
<1> QED  BY <1>1, <1>2, <1>3, PTL DEF EmulatorSpec
-----------------------------------------------------------------------------
(* The caches.                                                              *)

(* What a restore brings back is a pair of character sets as well.          *)
LookInv ==
  /\ DOMAIN dflt = {"def_color", "ulcolor", "halfcolor"}
  /\ AttrFresh

CharsInv ==
  /\ sets \in CharSets /\ saved.sets \in CharSets
  /\ font \in [translate : Tables, disp_ctrl : BOOLEAN, toggle_meta : BOOLEAN]
  /\ TranslateFresh

(* update_attr computes both attributes anew.                               *)
LEMMA AttrUpdated == update_attr => AttrFresh'
BY DEF update_attr, AttrFresh

(* A colour is part of the attribute only where it is used.                 *)
LEMMA ColourNotUsed ==
  ASSUME DOMAIN dflt = {"def_color", "ulcolor", "halfcolor"}, NEW x, NEW scnm, NEW r
  PROVE  /\ ~r.underline =>
              AttrOf([dflt EXCEPT !.ulcolor = x], r, scnm) = AttrOf(dflt, r, scnm)
         /\ EraseOf([dflt EXCEPT !.ulcolor = x], r, scnm) = EraseOf(dflt, r, scnm)
         /\ r.intensity # 0 =>
              /\ AttrOf([dflt EXCEPT !.halfcolor = x], r, scnm) = AttrOf(dflt, r, scnm)
              /\ EraseOf([dflt EXCEPT !.halfcolor = x], r, scnm) = EraseOf(dflt, r, scnm)
<1> DEFINE u == [dflt EXCEPT !.ulcolor = x]
           h == [dflt EXCEPT !.halfcolor = x]
<1>1. u.halfcolor = dflt.halfcolor /\ h.ulcolor = dflt.ulcolor
  OBVIOUS
<1> HIDE DEF u, h
<1>2. ~r.underline => AttrOf(u, r, scnm) = AttrOf(dflt, r, scnm)
  BY <1>1 DEF AttrOf, build_attr
<1>3. EraseOf(u, r, scnm) = EraseOf(dflt, r, scnm)
  BY <1>1 DEF EraseOf, build_attr
<1>4. r.intensity # 0 => AttrOf(h, r, scnm) = AttrOf(dflt, r, scnm)
  BY <1>1 DEF AttrOf, build_attr
<1>5. r.intensity # 0 => EraseOf(h, r, scnm) = EraseOf(dflt, r, scnm)
  BY <1>1 DEF EraseOf, build_attr
<1> QED  BY <1>2, <1>3, <1>4, <1>5 DEF u, h

(* A setterm command leaves the attributes those of the rendition: it       *)
(* computes them, or changes a colour no attribute uses.                    *)
LEMMA SettermKeepsLook ==
  ASSUME LookInv, loop = NoLoop, NEW p, setterm_command(p)
  PROVE  LookInv'
<1>1. attr = AttrOf(dflt, rend, decscnm) /\ erase = EraseOf(dflt, rend, decscnm)
  BY DEF LookInv, AttrFresh, NoLoop
<1>2. DOMAIN dflt' = {"def_color", "ulcolor", "halfcolor"}
  BY DEF LookInv, setterm_command, look
<1>3. CASE /\ dflt' = [dflt EXCEPT !.ulcolor = color_table(p[1])] /\ UNCHANGED <<rend, decscnm>>
           /\ IF rend.underline THEN update_attr ELSE UNCHANGED <<attr, erase>>
  BY <1>1, <1>2, <1>3, ColourNotUsed, AttrUpdated DEF LookInv, AttrFresh
<1>4. CASE /\ dflt' = [dflt EXCEPT !.halfcolor = color_table(p[1])] /\ UNCHANGED <<rend, decscnm>>
           /\ IF rend.intensity = 0 THEN update_attr ELSE UNCHANGED <<attr, erase>>
  BY <1>1, <1>2, <1>4, ColourNotUsed, AttrUpdated DEF LookInv, AttrFresh
<1>5. CASE update_attr
  BY <1>2, <1>5, AttrUpdated DEF LookInv
<1>6. CASE UNCHANGED look
  BY <1>1, <1>2, <1>6 DEF look, LookInv, AttrFresh
<1> QED  BY <1>3, <1>4, <1>5, <1>6 DEF setterm_command

(* Every other function leaves the look alone or computes it anew.          *)
LEMMA LookKept ==
  ASSUME LookInv, loop = NoLoop, UNCHANGED look \/ (dflt' = dflt /\ update_attr)
  PROVE  LookInv'
<1>1. CASE UNCHANGED look
  BY <1>1 DEF look, LookInv, AttrFresh, NoLoop
<1>2. CASE dflt' = dflt /\ update_attr
  BY <1>2, AttrUpdated DEF LookInv
<1> QED  BY <1>1, <1>2

(* The function of a control sequence keeps the attributes fresh.           *)
LEMMA GotParsKeepsLook ==
  ASSUME LookInv, loop = NoLoop, NEW c, NEW n, NEW p, NEW pr, GotPars(c, n, p, pr)
  PROVE  LookInv'
<1>1. UNCHANGED look \/ setterm_command(p)
  BY DEF GotPars, PrivateFunction, KeepAll, Answer
<1> QED  BY <1>1, LookKept, SettermKeepsLook

(* A character inside a control sequence keeps the attributes fresh.        *)
LEMMA GetParsKeepsLook ==
  ASSUME LookInv, loop = NoLoop, NEW c, NEW n, NEW p, NEW pr, GetPars(c, n, p, pr)
  PROVE  LookInv'
<1>1. UNCHANGED look \/ GotPars(c, n, p, pr)
  BY DEF GetPars, KeepAll
<1> QED  BY <1>1, LookKept, GotParsKeepsLook

(* A character in whatever state keeps the attributes fresh.                *)
LEMMA EmulationKeepsLook ==
  ASSUME LookInv, loop = NoLoop, NEW c, terminal_emulation(c)
  PROVE  LookInv'
<1>1. CASE ControlC0(c)
  BY <1>1, LookKept DEF ControlC0, Answer, KeepAll
<1>2. CASE ControlC1(c)
  BY <1>2, LookKept DEF ControlC1, Answer, KeepAll
<1>3. CASE Sequence(c)
  <2>1. CASE KeepAll
    BY <2>1, LookKept DEF KeepAll
  <2>2. CASE Esc(c)
    <3>1. UNCHANGED look \/ (dflt' = dflt /\ update_attr)
      BY <2>2 DEF Esc, EscFunction, vte_ris, vte_decsc, vte_decrc, KeepAll, Answer
    <3> QED  BY <3>1, LookKept
  <2>3. CASE AnnounceCode(c) \/ DesignateCoding(c) \/ DesignateSet(c) \/ OneMore(c)
    BY <2>3, LookKept DEF AnnounceCode, DesignateCoding, DesignateSet, OneMore, KeepAll
  <2>4. CASE Osc(c) \/ Palette(c)
    BY <2>4, LookKept DEF Osc, Palette, KeepAll
  <2>5. CASE Csi(c)
    <3>1. UNCHANGED look \/ GetPars(c, 0, ClearedPar, "none")
      BY <2>5 DEF Csi, KeepAll
    <3> QED  BY <3>1, LookKept, GetParsKeepsLook
  <2>6. CASE Parameters(c)
    BY <2>6, GetParsKeepsLook DEF Parameters
  <2>7. CASE AfterIntermediate(c)
    <3>1. UNCHANGED look \/ (dflt' = dflt /\ update_attr)
      BY <2>7 DEF AfterIntermediate, vte_ris, vte_decscl, KeepAll, Answer
    <3> QED  BY <3>1, LookKept
  <2> QED  BY <1>3, <2>1, <2>2, <2>3, <2>4, <2>5, <2>6, <2>7 DEF Sequence
<1> QED  BY <1>1, <1>2, <1>3 DEF terminal_emulation

(* The character sets: who changes one brings the table along.              *)
LEMMA CharsKept == CharsInv /\ UNCHANGED chars => CharsInv'
BY DEF CharsInv, TranslateFresh, chars

(* SO and SI invoke the set the translation is taken from.                  *)
LEMMA ShiftKeepsChars ==
  ASSUME CharsInv, NEW n \in {0, 1}, Shift(n), saved' = saved
  PROVE  CharsInv'
<1> DEFINE m == IF n = 1 THEN sets.G1 ELSE sets.G0
           b == (n = 1)
<1>1. /\ sets' = [sets EXCEPT !.charset = n]
      /\ font' = [font EXCEPT !.translate = m, !.disp_ctrl = b]
  BY DEF Shift
<1>2. m \in Tables /\ b \in BOOLEAN
  BY DEF CharsInv, CharSets
<1>3. sets' \in CharSets /\ m = IF sets'.charset = 0 THEN sets'.G0 ELSE sets'.G1
  BY <1>1 DEF CharsInv, CharSets
<1> HIDE DEF m, b
<1>4. font' \in [translate : Tables, disp_ctrl : BOOLEAN, toggle_meta : BOOLEAN]
      /\ font'.translate = m
  BY <1>1, <1>2 DEF CharsInv
<1> QED  BY <1>3, <1>4 DEF CharsInv, TranslateFresh

(* A reset (vte_ris) leaves set and translation together.                   *)
LEMMA ResetKeepsChars ==
  ASSUME CharsInv, vte_ris
  PROVE  CharsInv'
BY DEF CharsInv, TranslateFresh, vte_ris, CharSets, SetsReset, FontReset, Tables

(* vte_decrc brings the saved sets back with their translation.             *)
LEMMA RestoreKeepsChars ==
  ASSUME CharsInv, vte_decrc
  PROVE  CharsInv'
<1> DEFINE m == IF sets'.charset = 1 THEN sets'.G1 ELSE sets'.G0
<1>1. sets' \in CharSets /\ saved' = saved /\ font' = [font EXCEPT !.translate = m]
  BY DEF CharsInv, vte_decrc, set_translate
<1>2. m \in Tables /\ m = IF sets'.charset = 0 THEN sets'.G0 ELSE sets'.G1
  BY <1>1 DEF CharSets
<1> HIDE DEF m
<1> QED  BY <1>1, <1>2 DEF CharsInv, TranslateFresh

(* vte_decsc saves sets and leaves the translation alone.                   *)
LEMMA SaveKeepsChars ==
  ASSUME CharsInv, vte_decsc
  PROVE  CharsInv'
BY DEF CharsInv, TranslateFresh, vte_decsc

(* Designating the set in use changes the translation too, another one does *)
(* not.                                                                     *)
LEMMA DesignateKeepsChars ==
  ASSUME CharsInv, NEW c, DesignateSet(c)
  PROVE  CharsInv'
<1>1. \A m \in Tables : MapOf(c, m) \in Tables
  BY DEF MapOf, Tables
<1>2. saved' = saved
  BY DEF DesignateSet
<1>3. CASE /\ sets' = [sets EXCEPT !.G0 = MapOf(c, sets.G0)]
           /\ IF sets.charset = 0 THEN set_translate(sets'.G0) ELSE UNCHANGED font
  BY <1>1, <1>2, <1>3 DEF CharsInv, TranslateFresh, CharSets, set_translate
<1>4. CASE /\ sets' = [sets EXCEPT !.G1 = MapOf(c, sets.G1)]
           /\ IF sets.charset = 1 THEN set_translate(sets'.G1) ELSE UNCHANGED font
  BY <1>1, <1>2, <1>4 DEF CharsInv, TranslateFresh, CharSets, set_translate
<1> QED  BY <1>3, <1>4 DEF DesignateSet

(* A character inside a control sequence keeps the translation fresh.       *)
LEMMA GetParsKeepsChars ==
  ASSUME CharsInv, NEW c, NEW n, NEW p, NEW pr, GetPars(c, n, p, pr)
  PROVE  CharsInv'
<1>1. GotPars(c, n, p, pr) => UNCHANGED chars
  BY DEF GotPars, PrivateFunction, KeepAll, Answer, setterm_command
<1> QED  BY <1>1, CharsKept DEF GetPars, KeepAll

(* A character in whatever state keeps the translation fresh.               *)
LEMMA EmulationKeepsChars ==
  ASSUME CharsInv, NEW c, terminal_emulation(c)
  PROVE  CharsInv'
<1>1. CASE ControlC0(c)
  <2>1. \/ UNCHANGED chars
        \/ (Shift(0) \/ Shift(1)) /\ saved' = saved
    BY <1>1 DEF ControlC0, Answer, KeepAll, chars
  <2> QED  BY <2>1, CharsKept, ShiftKeepsChars
<1>2. CASE ControlC1(c)
  BY <1>2, CharsKept DEF ControlC1, Answer, KeepAll
<1>3. CASE Sequence(c)
  <2>1. CASE KeepAll
    BY <2>1, CharsKept DEF KeepAll
  <2>2. CASE Esc(c)
    <3>1. UNCHANGED chars \/ vte_ris \/ vte_decsc \/ vte_decrc
      BY <2>2 DEF Esc, EscFunction, KeepAll, Answer
    <3> QED  BY <3>1, CharsKept, ResetKeepsChars, SaveKeepsChars, RestoreKeepsChars
  <2>3. CASE AnnounceCode(c) \/ DesignateCoding(c) \/ OneMore(c)
    BY <2>3, CharsKept DEF AnnounceCode, DesignateCoding, OneMore, KeepAll
  <2>4. CASE Osc(c) \/ Palette(c)
    BY <2>4, CharsKept DEF Osc, Palette, KeepAll
  <2>5. CASE Csi(c)
    <3>1. UNCHANGED chars \/ GetPars(c, 0, ClearedPar, "none")
      BY <2>5 DEF Csi, KeepAll
    <3> QED  BY <3>1, CharsKept, GetParsKeepsChars
  <2>6. CASE Parameters(c)
    BY <2>6, GetParsKeepsChars DEF Parameters
  <2>7. CASE AfterIntermediate(c)
    <3>1. UNCHANGED chars \/ vte_ris
      BY <2>7 DEF AfterIntermediate, vte_decscl, KeepAll, Answer
    <3> QED  BY <3>1, CharsKept, ResetKeepsChars
  <2>8. CASE DesignateSet(c)
    BY <2>8, DesignateKeepsChars
  <2> QED  BY <1>3, <2>1, <2>2, <2>3, <2>4, <2>5, <2>6, <2>7, <2>8 DEF Sequence
<1> QED  BY <1>1, <1>2, <1>3 DEF terminal_emulation

CacheInv == loop \in LoopRecord /\ LookInv /\ CharsInv

(* The loops: only SGR lets the attribute fall behind, and ends with it.    *)
LEMMA CacheStep ==
  ASSUME ParInv', CacheInv, [EmulatorNext]_emulatorVars
  PROVE  CacheInv'
<1>0. loop' \in LoopRecord
  BY DEF ParInv
<1>1. CASE Byte
  <2>1. CASE UNCHANGED parser /\ KeepAll
    BY <1>0, <1>1, <2>1, ByteCases, LookKept, CharsKept DEF KeepAll, CacheInv
  <2>2. CASE \E c \in alphabet : terminal_emulation(c)
    BY <1>0, <1>1, <2>2, ByteCases, EmulationKeepsLook, EmulationKeepsChars DEF CacheInv
  <2> QED  BY <1>1, <2>1, <2>2, ByteCases
<1>2. CASE vte_sgr
  <2>1. loop'.f = "sgr" /\ dflt' = dflt
    BY <1>2 DEF vte_sgr, CacheInv, LoopRecord
  <2>2. LookInv'
    BY <2>1 DEF CacheInv, LookInv, AttrFresh
  <2>3. CharsInv'
    BY <1>2 DEF vte_sgr, SgrFont, CacheInv, CharsInv, TranslateFresh, CharSets, Tables
  <2> QED  BY <1>0, <2>2, <2>3 DEF CacheInv
<1>3. CASE vte_sgr_end
  BY <1>0, <1>3, AttrUpdated, CharsKept DEF vte_sgr_end, CacheInv, LookInv
<1>4. CASE set_mode
  <2>1. loop.f # "sgr" /\ loop.on \in BOOLEAN
    BY <1>4 DEF set_mode, CacheInv, LoopRecord
  <2>2. dflt' = dflt
    BY <1>4 DEF set_mode, look
  <2>3. LookInv'
    <3>1. CASE UNCHANGED look
      BY <2>1, <3>1 DEF look, CacheInv, LookInv, AttrFresh
    <3>2. CASE update_attr
      BY <2>2, <3>2, AttrUpdated DEF CacheInv, LookInv
    <3> QED  BY <1>4, <3>1, <3>2 DEF set_mode, look
  <2>4. CharsInv'
    <3>1. UNCHANGED <<sets, saved>>
      BY <1>4 DEF set_mode
    <3>2. font' = font \/ font' = [font EXCEPT !.disp_ctrl = IF par[loop.i] = 3 THEN loop.on ELSE @]
      BY <1>4 DEF set_mode
    <3> QED  BY <2>1, <3>1, <3>2 DEF CacheInv, CharsInv, TranslateFresh
  <2> QED  BY <1>0, <2>3, <2>4 DEF CacheInv
<1>5. CASE set_mode_end
  <2>1. loop.f = "mode" /\ UNCHANGED look /\ UNCHANGED chars
    BY <1>5 DEF set_mode_end
  <2> QED  BY <1>0, <2>1, CharsKept DEF CacheInv, look, LookInv, AttrFresh
<1>6. CASE UNCHANGED emulatorVars
  <2>1. UNCHANGED <<parser, look, chars>>
    BY <1>6 DEF emulatorVars
  <2> QED  BY <1>0, <2>1, CharsKept DEF CacheInv, parser, look, LookInv, AttrFresh
<1> QED  BY <1>1, <1>2, <1>3, <1>4, <1>5, <1>6 DEF EmulatorNext

(* What is cached is fresh at the start.                                    *)
LEMMA CacheStart == EmulatorInit => CacheInv
<1> SUFFICES ASSUME EmulatorInit PROVE CacheInv
  OBVIOUS
<1>1. LookInv
  BY DEF EmulatorInit, LookInv, AttrFresh
<1>2. CharsInv
  BY DEF EmulatorInit, CharsInv, TranslateFresh, CharSets, SetsReset, FontReset, Tables
<1> QED  BY <1>1, <1>2, LoopRecords DEF EmulatorInit, CacheInv

(* The attribute, the erase character and the translation table are those   *)
(* of the rendition, the colours, the screen mode and the character sets,   *)
(* for any sequence of bytes, on a colour display or a monochrome one.      *)
THEOREM CachesStayFresh == Sizes => (EmulatorSpec => []CachesFresh)
<1> SUFFICES ASSUME Sizes PROVE EmulatorSpec => []CachesFresh
  OBVIOUS
<1>1. EmulatorInit => ParInv /\ CacheInv
  BY ParStart, CacheStart
<1>2. ParInv /\ CacheInv /\ [EmulatorNext]_emulatorVars => ParInv' /\ CacheInv'
  BY ParStep, CacheStep
<1>3. CacheInv => CachesFresh
  BY DEF CacheInv, LookInv, CharsInv, CachesFresh
<1> QED  BY <1>1, <1>2, <1>3, PTL DEF EmulatorSpec
=============================================================================
