----------------------------- MODULE MCDisplay -----------------------------
(***************************************************************************)
(* Instances of the modules about what is on a screen, for one run of TLC: *)
(* Screen, Selection and Vcs.  The three are abstractions of the same      *)
(* console that keep different parts of its state; a behaviour is one of   *)
(* one of them.                                                            *)
(***************************************************************************)
EXTENDS Screen, Vcs, Selection

VARIABLE part                                      \* the module of this behaviour

displayVars == <<part, vars, sel, vcsVars>>

(***************************************************************************)
(* Screen.  Four lines hold a region two lines below the cursor; two       *)
(* columns, text to insert into and to cut off with a resize.              *)
(***************************************************************************)
SmallSizes == {<<1, 4>>, <<2, 3>>}

(* Zero, the default; positions on the screen and one beyond it; and a      *)
(* value that is negative as an int.                                        *)
SmallParams == {0, 1, 2, 3, 12}

(* Saved cursors and tab stops do not meet the text in any action: they are *)
(* explored together only for a blank screen.                               *)
BoundedScreen ==
  \/ \A i \in DOMAIN text : text[i] = Blank
  \/ s.saved_x = 0 /\ s.saved_y = 0 /\ s.tab_stop = {}

(***************************************************************************)
(* Selection: a row of the past and two rows of the screen, with a word, a *)
(* row that ends in blanks and a character that is of no word.             *)
(***************************************************************************)
SomeTexts == {<<"a", "a", " ", "a", " ", " ", "a", "-", "a">>}
OneSeat == {[c \in {1, 2} |-> "A"]}
SomeCursors == {{"hard"}, {"soft"}, {}}

(***************************************************************************)
(* Vcs: a file of up to twelve bytes, moved in rounds of six.              *)
(***************************************************************************)
FileSizes == {<<2, 2>>, <<1, 2>>}

(***************************************************************************)
(* The run.                                                                *)
(***************************************************************************)
DisplayInit ==
  /\ part \in {"screen", "selection", "vcs"}
  /\ Init
  /\ part # "screen" => s.cols = 1
  /\ SelInit
  /\ VcsInit
  /\ part # "vcs" => size = <<1, 2>> /\ visible /\ ~ file.attr

DisplayNext ==
  \/ part = "screen" /\ Next /\ UNCHANGED <<part, sel, vcsVars>>
  \/ part = "selection" /\ SelNext /\ UNCHANGED <<part, vars, vcsVars>>
  \/ part = "vcs" /\ VcsNext /\ UNCHANGED <<part, vars, sel>>

DisplaySpec == DisplayInit /\ [][DisplayNext]_displayVars

(* The instances of other modules than that of the behaviour do not change, *)
(* and nothing reads the buffer of a selection that is no longer shown.     *)
View ==
  <<part, CASE part = "screen" -> vars
            [] part = "selection" -> IF sel.start = -1 THEN [sel EXCEPT !.buffer = <<>>] ELSE sel
            [] part = "vcs" -> vcsVars>>
=============================================================================
