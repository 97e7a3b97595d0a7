-------------------------------- MODULE Vcs --------------------------------
(***************************************************************************)
(* The screen devices /dev/vcs and /dev/vcsa: a console's screen as a file *)
(* of characters, or of a header (rows, columns, cursor) and characters    *)
(* with attributes.                                                        *)
(*                                                                         *)
(* Source: drivers/char/vc_screen.c.                                       *)
(*                                                                         *)
(* A call holds the lock of the display, but moves its bytes in rounds and *)
(* drops the console semaphore in each, to touch user memory: in between   *)
(* the console is written to, resized or switched.  Every step here is one *)
(* stretch under the semaphore.  The console has a hardware cursor and no  *)
(* selection, and is not in origin mode.  A round may touch memory beyond  *)
(* the screen: then it does so here too.                                   *)
(***************************************************************************)
EXTENDS Integers, Sequences, FiniteSets

CONSTANTS
  ConsoleSizes,  \* the sizes <<rows, columns>> a console is given
  BUF_SIZE,      \* of the buffer of a round: even, larger than the header
  Counts,        \* numbers of bytes programs ask for
  MaxCalls,      \* bound: calls of read and write
  NULL

VARIABLES
  size,          \* <<vc_rows, vc_cols>>
  cells,         \* cells[i]: the character and the attribute on the screen
  cursor,        \* <<vc_x, vc_y>>
  visible,       \* the console is in the foreground
  file,          \* attr: vcsa rather than vcs; pos: f_pos
  call,          \* the call that holds the lock, or NULL
  calls,         \* history: the number of calls
  moved,         \* history: the bytes of the last round as the code, and as the
                 \* definition of the file, has them
  content           \* history: the cells as the definition of the file has them

vcsVars == <<size, cells, cursor, visible, file, call, calls, moved, content>>

HEADER_SIZE == 4

ASSUME VcsAssumption ==
  /\ ConsoleSizes \subseteq (Nat \ {0}) \X (Nat \ {0})
  /\ BUF_SIZE \in Nat /\ BUF_SIZE > HEADER_SIZE /\ BUF_SIZE % 2 = 0
  /\ Counts \subseteq Nat

N == size[1] * size[2]
Erased == [ch |-> 0, at |-> 0]

(* The memory that is counted in cells of the screen: what is beyond them   *)
(* is not the console's.                                                    *)
Foreign == [ch |-> NULL, at |-> NULL]
CellAt(i) == IF i \in DOMAIN cells THEN cells[i] ELSE Foreign

VcsInit ==
  /\ size \in ConsoleSizes
  /\ cells = [i \in 0 .. N - 1 |-> [ch |-> 10 + i, at |-> 20 + i]] /\ content = cells
  /\ cursor = <<0, 0>> /\ visible \in BOOLEAN
  /\ file \in [attr : BOOLEAN, pos : {0}]
  /\ call = NULL /\ calls = 0 /\ moved = <<<<>>, <<>>>>

vcs_size == IF file.attr THEN 2 * N + HEADER_SIZE ELSE N

(***************************************************************************)
(* The file, byte by byte: the definition the rounds are held against.     *)
(***************************************************************************)
Header == <<size[1] % 256, size[2] % 256, cursor[1] % 256, cursor[2] % 256>>
ByteAt(p) ==
  IF ~ file.attr THEN CellAt(p).ch
  ELSE IF p < HEADER_SIZE THEN Header[p + 1]
  ELSE LET cell == CellAt((p - HEADER_SIZE) \div 2) IN IF p % 2 = 0 THEN cell.ch ELSE cell.at

Smaller(a, b) == IF a < b THEN a ELSE b

(* At most n bytes from position p on, up to the end of the file.           *)
Bytes(p, n) == [k \in 1 .. Smaller(n, vcs_size - p) |-> ByteAt(p + k - 1)]

WithBytes(f, p, bytes) ==
  LET at(q) == bytes[q - p + 1]
      has(q) == q \in p .. p + Len(bytes) - 1
  IN [i \in DOMAIN f |->
        IF ~ file.attr THEN [f[i] EXCEPT !.ch = IF has(i) THEN at(i) ELSE @]
        ELSE LET q == HEADER_SIZE + 2 * i IN
             [ch |-> IF has(q) THEN at(q) ELSE f[i].ch, at |-> IF has(q + 1) THEN at(q + 1) ELSE f[i].at]]

(***************************************************************************)
(* vcs_lseek.                                                              *)
(***************************************************************************)
vcs_lseek(offset, orig) ==
  LET o == CASE orig = 0 -> offset [] orig = 1 -> offset + file.pos [] orig = 2 -> offset + vcs_size IN
  /\ call = NULL /\ o >= 0 /\ o <= vcs_size
  /\ file' = [file EXCEPT !.pos = o]
  /\ UNCHANGED <<size, cells, cursor, visible, call, calls, moved, content>>

(***************************************************************************)
(* vcs_read.                                                               *)
(***************************************************************************)
(* n characters, or n characters with attributes, from cell i.              *)
Chars(i, n) == [k \in 1 .. n |-> CellAt(i + k - 1).ch]
Words(i, n) == [k \in 1 .. 2 * n |->
                  LET cell == CellAt(i + (k - 1) \div 2) IN IF k % 2 = 1 THEN cell.ch ELSE cell.at]

(* The bytes of one round that starts at p with count bytes left.  Words    *)
(* are whole: of a start in the header, or in the middle of a word, what    *)
(* comes before it is skipped.                                              *)
RoundAttr(p, this) ==
  IF p < HEADER_SIZE
  THEN LET full == Smaller(this + p, BUF_SIZE)
           orig == IF this + p > BUF_SIZE THEN BUF_SIZE - p ELSE this
           rest == full - Smaller(HEADER_SIZE, full)
       IN SubSeq(Header \o Words(0, (rest + 1) \div 2), p + 1, p + orig)
  ELSE LET odd == p % 2
           more == IF odd = 1 /\ this < BUF_SIZE THEN this + 1 ELSE this
           orig == IF odd = 1 /\ this = BUF_SIZE THEN this - 1 ELSE this
       IN SubSeq(Words((p - HEADER_SIZE) \div 2, (more + 1) \div 2), odd + 1, odd + orig)

Round(p, count) ==
  LET this == Smaller(count, BUF_SIZE) IN
  IF file.attr THEN RoundAttr(p, this) ELSE Chars(p, this)

(* The call ends: the position moves by what was transferred.               *)
Finished(done) ==
  /\ file' = [file EXCEPT !.pos = @ + done]
  /\ call' = NULL

vcs_read(count) ==
  /\ call = NULL /\ calls < MaxCalls
  /\ call' = [op |-> "fill", pos |-> file.pos, count |-> count, done |-> 0]
  /\ calls' = calls + 1
  /\ UNCHANGED <<size, cells, cursor, visible, file, moved, content>>

(* A round of the loop up to the release of the semaphore; the size is      *)
(* looked at again each time.                                               *)
ReadRound ==
  /\ call # NULL /\ call.op = "fill"
  /\ IF call.count = 0 \/ call.pos >= vcs_size
     THEN Finished(call.done) /\ UNCHANGED moved
     ELSE LET count == Smaller(call.count, vcs_size - call.pos)
              bytes == Round(call.pos, count)
          IN /\ moved' = <<bytes, Bytes(call.pos, Len(bytes))>>
             /\ call' = [call EXCEPT !.op = "copy_to_user", !.count = count]
             /\ UNCHANGED file
  /\ UNCHANGED <<size, cells, cursor, visible, calls, content>>

(* copy_to_user leaves out the last ret bytes.                              *)
CopiedOut(ret) ==
  LET n == Len(moved[1]) IN
  /\ call # NULL /\ call.op = "copy_to_user" /\ ret <= n
  /\ IF ret > 0 THEN Finished(call.done + n - ret)
     ELSE /\ call' = [op |-> "fill", pos |-> call.pos + n, count |-> call.count - n,
                      done |-> call.done + n]
          /\ UNCHANGED file
  /\ moved' = <<<<>>, <<>>>>
  /\ UNCHANGED <<size, cells, cursor, visible, calls, content>>

(***************************************************************************)
(* vcs_write.                                                              *)
(***************************************************************************)
vcs_write(count) ==
  /\ call = NULL /\ calls < MaxCalls /\ file.pos <= vcs_size
  /\ call' = [op |-> "copy_from_user", pos |-> file.pos,
              count |-> Smaller(count, vcs_size - file.pos), done |-> 0, viewed |-> visible]
  /\ calls' = calls + 1
  /\ UNCHANGED <<size, cells, cursor, visible, file, moved, content>>

(* putconsxy, of unsigned bytes: gotoxy limits the place to the screen.     *)
PutCursor(header) ==
  <<Smaller(header[3], size[2] - 1), Smaller(header[4], size[1] - 1)>>

(* The cells after bytes were written from position p: an attribute alone   *)
(* at an odd start, whole words, and a last character alone.                *)
AttrWrite(f, p, bytes) ==
  LET i == (p - HEADER_SIZE) \div 2
      head == p % 2
      words == (Len(bytes) - head) \div 2
      tail == (Len(bytes) - head) % 2
  IN [k \in DOMAIN f |->
        LET j == k - i - head IN
        IF bytes = <<>> THEN f[k]
        ELSE IF head = 1 /\ k = i THEN [f[k] EXCEPT !.at = bytes[1]]
        ELSE IF j \in 0 .. words - 1
        THEN [ch |-> bytes[head + 2 * j + 1], at |-> bytes[head + 2 * j + 2]]
        ELSE IF tail = 1 /\ j = words THEN [f[k] EXCEPT !.ch = bytes[Len(bytes)]]
        ELSE f[k]]

(* The memory of the cells, those of n bytes from position p included.      *)
Touched(p, n) ==
  IF ~ file.attr THEN p .. p + n - 1
  ELSE (IF p < HEADER_SIZE THEN 0 ELSE (p - HEADER_SIZE) \div 2) .. (p + n - 1 - HEADER_SIZE) \div 2
Extended(p, n) == [k \in DOMAIN cells \cup Touched(p, n) |-> CellAt(k)]

Pushed(p, bytes) ==
  LET f == Extended(p, Len(bytes))
      inHeader == Smaller(Len(bytes), IF p < HEADER_SIZE THEN HEADER_SIZE - p ELSE 0)
  IN IF ~ file.attr
     THEN [k \in DOMAIN f |->
             [f[k] EXCEPT !.ch = IF k - p \in 0 .. Len(bytes) - 1 THEN bytes[k - p + 1] ELSE @]]
     ELSE AttrWrite(f, p + inHeader, SubSeq(bytes, inHeader + 1, Len(bytes)))

WrittenHeader(p, bytes) ==
  [k \in 1 .. HEADER_SIZE |->
     IF k - p \in 1 .. Len(bytes) THEN bytes[k - p] ELSE Header[k]]

(* How many of the bytes there is room for: the size is looked at again.    *)
\* Faulty variant: it is that of the beginning of the call.
NotRechecked(this) == this
Rechecked(this) == IF call.pos >= vcs_size THEN 0 ELSE Smaller(this, vcs_size - call.pos)

(* copy_from_user left out the last ret bytes, and the semaphore is held    *)
(* again.                                                                   *)
WriteRound(ret) ==
  LET this == Smaller(call.count, BUF_SIZE) - ret
      n == Rechecked(this)
      bytes == [k \in 1 .. n |-> 50 + call.done + k]
  IN /\ call # NULL /\ call.op = "copy_from_user" /\ this >= 0
     /\ ret > 0 => call.count > 0
     /\ IF call.count = 0 \/ n = 0
        THEN Finished(call.done) /\ UNCHANGED <<cells, cursor, content>>
        ELSE /\ cells' = Pushed(call.pos, bytes)
             /\ content' = WithBytes(content, call.pos, bytes)
             /\ cursor' = IF file.attr /\ call.pos < HEADER_SIZE /\ ~ call.viewed
                          THEN PutCursor(WrittenHeader(call.pos, bytes)) ELSE cursor
             /\ call' = [call EXCEPT !.pos = @ + n, !.done = @ + n, !.count = @ - n]
             /\ UNCHANGED file
     /\ UNCHANGED <<size, visible, calls, moved>>

(***************************************************************************)
(* What happens to the console while a call has dropped the semaphore.     *)
(***************************************************************************)
Output ==
  LET i == cursor[2] * size[2] + cursor[1] IN
  /\ cells' = [cells EXCEPT ![i] = [ch |-> 7, at |-> 7]]
  /\ content' = [content EXCEPT ![i] = [ch |-> 7, at |-> 7]]
  /\ UNCHANGED <<size, cursor, visible, file, call, calls, moved>>

(* vc_resize keeps the last rows.                                           *)
Resized(f, new) ==
  LET first == IF new[1] < size[1] THEN size[1] - new[1] ELSE 0 IN
  [i \in 0 .. new[1] * new[2] - 1 |->
     LET r == (i \div new[2]) + first
         c == i % new[2]
     IN IF r < size[1] /\ c < size[2] THEN f[r * size[2] + c] ELSE Erased]

ResizeConsole(new) ==
  /\ size' = new
  /\ cells' = Resized(cells, new) /\ content' = Resized(content, new)
  /\ cursor' = <<Smaller(cursor[1], new[2] - 1), Smaller(cursor[2], new[1] - 1)>>
  /\ UNCHANGED <<visible, file, call, calls, moved>>

SwitchConsole ==
  /\ visible' = ~ visible
  /\ UNCHANGED <<size, cells, cursor, file, call, calls, moved, content>>

VcsNext ==
  \/ \E offset \in -1 .. 2, orig \in 0 .. 2 : vcs_lseek(offset, orig)
  \/ \E count \in Counts : vcs_read(count) \/ vcs_write(count)
  \/ ReadRound \/ \E ret \in 0 .. 1 : CopiedOut(ret) \/ (call # NULL /\ WriteRound(ret))
  \/ Output \/ SwitchConsole \/ \E new \in ConsoleSizes : ResizeConsole(new)

VcsSpec == VcsInit /\ [][VcsNext]_vcsVars

(***************************************************************************)
(* Properties.                                                             *)
(***************************************************************************)

(* Whatever happens between the rounds, each round hands out the bytes the  *)
(* file has at its position at that moment, and leaves on the screen        *)
(* exactly the bytes it was given; no round reads or writes memory that is  *)
(* not the screen's, although the screen may have shrunk in the middle.     *)
TransferExact == moved[1] = moved[2] /\ cells = content
=============================================================================
