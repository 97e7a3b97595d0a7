---------------------------- MODULE DisplayProofs ---------------------------
(***************************************************************************)
(* Theorems about what is read from a screen and drawn over it.            *)
(*                                                                         *)
(* Vcs: the rounds of /dev/vcs and /dev/vcsa move the bytes of the file,   *)
(* for consoles of any size, buffers of any even length and calls of any   *)
(* count, whatever happens to the console between two rounds.  The heart   *)
(* is arithmetic of positions: Round cuts its bytes out of whole words,    *)
(* one of which may start before the position, and AttrWrite puts bytes    *)
(* into half a word, whole words and half a word; ByteAt and WithBytes say *)
(* the same byte by byte.                                                  *)
(*                                                                         *)
(* Selection: the memory of every console is its text with exactly the     *)
(* layers that are due, for any consoles, displays and sizes.  The         *)
(* functions map a state t to a state u, so that the lemmas are about one  *)
(* function each: what it leaves alone (Frame, SameViews, SameRange) and   *)
(* that SelInv(t) gives SelInv(u).  A request is a chain of them.          *)
(***************************************************************************)
EXTENDS Vcs, Selection, SequenceTheorems, WellFoundedInduction, TLAPS

Words16 == [ch : Nat, at : Nat]

(* What the kernel's call record needs for its arithmetic.                  *)
CallSound ==
  /\ {"op", "pos", "count", "done"} \subseteq DOMAIN call
  /\ call.pos \in Nat /\ call.count \in Nat /\ call.done \in Nat
  /\ call.op = "copy_to_user" => Len(moved[1]) <= call.count

ScreenSound == size \in ConsoleSizes /\ cells \in [0 .. N - 1 -> Words16]
FileSound == "pos" \in DOMAIN file /\ file.pos \in Nat
BufferSound == Len(moved[1]) \in Nat

(* The inductive invariant.                                                 *)
VcsInv ==
  ScreenSound /\ FileSound /\ BufferSound /\ (call # NULL => CallSound) /\ TransferExact

-----------------------------------------------------------------------------
(* Sizes of consoles are positive numbers, and so is a product of theirs    *)
(* (vc_rows * vc_cols).                                                     *)
LEMMA SizeFacts ==
  ASSUME NEW sz \in ConsoleSizes
  PROVE  sz[1] \in Nat \ {0} /\ sz[2] \in Nat \ {0} /\ sz[1] * sz[2] \in Nat
<1>1. sz[1] \in Nat \ {0} /\ sz[2] \in Nat \ {0}
  BY VcsAssumption
<1> DEFINE a == sz[1]
           b == sz[2]
<1>2. a * b \in Nat
  <2> HIDE DEF a, b
  <2> QED BY <1>1 DEF a, b
<1> QED BY <1>1, <1>2

(* The cell in row r and column c is one of the screen (scr_memcpyw in      *)
(* vc_resize).                                                              *)
LEMMA CellInside ==
  ASSUME NEW a \in Nat, NEW b \in Nat, NEW r \in Nat, NEW c \in Nat, r < a, c < b
  PROVE  r * b + c \in 0 .. a * b - 1
<1>1. PICK d \in Nat : a = r + 1 + d
  BY a - r - 1 \in Nat, a = r + 1 + (a - r - 1)
<1>2. a * b = r * b + b + d * b
  BY <1>1
<1>3. r * b \in Nat /\ d * b \in Nat
  BY <1>1
<1> QED BY <1>2, <1>3

(* A quotient of naturals is a natural number (the row of a cell).          *)
LEMMA QuotientIsNat ==
  ASSUME NEW i \in Nat, NEW b \in Nat, b # 0
  PROVE  i \div b \in Nat /\ i % b \in Nat
OBVIOUS

(* The size of the file, as vcs_size computes it.                           *)
LEMMA SizeOfFile ==
  ASSUME size \in ConsoleSizes
  PROVE  N \in Nat /\ vcs_size \in Nat
BY SizeFacts DEF N, vcs_size, HEADER_SIZE

(* A buffer of n bytes, as a function on 1 .. n.                            *)
IsBytes(f, n) == f = [k \in 1 .. n |-> f[k]]

(* Such a function is a sequence of length n.                               *)
LEMMA IsSequence ==
  ASSUME NEW n \in Nat, NEW f, IsBytes(f, n)
  PROVE  f \in Seq({f[k] : k \in 1 .. n}) /\ Len(f) = n
<1>1. f \in [1 .. n -> {f[k] : k \in 1 .. n}]
  BY Zenon DEF IsBytes
<1> QED BY <1>1

(* A piece of a function on the integers, whether or not it is inside.      *)
LEMMA PieceOf ==
  ASSUME NEW f, NEW a \in Nat, NEW m \in Nat
  PROVE  /\ SubSeq(f, a + 1, a + m) = [k \in 1 .. m |-> f[a + k]]
         /\ Len(SubSeq(f, a + 1, a + m)) = m
<1>1. PICK S : S = {f[i] : i \in a + 1 .. a + m}
  OBVIOUS
<1>2. PICK piece : piece = SubSeq(f, a + 1, a + m)
  OBVIOUS
<1>3. \A i \in a + 1 .. a + m : f[i] \in S
  BY <1>1
<1>4. /\ piece \in Seq(S)
      /\ Len(piece) = IF a + 1 <= a + m THEN (a + m) - (a + 1) + 1 ELSE 0
      /\ \A k \in 1 .. (a + m) - (a + 1) + 1 : piece[k] = f[(a + 1) + k - 1]
  BY <1>2, <1>3, SubSeqProperties
<1>5. Len(piece) = m
  BY <1>4
<1>6. \A k \in 1 .. m : piece[k] = f[a + k]
  <2> TAKE k \in 1 .. m
  <2>1. k \in 1 .. (a + m) - (a + 1) + 1 /\ (a + 1) + k - 1 = a + k
    OBVIOUS
  <2> QED BY <2>1, <1>4
<1>7. piece = [k \in 1 .. m |-> piece[k]]
  BY <1>4, <1>5
<1> QED BY <1>2, <1>5, <1>6, <1>7

-----------------------------------------------------------------------------
(* vcs_read.                                                                *)

(* A byte of whole words from cell i on is the byte of the file there: the  *)
(* character first, then the attribute (vcs_read with attr).                *)
LEMMA WordsAreFile ==
  ASSUME file.attr, NEW i \in Nat, NEW w \in Nat, NEW k \in 1 .. 2 * w
  PROVE  Words(i, w)[k] = ByteAt(HEADER_SIZE + 2 * i + k - 1)
<1> DEFINE q == HEADER_SIZE + 2 * i + k - 1
<1>1. /\ q >= HEADER_SIZE
      /\ (q - HEADER_SIZE) \div 2 = i + (k - 1) \div 2
      /\ (q % 2 = 0) <=> (k % 2 = 1)
  BY DEF HEADER_SIZE
<1>2. Words(i, w)[k] = IF k % 2 = 1 THEN CellAt(i + (k - 1) \div 2).ch
                       ELSE CellAt(i + (k - 1) \div 2).at
  BY DEF Words
<1>3. ByteAt(q) = IF q % 2 = 0 THEN CellAt((q - HEADER_SIZE) \div 2).ch
                  ELSE CellAt((q - HEADER_SIZE) \div 2).at
  <2>1. ~ (q < HEADER_SIZE)
    BY <1>1 DEF HEADER_SIZE
  <2> HIDE DEF q
  <2> QED BY <2>1, Zenon DEF ByteAt
<1> QED BY <1>1, <1>2, <1>3

(* So is a byte of the header followed by whole words.                      *)
LEMMA HeaderAndWordsAreFile ==
  ASSUME file.attr, NEW w \in Nat, NEW j \in 1 .. HEADER_SIZE + 2 * w
  PROVE  (Header \o Words(0, w))[j] = ByteAt(j - 1)
<1>1. PICK h : h = Header
  OBVIOUS
<1>2. PICK ws : ws = Words(0, w)
  OBVIOUS
<1>3. ws = [k \in 1 .. 2 * w |-> ws[k]]
  BY <1>2 DEF Words
<1>4. PICK S : S = {ws[k] : k \in 1 .. 2 * w} \cup {h[k] : k \in 1 .. 4}
  OBVIOUS
<1>5. ws \in Seq(S) /\ Len(ws) = 2 * w
  <2>1. ws \in [1 .. 2 * w -> S]
    BY <1>3, <1>4, Zenon
  <2> QED BY <2>1
<1>6. h \in Seq(S) /\ Len(h) = HEADER_SIZE
  BY <1>1, <1>4 DEF Header, HEADER_SIZE
<1>7. (h \o ws)[j] = IF j <= HEADER_SIZE THEN h[j] ELSE ws[j - HEADER_SIZE]
  <2>1. j \in 1 .. Len(h) + Len(ws)
    BY <1>5, <1>6 DEF HEADER_SIZE
  <2> QED BY <1>5, <1>6, <2>1, ConcatProperties
<1>8. CASE j <= HEADER_SIZE
  <2>1. j - 1 < HEADER_SIZE /\ (j - 1) + 1 = j
    BY <1>8 DEF HEADER_SIZE
  <2>2. ByteAt(j - 1) = Header[(j - 1) + 1]
    BY <2>1, Zenon DEF ByteAt
  <2> QED BY <1>1, <1>2, <1>7, <1>8, <2>1, <2>2
<1>9. CASE ~ (j <= HEADER_SIZE)
  <2>1. j - HEADER_SIZE \in 1 .. 2 * w /\ HEADER_SIZE + 2 * 0 + (j - HEADER_SIZE) - 1 = j - 1
    BY <1>9 DEF HEADER_SIZE
  <2>2. Words(0, w)[j - HEADER_SIZE] = ByteAt(j - 1)
    BY <2>1, WordsAreFile
  <2> QED BY <1>1, <1>2, <1>7, <1>9, <2>2
<1> QED BY <1>8, <1>9

(* What a round hands out is the file, from the position on.                *)
FromFile(bytes, p) == bytes = [k \in 1 .. Len(bytes) |-> ByteAt(p + k - 1)]

(* A round that starts in the header (vcs_read: the header is rebuilt, and  *)
(* what precedes the position is skipped).                                  *)
LEMMA HeaderRound ==
  ASSUME file.attr, NEW p \in Nat, p < HEADER_SIZE, NEW this \in 1 .. BUF_SIZE
  PROVE  /\ Len(RoundAttr(p, this)) \in Nat /\ Len(RoundAttr(p, this)) <= this
         /\ FromFile(RoundAttr(p, this), p)
<1> DEFINE full == Smaller(this + p, BUF_SIZE)
           orig == IF this + p > BUF_SIZE THEN BUF_SIZE - p ELSE this
           rest == full - Smaller(HEADER_SIZE, full)
           w == (rest + 1) \div 2
           b == Header \o Words(0, w)
<1>1. /\ orig \in Nat /\ orig <= this /\ w \in Nat
      /\ p + orig <= HEADER_SIZE + 2 * w
  BY VcsAssumption DEF HEADER_SIZE, Smaller
<1>2. RoundAttr(p, this) = SubSeq(b, p + 1, p + orig)
  BY DEF RoundAttr
<1>3. \A k \in 1 .. orig : b[p + k] = ByteAt(p + k - 1)
  <2> HIDE DEF orig, w
  <2> TAKE k \in 1 .. orig
  <2>1. p + k \in 1 .. HEADER_SIZE + 2 * w
    BY <1>1 DEF HEADER_SIZE
  <2>2. (Header \o Words(0, w))[p + k] = ByteAt((p + k) - 1)
    BY <1>1, <2>1, HeaderAndWordsAreFile
  <2>3. (p + k) - 1 = p + k - 1
    BY <1>1
  <2> QED BY <2>2, <2>3, Zenon
<1> HIDE DEF orig, b
<1>4. /\ SubSeq(b, p + 1, p + orig) = [k \in 1 .. orig |-> b[p + k]]
      /\ Len(SubSeq(b, p + 1, p + orig)) = orig
  BY <1>1, PieceOf
<1> QED BY <1>1, <1>2, <1>3, <1>4 DEF FromFile

(* A round that starts after it, at a character or at an attribute.         *)
LEMMA WordRound ==
  ASSUME file.attr, NEW p \in Nat, ~ (p < HEADER_SIZE), NEW this \in 1 .. BUF_SIZE
  PROVE  /\ Len(RoundAttr(p, this)) \in Nat /\ Len(RoundAttr(p, this)) <= this
         /\ FromFile(RoundAttr(p, this), p)
<1> DEFINE odd == p % 2
           more == IF odd = 1 /\ this < BUF_SIZE THEN this + 1 ELSE this
           orig == IF odd = 1 /\ this = BUF_SIZE THEN this - 1 ELSE this
           i == (p - HEADER_SIZE) \div 2
           w == (more + 1) \div 2
           b == Words(i, w)
<1>1. /\ orig \in Nat /\ orig <= this /\ w \in Nat /\ i \in Nat /\ odd \in Nat
      /\ odd + orig <= 2 * w
      /\ HEADER_SIZE + 2 * i + odd = p
  BY VcsAssumption DEF HEADER_SIZE
<1>2. RoundAttr(p, this) = SubSeq(b, odd + 1, odd + orig)
  BY DEF RoundAttr
<1> HIDE DEF odd, orig, i, w
<1>3. \A k \in 1 .. orig : b[odd + k] = ByteAt(p + k - 1)
  <2> TAKE k \in 1 .. orig
  <2>1. odd + k \in 1 .. 2 * w /\ HEADER_SIZE + 2 * i + (odd + k) - 1 = p + k - 1
    BY <1>1 DEF HEADER_SIZE
  <2> QED BY <1>1, <2>1, WordsAreFile
<1> HIDE DEF b
<1>4. /\ SubSeq(b, odd + 1, odd + orig) = [k \in 1 .. orig |-> b[odd + k]]
      /\ Len(SubSeq(b, odd + 1, odd + orig)) = orig
  BY <1>1, PieceOf
<1> QED BY <1>1, <1>2, <1>3, <1>4 DEF FromFile

(* A round without header and attributes.                                   *)
LEMMA CharRound ==
  ASSUME ~ file.attr, NEW p \in Nat, NEW this \in Nat
  PROVE  Len(Chars(p, this)) = this /\ FromFile(Chars(p, this), p)
<1>1. PICK b : b = Chars(p, this)
  OBVIOUS
<1>2. b = [k \in 1 .. this |-> CellAt(p + k - 1).ch]
  BY <1>1 DEF Chars
<1>3. \A k \in 1 .. this : ByteAt(p + k - 1) = CellAt(p + k - 1).ch
  BY Zenon DEF ByteAt
<1>4. b = [k \in 1 .. this |-> b[k]]
  BY <1>2
<1>5. Len(b) = this
  BY <1>4, IsSequence DEF IsBytes
<1> QED BY <1>1, <1>2, <1>3, <1>5 DEF FromFile

(* Every round of vcs_read hands out the file, and no more than was asked.  *)
LEMMA RoundIsFile ==
  ASSUME NEW p \in Nat, NEW count \in Nat \ {0}
  PROVE  /\ Len(Round(p, count)) \in Nat /\ Len(Round(p, count)) <= count
         /\ FromFile(Round(p, count), p)
<1>1. PICK this : this = Smaller(count, BUF_SIZE)
  OBVIOUS
<1>2. this \in 1 .. BUF_SIZE /\ this \in Nat /\ this <= count
  BY <1>1, VcsAssumption DEF Smaller, HEADER_SIZE
<1>3. CASE ~ file.attr
  <2>1. Round(p, count) = Chars(p, this)
    BY <1>1, <1>3 DEF Round
  <2> QED BY <1>2, <1>3, <2>1, CharRound
<1>4. CASE file.attr
  <2>1. Round(p, count) = RoundAttr(p, this)
    BY <1>1, <1>4 DEF Round
  <2>2. CASE p < HEADER_SIZE
    <3>1. /\ Len(RoundAttr(p, this)) \in Nat /\ Len(RoundAttr(p, this)) <= this
          /\ FromFile(RoundAttr(p, this), p)
      BY <1>2, <1>4, <2>2, HeaderRound
    <3> QED BY <1>2, <2>1, <3>1
  <2>3. CASE ~ (p < HEADER_SIZE)
    <3>1. /\ Len(RoundAttr(p, this)) \in Nat /\ Len(RoundAttr(p, this)) <= this
          /\ FromFile(RoundAttr(p, this), p)
      BY <1>2, <1>4, <2>3, WordRound
    <3> QED BY <1>2, <2>1, <3>1
  <2> QED BY <2>2, <2>3
<1> QED BY <1>3, <1>4

-----------------------------------------------------------------------------
(* vcs_write.                                                               *)

(* A cell is its character and its attribute, and an assignment to one of   *)
(* them leaves the other (vcs_scr_writew of a merged word).                 *)
LEMMA HalfOfWord ==
  ASSUME NEW c \in Words16, NEW v
  PROVE  /\ c = [ch |-> c.ch, at |-> c.at]
         /\ [c EXCEPT !.ch = v] = [ch |-> v, at |-> c.at]
         /\ [c EXCEPT !.at = v] = [ch |-> c.ch, at |-> v]
BY DEF Words16

(* The cell whose character is the byte at q, after bytes were written from *)
(* position p.                                                              *)
Written(c, q, p, n, bytes) ==
  [ch |-> IF q \in p .. p + n - 1 THEN bytes[q - p + 1] ELSE c.ch,
   at |-> IF q + 1 \in p .. p + n - 1 THEN bytes[(q + 1) - p + 1] ELSE c.at]

(* The places of halves and whole words: head is 1 when the position P is   *)
(* at an attribute, i the cell it is in, j the word of cell k after the     *)
(* head, q the position of that cell.                                       *)
CellPlaces(P, m, k, i, head, words, tail, j, q) ==
  /\ i \in Nat /\ head \in {0, 1} /\ tail \in {0, 1} /\ words \in Nat
  /\ P = 4 + 2 * i + head
  /\ m = head + 2 * words + tail
  /\ q = P + 2 * j + head
  /\ k = i + head + j

(* The bytes of a cell that are written, and their places in the buffer.    *)
AtHead(P, m, q) ==
  ~ (q \in P .. P + m - 1) /\ q + 1 \in P .. P + m - 1 /\ (q + 1) - P + 1 = 1
AtWord(P, m, q, head, j) ==
  /\ q \in P .. P + m - 1 /\ q + 1 \in P .. P + m - 1
  /\ q - P + 1 = head + 2 * j + 1 /\ (q + 1) - P + 1 = head + 2 * j + 2
AtTail(P, m, q) ==
  q \in P .. P + m - 1 /\ ~ (q + 1 \in P .. P + m - 1) /\ q - P + 1 = m
Untouched(P, m, q) ==
  ~ (q \in P .. P + m - 1) /\ ~ (q + 1 \in P .. P + m - 1)

(* How AttrWrite computes these places from the position and the length.    *)
Computed(P, m, k, i, head, words, tail, j, q) ==
  /\ i = (P - 4) \div 2 /\ head = P % 2 /\ words = (m - head) \div 2
  /\ tail = (m - head) % 2 /\ j = k - i - head /\ q = 4 + 2 * k

(* What it computes are the places.                                         *)
LEMMA PlacesOfWords ==
  ASSUME NEW P \in Nat, P >= 4, NEW m \in Nat, m # 0, NEW k \in Nat, NEW i \in Int,
         NEW head \in Nat, NEW words \in Int, NEW tail \in Nat, NEW j \in Int, NEW q \in Nat,
         Computed(P, m, k, i, head, words, tail, j, q)
  PROVE  CellPlaces(P, m, k, i, head, words, tail, j, q)
<1> USE DEF Computed
<1>1. i \in Nat /\ head \in {0, 1} /\ P = 4 + 2 * i + head
  OBVIOUS
<1>2. m - head \in Nat
  BY <1>1
<1>3. words \in Nat /\ tail \in {0, 1} /\ m - head = 2 * words + tail
  BY <1>1, <1>2
<1>4. k = i + head + j
  BY <1>1
<1>5. q = P + 2 * j + head
  BY <1>1, <1>4
<1> QED BY <1>1, <1>3, <1>4, <1>5 DEF CellPlaces

Cases(P, m, k, i, head, words, tail, j, q) ==
  /\ (head = 1 /\ k = i) => AtHead(P, m, q)
  /\ (j \in 0 .. words - 1) => AtWord(P, m, q, head, j)
  /\ (tail = 1 /\ j = words) => AtTail(P, m, q)
  /\ (~ (head = 1 /\ k = i) /\ ~ (j \in 0 .. words - 1) /\ ~ (tail = 1 /\ j = words))
       => Untouched(P, m, q)

(* Which of its cases a cell is in.                                         *)
LEMMA BytesOfCell ==
  ASSUME NEW P \in Nat, NEW m \in Nat, NEW k \in Nat, NEW i \in Int, NEW head \in Nat,
         NEW words \in Int, NEW tail \in Nat, NEW j \in Int, NEW q \in Nat,
         CellPlaces(P, m, k, i, head, words, tail, j, q)
  PROVE  Cases(P, m, k, i, head, words, tail, j, q)
<1>2. (head = 1 /\ k = i) => AtHead(P, m, q)
  BY DEF CellPlaces, AtHead
<1>3. (j \in 0 .. words - 1) => AtWord(P, m, q, head, j)
  BY DEF CellPlaces, AtWord
<1>4. (tail = 1 /\ j = words) => AtTail(P, m, q)
  BY DEF CellPlaces, AtTail
<1>5. (~ (head = 1 /\ k = i) /\ ~ (j \in 0 .. words - 1) /\ ~ (tail = 1 /\ j = words))
        => Untouched(P, m, q)
  BY DEF CellPlaces, Untouched
<1> QED BY <1>2, <1>3, <1>4, <1>5, Zenon DEF Cases

(* A sequence of no bytes is the only one that is empty.                    *)
LEMMA EmptyBytes ==
  ASSUME NEW m \in Nat, NEW B, IsBytes(B, m)
  PROVE  Len(B) = m /\ ((B = <<>>) <=> (m = 0))
<1>1. Len(B) = m
  BY IsSequence
<1>2. m = 0 => B = <<>>
  BY DEF IsBytes
<1> QED BY <1>1, <1>2

(* The body of AttrWrite for a cell, with its places as parameters.         *)
HalvesAndWords(c, B, m, k, i, head, words, tail, j) ==
  IF B = <<>> THEN c
  ELSE IF head = 1 /\ k = i THEN [c EXCEPT !.at = B[1]]
  ELSE IF j \in 0 .. words - 1
  THEN [ch |-> B[head + 2 * j + 1], at |-> B[head + 2 * j + 2]]
  ELSE IF tail = 1 /\ j = words THEN [c EXCEPT !.ch = B[m]]
  ELSE c

(* What AttrWrite works on: a screen, a position after the header, bytes.   *)
Prepared(D, f, P, m, B) ==
  f \in [D -> Words16] /\ (P >= HEADER_SIZE \/ m = 0) /\ IsBytes(B, m)

CellWritten(f, P, m, B, k) ==
  AttrWrite(f, P, B)[k] = Written(f[k], HEADER_SIZE + 2 * k, P, m, B)

(* What vcs_write does to a cell, in halves and whole words, is what the    *)
(* bytes of the file say.                                                   *)
LEMMA AttrWriteCell ==
  ASSUME NEW D, NEW f, NEW P \in Nat, NEW m \in Nat, NEW B, Prepared(D, f, P, m, B),
         NEW k \in Nat, k \in D
  PROVE  CellWritten(f, P, m, B, k)
<1> USE DEF CellWritten
<1>0. f \in [D -> Words16] /\ (P >= HEADER_SIZE \/ m = 0) /\ IsBytes(B, m)
  BY DEF Prepared
<1>1. PICK c : c = f[k]
  OBVIOUS
<1>2. c \in Words16 /\ k \in Nat
  BY <1>0, <1>1
<1>3. Len(B) = m /\ ((B = <<>>) <=> (m = 0))
  BY <1>0, EmptyBytes
<1>4. PICK i \in Int : i = (P - HEADER_SIZE) \div 2
  BY DEF HEADER_SIZE
<1>5. PICK head \in Nat : head = P % 2
  OBVIOUS
<1>6. PICK words \in Int : words = (m - head) \div 2
  OBVIOUS
<1>7. PICK tail \in Nat : tail = (m - head) % 2
  OBVIOUS
<1>8. PICK j \in Int : j = k - i - head
  OBVIOUS
<1>9. PICK q \in Nat : q = HEADER_SIZE + 2 * k
  BY DEF HEADER_SIZE
<1>10. AttrWrite(f, P, B)[k] =
         IF B = <<>> THEN c
         ELSE IF head = 1 /\ k = i THEN [c EXCEPT !.at = B[1]]
         ELSE IF j \in 0 .. words - 1
         THEN [ch |-> B[head + 2 * j + 1], at |-> B[head + 2 * j + 2]]
         ELSE IF tail = 1 /\ j = words THEN [c EXCEPT !.ch = B[m]]
         ELSE c
  <2>1. DOMAIN f = D
    BY <1>0
  <2>2. AttrWrite(f, P, B)[k] =
          HalvesAndWords(f[k], B, Len(B), k, (P - HEADER_SIZE) \div 2, P % 2,
                         (Len(B) - (P % 2)) \div 2, (Len(B) - (P % 2)) % 2,
                         k - ((P - HEADER_SIZE) \div 2) - (P % 2))
    BY <2>1, Zenon DEF AttrWrite, HalvesAndWords
  <2>3. AttrWrite(f, P, B)[k] = HalvesAndWords(c, B, m, k, i, head, words, tail, j)
    BY <1>1, <1>3, <1>4, <1>5, <1>6, <1>7, <1>8, <2>2
  <2> QED BY <2>3, Zenon DEF HalvesAndWords
<1>11. CASE m = 0
  <2>1. q \in Nat
    BY <1>2, <1>9 DEF HEADER_SIZE
  <2>2. ~ (q \in P .. P + m - 1) /\ ~ (q + 1 \in P .. P + m - 1)
    BY <1>11, <2>1
  <2>3. Written(c, q, P, m, B) = [ch |-> c.ch, at |-> c.at]
    BY <2>2, Zenon DEF Written
  <2> QED BY <1>1, <1>2, <1>3, <1>9, <1>10, <1>11, <2>3, HalfOfWord
<1>12. CASE m # 0
  <2>1. P >= 4
    BY <1>0, <1>12 DEF HEADER_SIZE
  <2>2. /\ i = (P - 4) \div 2 /\ q = 4 + 2 * k
    BY <1>4, <1>9 DEF HEADER_SIZE
  <2>3. Computed(P, m, k, i, head, words, tail, j, q)
    BY <1>5, <1>6, <1>7, <1>8, <2>2, Zenon DEF Computed
  <2>4. Cases(P, m, k, i, head, words, tail, j, q)
    <3>1. CellPlaces(P, m, k, i, head, words, tail, j, q)
      BY <1>12, <2>1, <2>3, PlacesOfWords, Zenon
    <3> QED BY <3>1, BytesOfCell, Zenon
  <2>5. B # <<>>
    BY <1>3, <1>12
  <2>6. SUFFICES AttrWrite(f, P, B)[k] = Written(c, q, P, m, B)
    BY <1>1, <1>9
  <2>7. CASE head = 1 /\ k = i
    <3>1. Written(c, q, P, m, B) = [ch |-> c.ch, at |-> B[1]]
      BY <2>4, <2>7, Zenon DEF Written, Cases, AtHead
    <3>2. AttrWrite(f, P, B)[k] = [c EXCEPT !.at = B[1]]
      BY <1>10, <2>5, <2>7, Zenon
    <3> QED BY <1>2, <3>1, <3>2, HalfOfWord
  <2>8. CASE ~ (head = 1 /\ k = i) /\ j \in 0 .. words - 1
    <3>1. Written(c, q, P, m, B) = [ch |-> B[head + 2 * j + 1], at |-> B[head + 2 * j + 2]]
      BY <2>4, <2>8, Zenon DEF Written, Cases, AtWord
    <3>2. AttrWrite(f, P, B)[k] = [ch |-> B[head + 2 * j + 1], at |-> B[head + 2 * j + 2]]
      BY <1>10, <2>5, <2>8, Zenon
    <3> QED BY <3>1, <3>2
  <2>9. CASE ~ (head = 1 /\ k = i) /\ ~ (j \in 0 .. words - 1) /\ tail = 1 /\ j = words
    <3>1. Written(c, q, P, m, B) = [ch |-> B[m], at |-> c.at]
      BY <2>4, <2>9, Zenon DEF Written, Cases, AtTail
    <3>2. AttrWrite(f, P, B)[k] = [c EXCEPT !.ch = B[m]]
      BY <1>10, <2>5, <2>9, Zenon
    <3> QED BY <1>2, <3>1, <3>2, HalfOfWord
  <2>10. CASE ~ (head = 1 /\ k = i) /\ ~ (j \in 0 .. words - 1) /\ ~ (tail = 1 /\ j = words)
    <3>1. Written(c, q, P, m, B) = [ch |-> c.ch, at |-> c.at]
      BY <2>4, <2>10, Zenon DEF Written, Cases, Untouched
    <3>2. AttrWrite(f, P, B)[k] = c
      BY <1>10, <2>5, <2>10, Zenon
    <3> QED BY <1>2, <3>1, <3>2, HalfOfWord
  <2> QED BY <2>7, <2>8, <2>9, <2>10
<1> QED BY <1>11, <1>12

(* A written cell is a cell.                                                *)
LEMMA WrittenIsWord ==
  ASSUME NEW c \in Words16, NEW q \in Nat, NEW p \in Nat, NEW n \in Nat, NEW bytes,
         \A k \in 1 .. n : bytes[k] \in Nat
  PROVE  Written(c, q, p, n, bytes) \in Words16
<1>1. q \in p .. p + n - 1 => q - p + 1 \in 1 .. n
  OBVIOUS
<1>2. q + 1 \in p .. p + n - 1 => (q + 1) - p + 1 \in 1 .. n
  OBVIOUS
<1> QED BY <1>1, <1>2 DEF Written, Words16

(* The header takes h bytes, and what is left of the buffer, m bytes, goes  *)
(* on from the first cell (vcs_write).                                      *)
Split(p, n, h, m) ==
  /\ n = h + m
  /\ p + h >= 4 \/ m = 0
  /\ (m = 0) => (p + n <= 4 \/ n = 0)
  /\ (m # 0) => (h = 0 \/ p + h = 4)

(* A byte of a cell is in the rest of the buffer when it is in the buffer,  *)
(* and at the place the rest gives it.                                      *)
SameByte(p, n, h, m, q) ==
  /\ (q \in p + h .. p + h + m - 1) <=> (q \in p .. p + n - 1)
  /\ q \in p .. p + n - 1
       => q - (p + h) + 1 \in 1 .. m /\ h + (q - (p + h) + 1) = q - p + 1

(* The header takes what lies in it of the bytes.                           *)
LEMMA SplitAtHeader ==
  ASSUME NEW p \in Nat, NEW n \in Nat, NEW h \in Nat, NEW m \in Nat,
         h = Smaller(n, IF p < 4 THEN 4 - p ELSE 0), m = n - h
  PROVE  Split(p, n, h, m)
<1>1. n = h + m
  OBVIOUS
<1>2. p + h >= 4 \/ m = 0
  BY DEF Smaller
<1>3. (m = 0) => (p + n <= 4 \/ n = 0)
  BY DEF Smaller
<1>4. (m # 0) => (h = 0 \/ p + h = 4)
  BY DEF Smaller
<1> QED BY <1>1, <1>2, <1>3, <1>4 DEF Split

(* So the bytes of the cells are those that are left.                       *)
LEMMA InRest ==
  ASSUME NEW p \in Nat, NEW n \in Nat, NEW h \in Nat, NEW m \in Nat, Split(p, n, h, m),
         NEW q \in Nat, q >= 4
  PROVE  SameByte(p, n, h, m, q)
<1>1. CASE m = 0
  BY <1>1 DEF Split, SameByte
<1>2. CASE m # 0
  BY <1>2 DEF Split, SameByte
<1> QED BY <1>1, <1>2

(* Bytes that end before the end of the file are those of cells of the      *)
(* screen (vcs_write after its second look at the size).                    *)
LEMMA TouchesScreen ==
  ASSUME N \in Nat, NEW p \in Nat, NEW n \in Nat \ {0}, p + n <= vcs_size
  PROVE  Touched(p, n) \subseteq 0 .. N - 1
<1>1. CASE ~ file.attr
  BY <1>1 DEF Touched, vcs_size
<1>2. CASE file.attr
  <2>1. p + n <= 2 * N + 4
    BY <1>2 DEF vcs_size, HEADER_SIZE
  <2>2. PICK last \in Int : last = (p + n - 1 - 4) \div 2
    OBVIOUS
  <2>3. last <= N - 1
    BY <2>1, <2>2
  <2>4. PICK first \in Int : first = IF p < 4 THEN 0 ELSE (p - 4) \div 2
    OBVIOUS
  <2>5. first >= 0
    BY <2>4
  <2>6. Touched(p, n) = first .. last
    BY <1>2, <2>2, <2>4 DEF Touched, HEADER_SIZE
  <2> QED BY <2>3, <2>5, <2>6
<1> QED BY <1>1, <1>2

(* A round of vcs_write leaves on the screen the bytes it was given, and    *)
(* the screen a screen, when it stays on it.                                *)
LEMMA PushedIsWithBytes ==
  ASSUME NEW D, D \subseteq Nat, cells \in [D -> Words16], NEW p \in Nat, NEW n \in Nat,
         NEW bytes, IsBytes(bytes, n), \A k \in 1 .. n : bytes[k] \in Nat,
         Touched(p, n) \subseteq D
  PROVE  Pushed(p, bytes) = WithBytes(cells, p, bytes) /\ Pushed(p, bytes) \in [D -> Words16]
<1>1. PICK f : f = cells
  OBVIOUS
<1>0. Extended(p, n) = f
  <2>1. D \cup Touched(p, n) = D
    OBVIOUS
  <2>2. Extended(p, n) = [k \in D |-> CellAt(k)]
    BY <2>1 DEF Extended
  <2>3. \A k \in D : CellAt(k) = cells[k]
    BY DEF CellAt
  <2>4. cells = [k \in D |-> cells[k]]
    OBVIOUS
  <2> QED BY <1>1, <2>2, <2>3, <2>4
<1>2. f \in [D -> Words16] /\ DOMAIN f = D
  BY <1>1
<1>3. Len(bytes) = n
  BY IsSequence
<1>4. CASE ~ file.attr
  <2>1. WithBytes(f, p, bytes) =
          [i \in D |-> [f[i] EXCEPT !.ch = IF i \in p .. p + n - 1 THEN bytes[i - p + 1] ELSE @]]
    BY <1>2, <1>3, <1>4 DEF WithBytes
  <2>2. Pushed(p, bytes) =
          [i \in D |-> [f[i] EXCEPT !.ch = IF i - p \in 0 .. n - 1 THEN bytes[i - p + 1] ELSE @]]
    BY <1>0, <1>2, <1>3, <1>4 DEF Pushed
  <2>3. \A i \in D : (i \in p .. p + n - 1) <=> (i - p \in 0 .. n - 1)
    OBVIOUS
  <2>4. \A i \in D : i - p \in 0 .. n - 1 => bytes[i - p + 1] \in Nat
    OBVIOUS
  <2>5. Pushed(p, bytes) = WithBytes(f, p, bytes)
    BY <2>1, <2>2, <2>3
  <2>6. Pushed(p, bytes) \in [D -> Words16]
    BY <1>2, <2>2, <2>4 DEF Words16
  <2> QED BY <1>1, <2>5, <2>6
<1>5. CASE file.attr
  <2>h. PICK h \in Nat : h = Smaller(n, IF p < 4 THEN 4 - p ELSE 0) /\ h <= n
    BY DEF Smaller
  <2>m. PICK m \in Nat : m = n - h
    BY <2>h
  <2>B. PICK B : B = SubSeq(bytes, h + 1, h + m)
    OBVIOUS
  <2>1. Split(p, n, h, m)
    BY <2>h, <2>m, SplitAtHeader
  <2>2. Pushed(p, bytes) = AttrWrite(f, p + h, SubSeq(bytes, h + 1, n))
    <3>1. Pushed(p, bytes) =
            AttrWrite(f, p + Smaller(n, IF p < 4 THEN 4 - p ELSE 0),
                      SubSeq(bytes, Smaller(n, IF p < 4 THEN 4 - p ELSE 0) + 1, n))
      BY <1>0, <1>3, <1>5, Zenon DEF Pushed, HEADER_SIZE
    <3> QED BY <2>h, <3>1, Zenon
  <2>3. SubSeq(bytes, h + 1, n) = B
    <3>1. h + m = n
      BY <2>m, <2>h
    <3> QED BY <2>B, <3>1, Zenon
  <2>4. B = [j \in 1 .. m |-> bytes[h + j]]
    <3>1. SubSeq(bytes, h + 1, h + m) = [j \in 1 .. m |-> bytes[h + j]]
      BY PieceOf
    <3> QED BY <2>B, <3>1, Zenon
  <2>5. IsBytes(B, m)
    BY <2>4 DEF IsBytes
  <2>6. ASSUME NEW k \in Nat, k \in D
        PROVE  AttrWrite(f, p + h, B)[k] = Written(f[k], HEADER_SIZE + 2 * k, p, n, bytes)
    <3>1. PICK q \in Nat : q = HEADER_SIZE + 2 * k
      BY DEF HEADER_SIZE
    <3>2. q \in Nat /\ q >= 4 /\ q + 1 \in Nat /\ q + 1 >= 4
      BY <3>1 DEF HEADER_SIZE
    <3>3. SameByte(p, n, h, m, q)
      BY <2>1, <3>2, InRest
    <3>4. SameByte(p, n, h, m, q + 1)
      BY <2>1, <3>2, InRest
    <3>5. \A j \in 1 .. m : B[j] = bytes[h + j]
      BY <2>4
    <3>6. Written(f[k], q, p + h, m, B) = Written(f[k], q, p, n, bytes)
      <4>1. (IF q \in p + h .. p + h + m - 1 THEN B[q - (p + h) + 1] ELSE f[k].ch)
              = IF q \in p .. p + n - 1 THEN bytes[q - p + 1] ELSE f[k].ch
        <5>1. /\ (q \in p + h .. p + h + m - 1) <=> (q \in p .. p + n - 1)
              /\ q \in p .. p + n - 1
                   => q - (p + h) + 1 \in 1 .. m /\ h + (q - (p + h) + 1) = q - p + 1
          BY <3>3, Zenon DEF SameByte
        <5>2. q \in p .. p + n - 1 => B[q - (p + h) + 1] = bytes[q - p + 1]
          <6> HAVE q \in p .. p + n - 1
          <6>1. PICK e \in 1 .. m : e = q - (p + h) + 1
            BY <5>1, Zenon
          <6>2. h + e = q - p + 1
            BY <5>1, <6>1, Zenon
          <6>3. B[e] = bytes[h + e]
            BY <3>5, Zenon
          <6> QED BY <6>1, <6>2, <6>3, Zenon
        <5>3. CASE q \in p .. p + n - 1
          BY <5>1, <5>2, <5>3, Zenon
        <5>4. CASE ~ (q \in p .. p + n - 1)
          BY <5>1, <5>4, Zenon
        <5> QED BY <5>3, <5>4
      <4>2. (IF q + 1 \in p + h .. p + h + m - 1 THEN B[(q + 1) - (p + h) + 1] ELSE f[k].at)
              = IF q + 1 \in p .. p + n - 1 THEN bytes[(q + 1) - p + 1] ELSE f[k].at
        <5>1. /\ (q + 1 \in p + h .. p + h + m - 1) <=> (q + 1 \in p .. p + n - 1)
              /\ q + 1 \in p .. p + n - 1
                   => (q + 1) - (p + h) + 1 \in 1 .. m /\ h + ((q + 1) - (p + h) + 1) = (q + 1) - p + 1
          BY <3>4, Zenon DEF SameByte
        <5>2. q + 1 \in p .. p + n - 1 => B[(q + 1) - (p + h) + 1] = bytes[(q + 1) - p + 1]
          <6> HAVE q + 1 \in p .. p + n - 1
          <6>1. PICK e \in 1 .. m : e = (q + 1) - (p + h) + 1
            BY <5>1, Zenon
          <6>2. h + e = (q + 1) - p + 1
            BY <5>1, <6>1, Zenon
          <6>3. B[e] = bytes[h + e]
            BY <3>5, Zenon
          <6> QED BY <6>1, <6>2, <6>3, Zenon
        <5>3. CASE q + 1 \in p .. p + n - 1
          BY <5>1, <5>2, <5>3, Zenon
        <5>4. CASE ~ (q + 1 \in p .. p + n - 1)
          BY <5>1, <5>4, Zenon
        <5> QED BY <5>3, <5>4
      <4> QED BY <4>1, <4>2, Zenon DEF Written
    <3>7. p + h \in Nat /\ (p + h >= HEADER_SIZE \/ m = 0)
      BY <2>1 DEF HEADER_SIZE, Split
    <3>8. AttrWrite(f, p + h, B)[k] = Written(f[k], HEADER_SIZE + 2 * k, p + h, m, B)
      <4>1. k \in D
        BY <2>6
      <4>2. PICK P \in Nat : P = p + h
        BY <3>7
      <4>3. P >= HEADER_SIZE \/ m = 0
        BY <3>7, <4>2
      <4>4. Prepared(D, f, P, m, B)
        BY <1>2, <2>5, <4>3, Zenon DEF Prepared
      <4>5. CellWritten(f, P, m, B, k)
        BY <4>1, <4>4, AttrWriteCell, Zenon
      <4> QED BY <4>2, <4>5, Zenon DEF CellWritten
    <3> QED BY <3>1, <3>6, <3>8
  <2>7. WithBytes(f, p, bytes) = [k \in D |-> Written(f[k], HEADER_SIZE + 2 * k, p, n, bytes)]
    BY <1>2, <1>3, <1>5, Zenon DEF WithBytes, Written
  <2>8. AttrWrite(f, p + h, B) = [k \in D |-> AttrWrite(f, p + h, B)[k]]
    <3>1. PICK w : w = AttrWrite(f, p + h, B)
      OBVIOUS
    <3>2. DOMAIN w = D /\ w = [k \in DOMAIN w |-> w[k]]
      BY <1>2, <3>1, Zenon DEF AttrWrite
    <3> QED BY <3>1, <3>2
  <2>9. Pushed(p, bytes) = WithBytes(f, p, bytes)
    BY <2>2, <2>3, <2>6, <2>7, <2>8
  <2>10. \A k \in D : Written(f[k], HEADER_SIZE + 2 * k, p, n, bytes) \in Words16
    <3> TAKE k \in D
    <3>1. HEADER_SIZE + 2 * k \in Nat /\ f[k] \in Words16
      BY <1>2 DEF HEADER_SIZE
    <3> QED BY <3>1, WrittenIsWord
  <2> QED BY <1>1, <2>7, <2>9, <2>10
<1> QED BY <1>4, <1>5

-----------------------------------------------------------------------------
(* The steps, one by one.                                                   *)

(* A step that leaves the screen as it is leaves it a screen.               *)
LEMMA SameScreen ==
  ASSUME ScreenSound, cells = content, UNCHANGED <<size, cells, content>>
  PROVE  ScreenSound' /\ (cells = content)'
BY DEF ScreenSound, N

(* The end of a call adds what was transferred to the position.             *)
LEMMA FinishedKeeps ==
  ASSUME FileSound, NEW done \in Nat, Finished(done)
  PROVE  FileSound' /\ call' = NULL
<1>1. PICK f : f = file
  OBVIOUS
<1>2. "pos" \in DOMAIN f /\ f.pos \in Nat
  BY <1>1 DEF FileSound
<1>3. file' = [f EXCEPT !.pos = f.pos + done] /\ call' = NULL
  BY <1>1 DEF Finished
<1> QED BY <1>2, <1>3 DEF FileSound

(* vcs_lseek stays in the file.                                             *)
LEMMA SeekKeeps ==
  ASSUME VcsInv, NEW offset \in -1 .. 2, NEW orig \in 0 .. 2, vcs_lseek(offset, orig)
  PROVE  VcsInv'
<1>1. PICK f : f = file
  OBVIOUS
<1>2. "pos" \in DOMAIN f /\ f.pos \in Nat
  BY <1>1 DEF VcsInv, FileSound
<1>3. vcs_size \in Nat
  BY SizeOfFile DEF VcsInv, ScreenSound
<1>4. PICK o : /\ o = CASE orig = 0 -> offset [] orig = 1 -> offset + f.pos
                        [] orig = 2 -> offset + vcs_size
               /\ o >= 0 /\ file' = [f EXCEPT !.pos = o]
               /\ UNCHANGED <<size, cells, cursor, visible, call, calls, moved, content>>
  BY <1>1, Zenon DEF vcs_lseek
<1>5. o \in Nat
  <2>1. CASE orig = 0
    BY <1>4, <2>1
  <2>2. CASE orig = 1
    BY <1>2, <1>4, <2>2
  <2>3. CASE orig = 2
    BY <1>3, <1>4, <2>3
  <2> QED BY <2>1, <2>2, <2>3
<1>6. FileSound'
  BY <1>2, <1>4, <1>5 DEF FileSound
<1>7. ScreenSound' /\ (cells = content)'
  BY <1>4, SameScreen DEF VcsInv, TransferExact
<1>8. (call # NULL => CallSound)' /\ BufferSound' /\ (moved[1] = moved[2])'
  BY <1>4 DEF VcsInv, CallSound, BufferSound, TransferExact
<1> QED BY <1>6, <1>7, <1>8 DEF VcsInv, TransferExact

(* A call of read begins at the position of the file.                       *)
LEMMA ReadKeeps ==
  ASSUME VcsInv, NEW count \in Counts, vcs_read(count)
  PROVE  VcsInv'
<1>1. count \in Nat /\ file.pos \in Nat
  BY VcsAssumption DEF VcsInv, FileSound
<1>2. CallSound'
  BY <1>1 DEF vcs_read, CallSound
<1>3. ScreenSound' /\ (cells = content)'
  BY SameScreen DEF VcsInv, TransferExact, vcs_read
<1>4. FileSound' /\ BufferSound' /\ (moved[1] = moved[2])'
  BY DEF VcsInv, FileSound, BufferSound, TransferExact, vcs_read
<1> QED BY <1>2, <1>3, <1>4 DEF VcsInv, TransferExact

(* A call of write does, and asks for no more than the file has.            *)
LEMMA WriteKeeps ==
  ASSUME VcsInv, NEW count \in Counts, vcs_write(count)
  PROVE  VcsInv'
<1>1. count \in Nat /\ file.pos \in Nat /\ file.pos <= vcs_size /\ vcs_size \in Nat
  BY VcsAssumption, SizeOfFile DEF VcsInv, FileSound, ScreenSound, vcs_write
<1>2. PICK n : n = Smaller(count, vcs_size - file.pos)
  OBVIOUS
<1>3. n \in Nat
  BY <1>1, <1>2 DEF Smaller
<1>4. call' = [op |-> "copy_from_user", pos |-> file.pos, count |-> n, done |-> 0,
               viewed |-> visible]
  BY <1>2 DEF vcs_write
<1>5. CallSound'
  BY <1>1, <1>3, <1>4 DEF CallSound
<1>6. ScreenSound' /\ (cells = content)'
  BY SameScreen DEF VcsInv, TransferExact, vcs_write
<1>7. FileSound' /\ BufferSound' /\ (moved[1] = moved[2])'
  BY DEF VcsInv, FileSound, BufferSound, TransferExact, vcs_write
<1> QED BY <1>5, <1>6, <1>7 DEF VcsInv, TransferExact

(* A round of read hands out the bytes of the file, by RoundIsFile, however *)
(* the console changed since the round before.                              *)
LEMMA ReadRoundKeeps ==
  ASSUME VcsInv, ReadRound
  PROVE  VcsInv'
<1>1. PICK c : c = call
  OBVIOUS
<1>2. /\ c # NULL /\ {"op", "pos", "count", "done"} \subseteq DOMAIN c
      /\ c.pos \in Nat /\ c.count \in Nat /\ c.done \in Nat
  BY <1>1 DEF VcsInv, CallSound, ReadRound
<1>3. vcs_size \in Nat
  BY SizeOfFile DEF VcsInv, ScreenSound
<1>4. ScreenSound' /\ (cells = content)'
  BY SameScreen DEF VcsInv, TransferExact, ReadRound
<1>5. CASE c.count = 0 \/ c.pos >= vcs_size
  <2>1. Finished(c.done) /\ UNCHANGED moved
    BY <1>1, <1>5, Zenon DEF ReadRound
  <2>2. FileSound' /\ call' = NULL
    BY <1>2, <2>1, FinishedKeeps DEF VcsInv
  <2>3. BufferSound' /\ (moved[1] = moved[2])'
    BY <2>1 DEF VcsInv, BufferSound, TransferExact
  <2> QED BY <1>4, <2>2, <2>3 DEF VcsInv, TransferExact
<1>6. CASE ~ (c.count = 0 \/ c.pos >= vcs_size)
  <2>1. PICK count : count = Smaller(c.count, vcs_size - c.pos)
    OBVIOUS
  <2>2. count \in Nat \ {0}
    BY <1>2, <1>3, <1>6, <2>1 DEF Smaller
  <2>3. PICK bytes : bytes = Round(c.pos, count)
    OBVIOUS
  <2>4. Len(bytes) \in Nat /\ Len(bytes) <= count /\ FromFile(bytes, c.pos)
    BY <1>2, <2>2, <2>3, RoundIsFile
  <2>5. /\ moved' = <<bytes, Bytes(c.pos, Len(bytes))>>
        /\ call' = [c EXCEPT !.op = "copy_to_user", !.count = count]
        /\ UNCHANGED file
    BY <1>1, <1>6, <2>1, <2>3, Zenon DEF ReadRound
  <2>6. moved' = <<bytes, bytes>>
    <3>1. count <= vcs_size - c.pos
      BY <1>2, <1>3, <2>1 DEF Smaller
    <3>2. Smaller(Len(bytes), vcs_size - c.pos) = Len(bytes)
      BY <1>2, <1>3, <2>2, <2>4, <3>1 DEF Smaller
    <3>3. Bytes(c.pos, Len(bytes)) = bytes
      BY <2>4, <3>2, Zenon DEF FromFile, Bytes
    <3> QED BY <2>5, <3>3
  <2>7. BufferSound' /\ (moved[1] = moved[2])'
    BY <2>4, <2>6 DEF BufferSound
  <2>8. CallSound'
    BY <1>2, <2>2, <2>4, <2>5, <2>6 DEF CallSound
  <2>9. FileSound'
    BY <2>5 DEF VcsInv, FileSound
  <2> QED BY <1>4, <2>7, <2>8, <2>9 DEF VcsInv, TransferExact
<1> QED BY <1>5, <1>6

(* copy_to_user takes the bytes of the round, or all but the last ones.     *)
LEMMA CopiedOutKeeps ==
  ASSUME VcsInv, NEW ret \in 0 .. 1, CopiedOut(ret)
  PROVE  VcsInv'
<1>1. PICK c : c = call
  OBVIOUS
<1>2. PICK n : n = Len(moved[1])
  OBVIOUS
<1>3. /\ c # NULL /\ c.op = "copy_to_user" /\ {"op", "pos", "count", "done"} \subseteq DOMAIN c
      /\ c.pos \in Nat /\ c.count \in Nat /\ c.done \in Nat /\ n \in Nat /\ n <= c.count /\ ret <= n
  BY <1>1, <1>2 DEF VcsInv, BufferSound, CallSound, CopiedOut
<1>4. ScreenSound' /\ (cells = content)'
  BY SameScreen DEF VcsInv, TransferExact, CopiedOut
<1>5. BufferSound' /\ (moved[1] = moved[2])'
  BY DEF CopiedOut, BufferSound
<1>6. CASE ret > 0
  <2>1. Finished(c.done + n - ret)
    BY <1>1, <1>2, <1>6 DEF CopiedOut
  <2>2. c.done + n - ret \in Nat
    BY <1>3
  <2>3. FileSound' /\ call' = NULL
    BY <2>1, <2>2, FinishedKeeps DEF VcsInv
  <2> QED BY <1>4, <1>5, <2>3 DEF VcsInv, TransferExact
<1>7. CASE ~ (ret > 0)
  <2>1. /\ call' = [op |-> "fill", pos |-> c.pos + n, count |-> c.count - n, done |-> c.done + n]
        /\ UNCHANGED file
    BY <1>1, <1>2, <1>7 DEF CopiedOut
  <2>2. CallSound'
    BY <1>3, <2>1 DEF CallSound
  <2>3. FileSound'
    BY <2>1 DEF VcsInv, FileSound
  <2> QED BY <1>4, <1>5, <2>2, <2>3 DEF VcsInv, TransferExact
<1> QED BY <1>6, <1>7

(* A round of write puts the bytes it was given where the file has them, by *)
(* PushedIsWithBytes; the size is the one of this moment.                   *)
LEMMA WriteRoundKeeps ==
  ASSUME VcsInv, NEW ret \in 0 .. 1, call # NULL, WriteRound(ret)
  PROVE  VcsInv'
<1>1. PICK c : c = call
  OBVIOUS
<1>2. /\ c # NULL /\ c.op = "copy_from_user" /\ {"op", "pos", "count", "done"} \subseteq DOMAIN c
      /\ c.pos \in Nat /\ c.count \in Nat /\ c.done \in Nat
  BY <1>1 DEF VcsInv, CallSound, WriteRound
<1>3. vcs_size \in Nat /\ N \in Nat
  BY SizeOfFile DEF VcsInv, ScreenSound
<1>4. PICK this : this = Smaller(c.count, BUF_SIZE) - ret
  OBVIOUS
<1>5. this >= 0 /\ this \in Nat /\ this <= c.count
  <2>1. this >= 0
    BY <1>1, <1>4, Zenon DEF WriteRound
  <2> QED BY <1>2, <1>4, <2>1, VcsAssumption DEF Smaller
<1>6. PICK n : n = Rechecked(this)
  OBVIOUS
<1>7. PICK bytes : bytes = [k \in 1 .. n |-> 50 + c.done + k]
  OBVIOUS
<1>8. /\ IF c.count = 0 \/ n = 0
         THEN Finished(c.done) /\ UNCHANGED <<cells, cursor, content>>
         ELSE /\ cells' = Pushed(c.pos, bytes)
              /\ content' = WithBytes(content, c.pos, bytes)
              /\ call' = [c EXCEPT !.pos = c.pos + n, !.done = c.done + n, !.count = c.count - n]
              /\ UNCHANGED file
      /\ UNCHANGED <<size, visible, calls, moved>>
  BY <1>1, <1>4, <1>6, <1>7, Zenon DEF WriteRound
<1>9. BufferSound' /\ (moved[1] = moved[2])'
  BY <1>8 DEF VcsInv, BufferSound, TransferExact
<1>10. CASE c.count = 0 \/ n = 0
  <2>1. Finished(c.done) /\ UNCHANGED <<size, cells, content>>
    BY <1>8, <1>10
  <2>2. FileSound' /\ call' = NULL
    BY <1>2, <2>1, FinishedKeeps DEF VcsInv
  <2>3. ScreenSound' /\ (cells = content)'
    BY <2>1, SameScreen DEF VcsInv, TransferExact
  <2> QED BY <1>9, <2>2, <2>3 DEF VcsInv, TransferExact
<1>11. CASE ~ (c.count = 0 \/ n = 0)
  <2>1. n \in Nat \ {0} /\ n <= c.count /\ c.pos + n <= vcs_size
    BY <1>1, <1>2, <1>3, <1>5, <1>6, <1>11 DEF Smaller, Rechecked
  <2>2. /\ cells' = Pushed(c.pos, bytes)
        /\ content' = WithBytes(content, c.pos, bytes)
        /\ call' = [c EXCEPT !.pos = c.pos + n, !.done = c.done + n, !.count = c.count - n]
        /\ UNCHANGED <<file, size>>
    BY <1>8, <1>11
  <2>3. IsBytes(bytes, n) /\ \A k \in 1 .. n : bytes[k] \in Nat
    BY <1>2, <1>7, <2>1 DEF IsBytes
  <2>4. 0 .. N - 1 \subseteq Nat /\ cells \in [0 .. N - 1 -> Words16] /\ cells = content
    BY <1>3 DEF VcsInv, ScreenSound, TransferExact
  <2>5. /\ Pushed(c.pos, bytes) = WithBytes(cells, c.pos, bytes)
        /\ Pushed(c.pos, bytes) \in [0 .. N - 1 -> Words16]
    <3>1. Touched(c.pos, n) \subseteq 0 .. N - 1
      BY <1>2, <2>1, <1>3, TouchesScreen
    <3> QED BY <1>2, <2>1, <2>3, <2>4, <3>1, PushedIsWithBytes
  <2>6. (cells = content)'
    BY <2>2, <2>4, <2>5
  <2>7. ScreenSound'
    BY <2>2, <2>5 DEF VcsInv, ScreenSound, N
  <2>8. CallSound'
    BY <1>2, <2>1, <2>2 DEF CallSound
  <2>9. FileSound'
    BY <2>2 DEF VcsInv, FileSound
  <2> QED BY <1>9, <2>6, <2>7, <2>8, <2>9 DEF VcsInv, TransferExact
<1> QED BY <1>10, <1>11

(* Output of the console lands in one cell of it (do_con_write).            *)
LEMMA OutputKeeps ==
  ASSUME VcsInv, Output
  PROVE  VcsInv'
<1>1. PICK i : i = cursor[2] * size[2] + cursor[1]
  OBVIOUS
<1>2. /\ cells' = [cells EXCEPT ![i] = [ch |-> 7, at |-> 7]]
      /\ content' = [content EXCEPT ![i] = [ch |-> 7, at |-> 7]]
      /\ UNCHANGED <<size, cursor, visible, file, call, calls, moved>>
  BY <1>1, Zenon DEF Output
<1>3. cells' \in [0 .. N - 1 -> Words16] /\ (cells = content)'
  BY <1>2 DEF VcsInv, ScreenSound, TransferExact, Words16
<1>4. ScreenSound'
  BY <1>2, <1>3 DEF VcsInv, ScreenSound, N
<1>5. FileSound' /\ BufferSound' /\ (call # NULL => CallSound)' /\ (moved[1] = moved[2])'
  BY <1>2 DEF VcsInv, FileSound, BufferSound, CallSound, TransferExact
<1> QED BY <1>3, <1>4, <1>5 DEF VcsInv, TransferExact

(* A new size keeps the last rows, and fills up with blanks: every cell of  *)
(* the new screen is one of the old or blank (vc_resize).                   *)
LEMMA ResizedIsScreen ==
  ASSUME ScreenSound, NEW new \in ConsoleSizes
  PROVE  Resized(cells, new) \in [0 .. new[1] * new[2] - 1 -> Words16]
<1>1. PICK f : f = cells
  OBVIOUS
<1>2. PICK a \in Nat : a = size[1]
  BY SizeFacts DEF ScreenSound
<1>3. PICK b \in Nat : b = size[2]
  BY SizeFacts DEF ScreenSound
<1>4. PICK na \in Nat : na = new[1]
  BY SizeFacts
<1>5. PICK nb \in Nat : nb = new[2] /\ nb # 0
  BY SizeFacts
<1>6. f \in [0 .. a * b - 1 -> Words16]
  BY <1>1, <1>2, <1>3 DEF ScreenSound, N
<1>7. PICK first : first = IF na < a THEN a - na ELSE 0
  OBVIOUS
<1>8. first \in Nat
  BY <1>7
<1>9. Resized(f, new) =
        [i \in 0 .. na * nb - 1 |->
           IF (i \div nb) + first < a /\ i % nb < b THEN f[((i \div nb) + first) * b + (i % nb)]
           ELSE Erased]
  BY <1>2, <1>3, <1>4, <1>5, <1>7 DEF Resized
<1>10. na * nb \in Nat
  OBVIOUS
<1>11. ASSUME NEW i \in Nat, (i \div nb) + first < a, i % nb < b
       PROVE  f[((i \div nb) + first) * b + (i % nb)] \in Words16
  <2>1. i \div nb \in Nat /\ i % nb \in Nat
    BY <1>5, QuotientIsNat
  <2>2. PICK r \in Nat : r = (i \div nb) + first
    BY <1>8, <2>1
  <2>3. PICK c \in Nat : c = i % nb
    BY <2>1
  <2>4. r * b + c \in 0 .. a * b - 1
    BY <1>11, <2>2, <2>3, CellInside
  <2> QED BY <1>6, <2>2, <2>3, <2>4
<1>12. Erased \in Words16
  BY DEF Erased, Words16
<1>13. \A i \in 0 .. na * nb - 1 :
         (IF (i \div nb) + first < a /\ i % nb < b THEN f[((i \div nb) + first) * b + (i % nb)]
          ELSE Erased) \in Words16
  <2> TAKE i \in 0 .. na * nb - 1
  <2>1. i \in Nat
    BY <1>10
  <2> QED BY <1>11, <1>12, <2>1, Zenon
<1>14. Resized(f, new) \in [0 .. na * nb - 1 -> Words16]
  BY <1>9, <1>13, Zenon
<1> QED BY <1>1, <1>4, <1>5, <1>14

(* A resize between two rounds.                                             *)
LEMMA ResizeKeeps ==
  ASSUME VcsInv, NEW new \in ConsoleSizes, ResizeConsole(new)
  PROVE  VcsInv'
<1>1. /\ size' = new /\ cells' = Resized(cells, new) /\ content' = Resized(content, new)
      /\ UNCHANGED <<visible, file, call, calls, moved>>
  BY DEF ResizeConsole
<1>2. (cells = content)'
  BY <1>1 DEF VcsInv, TransferExact
<1>3. ScreenSound'
  <2>1. cells' \in [0 .. new[1] * new[2] - 1 -> Words16]
    BY <1>1, ResizedIsScreen DEF VcsInv
  <2> QED BY <1>1, <2>1 DEF ScreenSound, N
<1>4. FileSound' /\ BufferSound' /\ (call # NULL => CallSound)' /\ (moved[1] = moved[2])'
  BY <1>1 DEF VcsInv, FileSound, BufferSound, CallSound, TransferExact
<1> QED BY <1>2, <1>3, <1>4 DEF VcsInv, TransferExact

-----------------------------------------------------------------------------
(* A file that was just opened (vcs_open).                                  *)
LEMMA InitKeeps == VcsInit => VcsInv
<1> SUFFICES ASSUME VcsInit
             PROVE  VcsInv
  OBVIOUS
<1>1. N \in Nat
  BY SizeOfFile DEF VcsInit
<1>2. ScreenSound
  BY <1>1 DEF VcsInit, ScreenSound, Words16
<1>3. FileSound
  BY DEF VcsInit, FileSound
<1>4. BufferSound /\ moved[1] = moved[2]
  BY DEF VcsInit, BufferSound
<1> QED BY <1>2, <1>3, <1>4 DEF VcsInit, VcsInv, TransferExact

(* Every step keeps the invariant.                                          *)
LEMMA StepKeeps == VcsInv /\ [VcsNext]_vcsVars => VcsInv'
<1> SUFFICES ASSUME VcsInv, [VcsNext]_vcsVars
             PROVE  VcsInv'
  OBVIOUS
<1>1. CASE \E offset \in -1 .. 2, orig \in 0 .. 2 : vcs_lseek(offset, orig)
  BY <1>1, SeekKeeps
<1>2. CASE \E count \in Counts : vcs_read(count) \/ vcs_write(count)
  <2>1. PICK count \in Counts : vcs_read(count) \/ vcs_write(count)
    BY <1>2
  <2> QED BY <2>1, ReadKeeps, WriteKeeps
<1>3. CASE ReadRound
  BY <1>3, ReadRoundKeeps
<1>4. CASE \E ret \in 0 .. 1 : CopiedOut(ret) \/ (call # NULL /\ WriteRound(ret))
  <2>1. PICK ret \in 0 .. 1 : CopiedOut(ret) \/ (call # NULL /\ WriteRound(ret))
    BY <1>4
  <2> QED BY <2>1, CopiedOutKeeps, WriteRoundKeeps
<1>5. CASE Output
  BY <1>5, OutputKeeps
<1>6. CASE \E new \in ConsoleSizes : ResizeConsole(new)
  BY <1>6, ResizeKeeps
<1>7. CASE SwitchConsole \/ UNCHANGED vcsVars
  <2>1. UNCHANGED <<size, cells, file, call, moved, content>>
    BY <1>7 DEF SwitchConsole, vcsVars
  <2>2. ScreenSound' /\ (cells = content)'
    BY <2>1, SameScreen DEF VcsInv, TransferExact
  <2>3. FileSound' /\ BufferSound' /\ (call # NULL => CallSound)' /\ (moved[1] = moved[2])'
    BY <2>1 DEF VcsInv, FileSound, BufferSound, CallSound, TransferExact
  <2> QED BY <2>2, <2>3 DEF VcsInv, TransferExact
<1> QED BY <1>1, <1>2, <1>3, <1>4, <1>5, <1>6, <1>7 DEF VcsNext

(* The position, the counts and the lengths of every call stay what the     *)
(* arithmetic of its rounds needs, and the screen a screen, whatever        *)
(* happens between the rounds (vcs_read, vcs_write, vc_resize).             *)
THEOREM VcsSound == VcsSpec => []VcsInv
BY InitKeeps, StepKeeps, PTL DEF VcsSpec

(* Each round of vcs_read hands out the bytes the file has at its position  *)
(* at that moment, and each round of vcs_write leaves on the screen exactly *)
(* the bytes it was given, for every size, buffer and count.                *)
THEOREM TransferExactHolds == VcsSpec => []TransferExact
<1>1. VcsInv => TransferExact
  BY DEF VcsInv
<1> QED BY <1>1, VcsSound, PTL

(* Selection, pointer and cursor.                                           *)

StateFields == {"fg", "blanked", "original", "con", "cons", "start", "end", "buffer", "p",
                "text", "writes"}
ConFields == {"display", "mem", "pos", "view", "back", "type"}

(* A set of natural numbers has its least one (Foreground, WordStart).      *)
LEMMA MinInside ==
  ASSUME NEW S, S \subseteq Nat, S # {}
  PROVE  Min(S) \in S /\ \A x \in S : Min(S) <= x
<1>1. IsWellFoundedOn(OpToRel(<, Nat), Nat)
  BY NatLessThanWellFounded
<1>2. PICK m \in S : \A y \in S : ~ (<<y, m>> \in OpToRel(<, Nat))
  BY <1>1, WFMin
<1>3. OpToRel(<, Nat) = {ss \in Nat \X Nat : ss[1] < ss[2]}
  BY Zenon DEF OpToRel
<1>4. \A y \in S : m <= y
  <2> SUFFICES ASSUME NEW y \in S
               PROVE  m <= y
    OBVIOUS
  <2>1. ~ (<<y, m>> \in {ss \in Nat \X Nat : ss[1] < ss[2]})
    BY <1>2, <1>3, Zenon
  <2> QED BY <2>1
<1> QED BY <1>2, <1>4 DEF Min

(* A set of natural numbers below another has its greatest one (WordEnd).   *)
LEMMA MaxInside ==
  ASSUME NEW S, NEW n \in Nat, S \subseteq 0 .. n, S # {}
  PROVE  Max(S) \in S
<1>1. PICK T : T = {n - x : x \in S}
  OBVIOUS
<1>2. T \subseteq Nat /\ T # {}
  <2>1. ASSUME NEW x \in S
        PROVE  n - x \in Nat
    OBVIOUS
  <2>2. T \subseteq Nat
    BY <1>1, <2>1
  <2>3. PICK x : x \in S
    OBVIOUS
  <2>4. n - x \in T
    BY <1>1, <2>3
  <2> QED BY <2>2, <2>4
<1>3. PICK m \in T : \A y \in T : m <= y
  BY <1>2, MinInside
<1>4. PICK x \in S : m = n - x
  BY <1>1, <1>3
<1>5. \A y \in S : x >= y
  <2> SUFFICES ASSUME NEW y \in S
               PROVE  x >= y
    OBVIOUS
  <2>1. n - y \in T
    BY <1>1
  <2>2. m <= n - y
    BY <1>3, <2>1
  <2> QED BY <1>4, <2>2
<1> QED BY <1>5 DEF Max

(* The shape of a state.                                                    *)
ConShaped(x) ==
  /\ DOMAIN x = ConFields
  /\ DOMAIN x.mem = Memory /\ \A i \in Memory : x.mem[i] \in MemoryCell
  /\ x.pos \in ScreenCells /\ x.view \in 0 .. Back /\ x.back \in 0 .. Back
Shaped(t) ==
  /\ DOMAIN t = StateFields
  /\ DOMAIN t.con = Cons /\ \A c \in Cons : ConShaped(t.con[c])
  /\ DOMAIN t.text = Cons
  /\ \A c \in Cons : DOMAIN t.text[c] = Memory /\ \A i \in Memory : t.text[c][i] \in Characters
  /\ DOMAIN t.original = DOMAIN t.fg /\ DOMAIN t.blanked = DOMAIN t.fg

(* Every console is on a display, whose foreground console is its own.      *)
DisplaysSound(t) ==
  /\ \A c \in Cons : t.con[c].display \in DOMAIN t.fg
  /\ \A d \in DOMAIN t.fg : t.fg[d] \in Cons /\ t.con[t.fg[d]].display = d

(* The layers over cell i of console c.                                     *)
Inverted(t, c, i) ==
  c = t.cons /\ t.start # -1 /\ i - screenpos(t, c, 0) \in t.start .. t.end
Pointed(t, c, i) == t.p # None /\ t.p.con = c /\ t.p.at = i
Cursored(t, c, i) ==
  t.original[t.con[c].display] # None /\ Visible(t, c) /\ i = CursorCell(t, c)

Drawn(ch, inv, cmp, cur) == [ch |-> ch, inv |-> inv, cmp |-> cmp, cur |-> cur]

Exact(t) ==
  \A c \in Cons, i \in Memory :
    t.con[c].mem[i] = Drawn(t.text[c][i], Inverted(t, c, i),
                       Pointed(t, c, i), Cursored(t, c, i))

(* What is under the pointer is the cell without it.                        *)
PointerSound(t) ==
  t.p # None =>
    /\ t.p.con = t.cons /\ t.p.at \in Memory
    /\ t.p.old = Drawn(t.text[t.cons][t.p.at], Inverted(t, t.cons, t.p.at),
                  FALSE, Cursored(t, t.cons, t.p.at))

RangeSound(t) == t.start # -1 => t.start \in Nat /\ t.end \in Nat /\ t.start <= t.end

(* Selection and pointer are over a console in the foreground.              *)
DrawnSound(t) == t.start # -1 \/ t.p # None => t.cons \in Cons /\ Visible(t, t.cons)

(* What is under the soft cursor is the text.                               *)
OriginalSound(t) ==
  \A d \in DOMAIN t.fg : t.original[d] # None =>
    t.original[d] = Plain(t.text[t.fg[d]][CursorCell(t, t.fg[d])])

(* The inductive invariant.                                                 *)
SelInv(t) ==
  /\ Shaped(t) /\ DisplaysSound(t) /\ Exact(t) /\ PointerSound(t)
  /\ RangeSound(t) /\ DrawnSound(t) /\ OriginalSound(t)

SelInvOfState == SelInv(sel)

-----------------------------------------------------------------------------
(* A place of the screen, seen at a row of the past, is in the memory       *)
(* (screenpos).                                                             *)
LEMMA PlaceInside ==
  ASSUME NEW v \in 0 .. Back, NEW p \in ScreenCells
  PROVE  v * Cols + p \in Memory /\ v * Cols \in Nat
<1>1. Back \in Nat /\ Rows \in Nat /\ Cols \in Nat
  BY SelectionAssumption
<1>2. PICK w \in Nat : Back = v + w
  BY <1>1, Back - v \in Nat, Back = v + (Back - v)
<1>3. (Back + Rows) * Cols = v * Cols + w * Cols + Rows * Cols
  BY <1>1, <1>2
<1>4. w * Cols \in Nat /\ v * Cols \in Nat /\ Rows * Cols \in Nat
  BY <1>1, <1>2
<1> QED BY <1>3, <1>4 DEF Memory, ScreenCells

(* The cell of the cursor is in the memory.                                 *)
LEMMA CursorInside ==
  ASSUME NEW t, NEW c \in Cons, Shaped(t)
  PROVE  CursorCell(t, c) \in Memory
BY PlaceInside, SelectionAssumption DEF Shaped, ConShaped, CursorCell

(* A view begins in the memory, at a number.                                *)
LEMMA ViewIsNat ==
  ASSUME NEW t, NEW c \in Cons, Shaped(t)
  PROVE  screenpos(t, c, 0) \in Nat /\ \A p \in Int : screenpos(t, c, p) = screenpos(t, c, 0) + p
<1>1. Rows * Cols \in Nat /\ Rows * Cols # 0
  BY SelectionAssumption
<1>2. 0 \in ScreenCells
  BY <1>1 DEF ScreenCells
<1>3. t.con[c].view \in 0 .. Back
  BY DEF Shaped, ConShaped
<1> DEFINE w == t.con[c].view * Cols
<1>4. w \in Nat
  BY <1>2, <1>3, PlaceInside
<1>5. \A p : screenpos(t, c, p) = w + p
  BY DEF screenpos
<1> HIDE DEF w
<1> QED BY <1>4, <1>5

(* A character as it is written is a cell (Plain).                          *)
LEMMA PlainIsCell ==
  ASSUME NEW ch \in Characters
  PROVE  Plain(ch) \in MemoryCell /\ Plain(ch) # None
<1>1. Plain(ch) \in MemoryCell
  BY DEF Plain, MemoryCell
<1> QED BY <1>1, NoneAssumption

-----------------------------------------------------------------------------
(* What a request that changes one console leaves alone.                    *)
Frame(t, u) ==
  /\ u.fg = t.fg /\ u.text = t.text /\ u.cons = t.cons
  /\ \A c \in Cons : u.con[c].display = t.con[c].display /\ u.con[c].pos = t.con[c].pos
SameViews(t, u) == \A c \in Cons : u.con[c].view = t.con[c].view
SameRange(t, u) == u.start = t.start /\ u.end = t.end

IsMemory(m) == DOMAIN m = Memory /\ \A i \in Memory : m[i] \in MemoryCell
WithMemory(t, c, m) == [t EXCEPT !.con[c].mem = m]

(* New memory for a console (the stores of invert_screen, complement_pos,   *)
(* add_softcursor).                                                         *)
LEMMA NewMemory ==
  ASSUME NEW t, Shaped(t), NEW c \in Cons, NEW m, IsMemory(m),
         NEW u, u = WithMemory(t, c, m)
  PROVE  /\ Shaped(u) /\ Frame(t, u) /\ SameViews(t, u) /\ SameRange(t, u)
         /\ u.original = t.original /\ u.p = t.p
         /\ \A k \in Cons : u.con[k].mem = IF k = c THEN m ELSE t.con[k].mem
<1>1. PICK x : x = [t.con[c] EXCEPT !.mem = m]
  OBVIOUS
<1>2. u = [t EXCEPT !.con = [t.con EXCEPT ![c] = x]]
  BY <1>1 DEF WithMemory
<1>3. /\ x.mem = m /\ x.display = t.con[c].display /\ x.pos = t.con[c].pos
      /\ x.view = t.con[c].view /\ x.back = t.con[c].back /\ DOMAIN x = ConFields
  BY <1>1 DEF Shaped, ConShaped, ConFields
<1>4. ConShaped(x)
  BY <1>3 DEF Shaped, ConShaped, IsMemory
<1>5. PICK n : n = [t.con EXCEPT ![c] = x]
  OBVIOUS
<1>6. DOMAIN n = Cons /\ \A k \in Cons : n[k] = IF k = c THEN x ELSE t.con[k]
  BY <1>5 DEF Shaped
<1>7. /\ u.con = n /\ DOMAIN u = StateFields /\ u.fg = t.fg /\ u.text = t.text
      /\ u.cons = t.cons /\ u.start = t.start /\ u.end = t.end /\ u.p = t.p
      /\ u.original = t.original /\ u.blanked = t.blanked
  BY <1>2, <1>5 DEF Shaped, StateFields
<1>8. Shaped(u)
  BY <1>4, <1>6, <1>7 DEF Shaped
<1> QED BY <1>3, <1>6, <1>7, <1>8 DEF Frame, SameViews, SameRange

WithCell(t, c, at, x) == [t EXCEPT !.con[c].mem[at] = x]

(* A new cell in the memory of a console (scr_writew).                      *)
LEMMA NewCell ==
  ASSUME NEW t, Shaped(t), NEW c \in Cons, NEW at \in Memory, NEW x \in MemoryCell,
         NEW u, u = WithCell(t, c, at, x)
  PROVE  /\ Shaped(u) /\ Frame(t, u) /\ SameViews(t, u) /\ SameRange(t, u)
         /\ u.original = t.original /\ u.p = t.p
         /\ \A k \in Cons, i \in Memory :
              u.con[k].mem[i] = IF k = c /\ i = at THEN x ELSE t.con[k].mem[i]
<1>1. PICK m : m = [t.con[c].mem EXCEPT ![at] = x]
  OBVIOUS
<1>2. u = WithMemory(t, c, m)
  BY <1>1 DEF WithCell, WithMemory
<1>3. DOMAIN t.con[c].mem = Memory /\ \A i \in Memory : t.con[c].mem[i] \in MemoryCell
  BY DEF Shaped, ConShaped
<1>4. DOMAIN m = Memory /\ \A i \in Memory : m[i] = IF i = at THEN x ELSE t.con[c].mem[i]
  BY <1>1, <1>3
<1>5. IsMemory(m)
  BY <1>3, <1>4 DEF IsMemory
<1>6. /\ Shaped(u) /\ Frame(t, u) /\ SameViews(t, u) /\ SameRange(t, u)
      /\ u.original = t.original /\ u.p = t.p
      /\ \A k \in Cons : u.con[k].mem = IF k = c THEN m ELSE t.con[k].mem
  BY <1>2, <1>5, NewMemory
<1> QED BY <1>4, <1>6

WithPointer(t, q) == [t EXCEPT !.p = q]

(* A new pointer, or none (complement_pos).                                 *)
LEMMA NewPointer ==
  ASSUME NEW t, Shaped(t), NEW q, NEW u, u = WithPointer(t, q)
  PROVE  /\ Shaped(u) /\ Frame(t, u) /\ SameViews(t, u) /\ SameRange(t, u)
         /\ u.original = t.original /\ u.p = q /\ u.con = t.con
<1>1. /\ u.con = t.con /\ DOMAIN u = StateFields /\ u.fg = t.fg /\ u.text = t.text
      /\ u.cons = t.cons /\ u.start = t.start /\ u.end = t.end /\ u.p = q
      /\ u.original = t.original /\ u.blanked = t.blanked
  BY DEF Shaped, StateFields, WithPointer
<1>2. Shaped(u)
  BY <1>1 DEF Shaped
<1> QED BY <1>1, <1>2 DEF Frame, SameViews, SameRange

WithRange(t, a, b) == [t EXCEPT !.start = a, !.end = b]

(* A new range of the selection.                                            *)
LEMMA NewRange ==
  ASSUME NEW t, Shaped(t), NEW a, NEW b, NEW u, u = WithRange(t, a, b)
  PROVE  /\ Shaped(u) /\ Frame(t, u) /\ SameViews(t, u) /\ u.start = a /\ u.end = b
         /\ u.original = t.original /\ u.p = t.p /\ u.con = t.con
<1>1. /\ u.con = t.con /\ DOMAIN u = StateFields /\ u.fg = t.fg /\ u.text = t.text
      /\ u.cons = t.cons /\ u.start = a /\ u.end = b /\ u.p = t.p
      /\ u.original = t.original /\ u.blanked = t.blanked
  BY DEF Shaped, StateFields, WithRange
<1>2. Shaped(u)
  BY <1>1 DEF Shaped
<1> QED BY <1>1, <1>2 DEF Frame, SameViews

(* A cell is a character and three layers.                                  *)
LEMMA CellFacts ==
  /\ \A a \in Characters : \A b, c, d \in BOOLEAN : Drawn(a, b, c, d) \in MemoryCell
  /\ \A x \in MemoryCell : \E a \in Characters : \E b, c, d \in BOOLEAN : x = Drawn(a, b, c, d)
<1>1. ASSUME NEW a \in Characters, NEW b \in BOOLEAN, NEW c \in BOOLEAN, NEW d \in BOOLEAN
      PROVE  Drawn(a, b, c, d) \in MemoryCell
  BY DEF Drawn, MemoryCell
<1>2. ASSUME NEW x \in MemoryCell
      PROVE  \E a \in Characters : \E b, c, d \in BOOLEAN : x = Drawn(a, b, c, d)
  <2>1. /\ x = [ch |-> x.ch, inv |-> x.inv, cmp |-> x.cmp, cur |-> x.cur] /\ x.ch \in Characters
        /\ x.inv \in BOOLEAN /\ x.cmp \in BOOLEAN /\ x.cur \in BOOLEAN
    BY DEF MemoryCell
  <2> QED BY <2>1 DEF Drawn
<1> QED BY <1>1, <1>2

(* What is drawn under the pointer while it is there.                       *)
Under(t, c, i) == Drawn(t.text[c][i], Inverted(t, c, i),
                   FALSE, Cursored(t, c, i))

(* It is a cell.                                                            *)
LEMMA UnderIsCell ==
  ASSUME NEW t, Shaped(t), NEW c \in Cons, NEW i \in Memory
  PROVE  Under(t, c, i) \in MemoryCell
<1>1. t.text[c][i] \in Characters
  BY DEF Shaped
<1>2. PICK b \in BOOLEAN, d \in BOOLEAN, no \in BOOLEAN :
        b = Inverted(t, c, i) /\ d = Cursored(t, c, i) /\ no = FALSE
  BY DEF Inverted, Cursored
<1>3. Under(t, c, i) = Drawn(t.text[c][i], b, no, d)
  BY <1>2 DEF Under
<1> QED BY <1>1, <1>3, CellFacts

(* Layers depend on the range, the view, the cursor and what saved it.      *)
LEMMA LayersSame ==
  ASSUME NEW t, NEW u, Frame(t, u), SameViews(t, u), SameRange(t, u), u.original = t.original
  PROVE  /\ \A c \in Cons, i \in Memory : /\ Inverted(u, c, i) = Inverted(t, c, i)
                                          /\ Cursored(u, c, i) = Cursored(t, c, i)
         /\ \A c \in Cons : CursorCell(u, c) = CursorCell(t, c) /\ Visible(u, c) = Visible(t, c)
BY DEF Frame, SameViews, SameRange, Inverted, Cursored, CursorCell, Visible, screenpos

(* Taking the pointer away leaves what was under it (complement_pos).       *)
LEMMA HiddenPointer ==
  ASSUME NEW t, SelInv(t), NEW u, u = HidePointer(t)
  PROVE  /\ SelInv(u) /\ u.p = None /\ Frame(t, u) /\ SameViews(t, u) /\ SameRange(t, u)
         /\ u.original = t.original
<1>1. CASE t.p = None
  BY <1>1 DEF HidePointer, Frame, SameViews, SameRange
<1>2. CASE t.p # None
  <2>1. PICK c, at, old : c = t.p.con /\ at = t.p.at /\ old = t.p.old
    OBVIOUS
  <2>2. /\ c \in Cons /\ c = t.cons /\ at \in Memory /\ old = Under(t, c, at)
    BY <1>2, <2>1 DEF SelInv, PointerSound, DrawnSound, Under
  <2>3. PICK v : v = WithCell(t, c, at, old)
    OBVIOUS
  <2>4. u = WithPointer(v, None)
    BY <1>2, <2>1, <2>3 DEF HidePointer, WithCell, WithPointer
  <2>5. Shaped(t)
    BY DEF SelInv
  <2>6. old \in MemoryCell
    BY <2>2, <2>5, UnderIsCell
  <2>7. /\ Shaped(v) /\ Frame(t, v) /\ SameViews(t, v) /\ SameRange(t, v)
         /\ v.original = t.original /\ v.p = t.p
         /\ \A k \in Cons, i \in Memory :
              v.con[k].mem[i] = IF k = c /\ i = at THEN old ELSE t.con[k].mem[i]
    BY <2>2, <2>3, <2>5, <2>6, NewCell
  <2>8. /\ Shaped(u) /\ Frame(v, u) /\ SameViews(v, u) /\ SameRange(v, u)
         /\ u.original = v.original /\ u.p = None /\ u.con = v.con
    BY <2>4, <2>7, NewPointer
  <2>9. Frame(t, u) /\ SameViews(t, u) /\ SameRange(t, u) /\ u.original = t.original
    BY <2>7, <2>8 DEF Frame, SameViews, SameRange
  <2>10. /\ \A k \in Cons, i \in Memory : /\ Inverted(u, k, i) = Inverted(t, k, i)
                                          /\ Cursored(u, k, i) = Cursored(t, k, i)
         /\ \A k \in Cons : CursorCell(u, k) = CursorCell(t, k) /\ Visible(u, k) = Visible(t, k)
    BY <2>9, LayersSame
  <2>11. Exact(u)
    <3> SUFFICES ASSUME NEW k \in Cons, NEW i \in Memory
                 PROVE  u.con[k].mem[i] = Drawn(u.text[k][i], Inverted(u, k, i),
                          Pointed(u, k, i), Cursored(u, k, i))
      BY DEF Exact
    <3>1. Pointed(u, k, i) = FALSE
      BY <2>8 DEF Pointed
    <3>2. u.text[k] = t.text[k]
      BY <2>9 DEF Frame
    <3>3. u.con[k].mem[i] = Under(t, k, i)
      <4>1. CASE k = c /\ i = at
        BY <4>1, <2>2, <2>7, <2>8
      <4>2. CASE ~ (k = c /\ i = at)
        <5>1. u.con[k].mem[i] = t.con[k].mem[i]
          BY <4>2, <2>7, <2>8
        <5>2. Pointed(t, k, i) = FALSE
          BY <4>2, <2>1 DEF Pointed
        <5> QED BY <5>1, <5>2 DEF SelInv, Exact, Under
      <4> QED BY <4>1, <4>2
    <3> QED BY <3>1, <3>2, <3>3, <2>10 DEF Under
  <2>12. DisplaysSound(u) /\ PointerSound(u) /\ RangeSound(u)
    BY <2>8, <2>9 DEF SelInv, DisplaysSound, PointerSound, RangeSound, Frame, SameRange
  <2>13. DrawnSound(u)
    BY <1>2, <2>8, <2>9, <2>10 DEF SelInv, DrawnSound, Frame, SameRange
  <2>14. OriginalSound(u)
    BY <2>9, <2>10 DEF SelInv, DisplaysSound, OriginalSound, Frame
  <2> QED BY <2>8, <2>9, <2>11, <2>12, <2>13, <2>14 DEF SelInv
<1> QED BY <1>1, <1>2

(* Inverting a cell changes that layer only (invert_screen).                *)
LEMMA InvertedCell ==
  /\ \A a, c, d : \A b \in BOOLEAN : invert(Drawn(a, b, c, d)) =
                                    Drawn(a, ~ b, c, d)
  /\ \A x \in MemoryCell : invert(x) \in MemoryCell
<1>1. ASSUME NEW a, NEW c, NEW d, NEW b \in BOOLEAN
      PROVE  invert(Drawn(a, b, c, d)) = Drawn(a, ~ b, c, d)
  <2>1. CASE b = TRUE
    BY <2>1 DEF invert, Drawn
  <2>2. CASE b = FALSE
    BY <2>2 DEF invert, Drawn
  <2> QED BY <2>1, <2>2
<1>2. ASSUME NEW x \in MemoryCell
      PROVE  invert(x) \in MemoryCell
  <2>1. PICK a \in Characters, b \in BOOLEAN, c \in BOOLEAN, d \in BOOLEAN : x = Drawn(a, b, c, d)
    BY CellFacts
  <2>2. invert(x) = Drawn(a, ~ b, c, d)
    BY <2>1, <1>1
  <2>3. PICK e \in BOOLEAN : e = ~ b
    OBVIOUS
  <2>4. Drawn(a, e, c, d) \in MemoryCell
    BY CellFacts
  <2>5. invert(x) = Drawn(a, e, c, d)
    BY <2>2, <2>3
  <2> QED BY <2>4, <2>5
<1> QED BY <1>1, <1>2

(* Inverting a range of the selected console (highlight).                   *)
LEMMA Highlighted ==
  ASSUME NEW t, Shaped(t), t.cons \in Cons, NEW from \in Int, NEW to \in Int,
         NEW u, u = highlight(t, from, to)
  PROVE  /\ Shaped(u) /\ Frame(t, u) /\ SameViews(t, u) /\ SameRange(t, u)
         /\ u.original = t.original /\ u.p = t.p
         /\ \A k \in Cons, i \in Memory : u.con[k].mem[i] =
              IF k = t.cons /\ i - screenpos(t, k, 0) \in from .. to
              THEN invert(t.con[k].mem[i]) ELSE t.con[k].mem[i]
<1>1. PICK c \in Cons : c = t.cons
  OBVIOUS
<1>2. PICK old : old = t.con[c].mem
  OBVIOUS
<1> DEFINE in(i) == i \in screenpos(t, c, from) .. screenpos(t, c, to)
<1>3. PICK m : m = [i \in Memory |-> IF in(i) THEN invert(old[i]) ELSE old[i]]
  OBVIOUS
<1>4. u = WithMemory(t, c, m)
  BY <1>1, <1>2, <1>3 DEF highlight, WithMemory
<1>5. \A i \in Memory : in(i) <=> i - screenpos(t, c, 0) \in from .. to
  <2>1. PICK w \in Nat : w = screenpos(t, c, 0)
    BY ViewIsNat
  <2>2. screenpos(t, c, from) = w + from /\ screenpos(t, c, to) = w + to
    BY <2>1, ViewIsNat
  <2>3. Memory \subseteq Int
    BY DEF Memory
  <2> QED BY <2>1, <2>2, <2>3
<1> HIDE DEF in
<1>6. \A i \in Memory : m[i] = IF in(i) THEN invert(old[i]) ELSE old[i]
  BY <1>3
<1>7. \A i \in Memory : old[i] \in MemoryCell
  BY <1>2 DEF Shaped, ConShaped
<1>8. \A x \in MemoryCell : invert(x) \in MemoryCell
  BY InvertedCell DEF MemoryCell
<1>9. IsMemory(m)
  BY <1>3, <1>6, <1>7, <1>8 DEF IsMemory
<1>10. /\ Shaped(u) /\ Frame(t, u) /\ SameViews(t, u) /\ SameRange(t, u)
       /\ u.original = t.original /\ u.p = t.p
       /\ \A k \in Cons : u.con[k].mem = IF k = c THEN m ELSE t.con[k].mem
  BY <1>4, <1>9, NewMemory
<1> QED BY <1>1, <1>2, <1>5, <1>6, <1>10

(* A state whose range is another, and whose memory is inverted where the   *)
(* two differ, is as sound as the one before.                               *)
LEMMA RangeMoved ==
  ASSUME NEW t, SelInv(t), t.p = None, NEW u, Shaped(u), Frame(t, u), SameViews(t, u),
         u.original = t.original, u.p = None, RangeSound(u),
         u.start # -1 => u.cons \in Cons /\ Visible(u, u.cons),
         \A k \in Cons, i \in Memory : u.con[k].mem[i] =
           IF Inverted(u, k, i) # Inverted(t, k, i)
           THEN invert(t.con[k].mem[i]) ELSE t.con[k].mem[i]
  PROVE  SelInv(u)
<1>1. /\ \A k \in Cons, i \in Memory : Cursored(u, k, i) = Cursored(t, k, i)
      /\ \A k \in Cons : CursorCell(u, k) = CursorCell(t, k) /\ Visible(u, k) = Visible(t, k)
  BY DEF Frame, Cursored, CursorCell, Visible
<1>2. Exact(u)
  <2> SUFFICES ASSUME NEW k \in Cons, NEW i \in Memory
               PROVE  u.con[k].mem[i] = Drawn(u.text[k][i], Inverted(u, k, i),
                        Pointed(u, k, i), Cursored(u, k, i))
    BY DEF Exact
  <2>1. t.con[k].mem[i] = Drawn(t.text[k][i], Inverted(t, k, i),
                           Pointed(t, k, i), Cursored(t, k, i))
    BY DEF SelInv, Exact
  <2>2. u.text[k][i] = t.text[k][i]
    BY DEF Frame
  <2>3. Pointed(u, k, i) = FALSE /\ Pointed(t, k, i) = FALSE
    BY DEF Pointed
  <2>4. Inverted(u, k, i) \in BOOLEAN /\ Inverted(t, k, i) \in BOOLEAN
    BY DEF Inverted
  <2>5. PICK x : x = t.con[k].mem[i]
    OBVIOUS
  <2>6. CASE Inverted(u, k, i) # Inverted(t, k, i)
    <3>1. u.con[k].mem[i] = invert(x)
      BY <2>5, <2>6
    <3>2. Inverted(u, k, i) = ~ Inverted(t, k, i)
      BY <2>4, <2>6
    <3>3. invert(x) = Drawn(t.text[k][i], ~ Inverted(t, k, i),
                       Pointed(t, k, i), Cursored(t, k, i))
      BY <2>1, <2>4, <2>5, InvertedCell
    <3> QED BY <2>2, <2>3, <3>1, <3>2, <3>3, <1>1
  <2>7. CASE Inverted(u, k, i) = Inverted(t, k, i)
    BY <2>1, <2>2, <2>3, <2>7, <1>1
  <2> QED BY <2>6, <2>7
<1>3. DisplaysSound(u) /\ PointerSound(u)
  BY DEF SelInv, DisplaysSound, PointerSound, Frame
<1>4. DrawnSound(u)
  BY DEF DrawnSound
<1>5. OriginalSound(u)
  BY <1>1 DEF SelInv, DisplaysSound, OriginalSound, Frame
<1> QED BY <1>2, <1>3, <1>4, <1>5 DEF SelInv

(* The selection is removed, with the pointer (clear_selection).            *)
LEMMA Cleared ==
  ASSUME NEW t, SelInv(t), NEW u, u = clear_selection(t)
  PROVE  /\ SelInv(u) /\ u.p = None /\ u.start = -1 /\ Frame(t, u) /\ SameViews(t, u)
         /\ u.original = t.original
<1>1. PICK v : v = HidePointer(t)
  OBVIOUS
<1>2. /\ SelInv(v) /\ v.p = None /\ Frame(t, v) /\ SameViews(t, v) /\ SameRange(t, v)
      /\ v.original = t.original
  BY <1>1, HiddenPointer
<1>3. CASE v.start = -1
  BY <1>1, <1>2, <1>3 DEF clear_selection
<1>4. CASE v.start # -1
  <2>1. PICK w : w = highlight(v, v.start, v.end)
    OBVIOUS
  <2>2. u = WithRange(w, -1, -1)
    BY <1>1, <1>4, <2>1 DEF clear_selection, WithRange
  <2>3. /\ v.start \in Int /\ v.end \in Int /\ v.cons \in Cons /\ Shaped(v)
    BY <1>2, <1>4 DEF SelInv, RangeSound, DrawnSound
  <2>4. /\ Shaped(w) /\ Frame(v, w) /\ SameViews(v, w) /\ SameRange(v, w)
        /\ w.original = v.original /\ w.p = v.p
        /\ \A k \in Cons, i \in Memory : w.con[k].mem[i] =
             IF k = v.cons /\ i - screenpos(v, k, 0) \in v.start .. v.end
             THEN invert(v.con[k].mem[i]) ELSE v.con[k].mem[i]
    BY <2>1, <2>3, Highlighted
  <2>5. /\ Shaped(u) /\ Frame(w, u) /\ SameViews(w, u) /\ u.start = -1
        /\ u.original = w.original /\ u.p = w.p /\ u.con = w.con
    BY <2>2, <2>4, NewRange
  <2>6. \A k \in Cons, i \in Memory : Inverted(u, k, i) = FALSE
    BY <2>5 DEF Inverted
  <2>7. \A k \in Cons, i \in Memory : u.con[k].mem[i] =
          IF Inverted(u, k, i) # Inverted(v, k, i)
          THEN invert(v.con[k].mem[i]) ELSE v.con[k].mem[i]
    BY <1>4, <2>4, <2>5, <2>6 DEF Inverted
  <2>8. Frame(v, u) /\ SameViews(v, u)
    BY <2>4, <2>5 DEF Frame, SameViews
  <2>9. RangeSound(u)
    BY <2>5 DEF RangeSound
  <2>10. SelInv(u)
    BY <1>2, <2>4, <2>5, <2>7, <2>8, <2>9, RangeMoved
  <2> QED BY <1>2, <2>4, <2>5, <2>8, <2>10 DEF Frame, SameViews
<1> QED BY <1>3, <1>4

(* The cell under a pointer that is shown: complemented, and as it was.     *)
LEMMA ComplementedCell ==
  ASSUME NEW a, NEW b, NEW d
  PROVE  complement(Drawn(a, b, FALSE, d)) = Drawn(a, b, TRUE, d)
<1>1. PICK c : c = FALSE
  OBVIOUS
<1>2. complement(Drawn(a, b, c, d)) = Drawn(a, b, ~ c, d)
  BY <1>1 DEF complement, Drawn
<1> QED BY <1>1, <1>2

(* The pointer moves: to a place of the screen as it is seen                *)
(* (complement_pos).                                                        *)
LEMMA ShownPointer ==
  ASSUME NEW t, SelInv(t), t.cons \in Cons, Visible(t, t.cons), NEW where \in ScreenCells,
         NEW u, u = ShowPointer(t, where)
  PROVE  SelInv(u)
<1>1. PICK v : v = HidePointer(t)
  OBVIOUS
<1>2. /\ SelInv(v) /\ v.p = None /\ Frame(t, v) /\ SameViews(t, v)
  BY <1>1, HiddenPointer
<1>3. PICK c \in Cons : c = v.cons
  BY <1>2 DEF Frame
<1>4. Visible(v, c) /\ Shaped(v)
  BY <1>2, <1>3 DEF Frame, Visible, SelInv
<1>5. PICK at \in Memory : at = screenpos(v, c, where)
  BY <1>4, PlaceInside DEF Shaped, ConShaped, screenpos
<1>6. PICK old : old = v.con[c].mem[at]
  OBVIOUS
<1>7. old = Under(v, c, at) /\ old \in MemoryCell
  BY <1>2, <1>4, <1>6 DEF SelInv, Exact, Under, Pointed, Shaped, ConShaped
<1>8. PICK x : x = complement(old)
  OBVIOUS
<1>9. x = Drawn(v.text[c][at], Inverted(v, c, at), TRUE, Cursored(v, c, at))
  <2>1. Inverted(v, c, at) \in BOOLEAN /\ Cursored(v, c, at) \in BOOLEAN
    BY DEF Inverted, Cursored
  <2> QED BY <1>7, <1>8, <2>1, ComplementedCell DEF Under
<1>10. x \in MemoryCell
  <2>1. v.text[c][at] \in Characters
    BY <1>4 DEF Shaped
  <2>2. PICK b \in BOOLEAN, d \in BOOLEAN, yes \in BOOLEAN :
          b = Inverted(v, c, at) /\ d = Cursored(v, c, at) /\ yes = TRUE
    BY DEF Inverted, Cursored
  <2>3. x = Drawn(v.text[c][at], b, yes, d)
    BY <1>9, <2>2
  <2> QED BY <2>1, <2>3, CellFacts
<1>11. PICK q : q = [con |-> c, at |-> at, old |-> old]
  OBVIOUS
<1>12. q # None /\ q.con = c /\ q.at = at /\ q.old = old
  <2>1. q \in [con : Cons, at : Memory, old : MemoryCell]
    BY <1>7, <1>11
  <2> QED BY <1>11, <2>1, NoneAssumption
<1>13. PICK w : w = WithCell(v, c, at, x)
  OBVIOUS
<1>14. u = WithPointer(w, q)
  BY <1>1, <1>3, <1>5, <1>6, <1>8, <1>11, <1>13 DEF ShowPointer, WithCell, WithPointer
<1>15. /\ Shaped(w) /\ Frame(v, w) /\ SameViews(v, w) /\ SameRange(v, w)
       /\ w.original = v.original
       /\ \A k \in Cons, i \in Memory :
            w.con[k].mem[i] = IF k = c /\ i = at THEN x ELSE v.con[k].mem[i]
  BY <1>4, <1>10, <1>13, NewCell
<1>16. /\ Shaped(u) /\ Frame(w, u) /\ SameViews(w, u) /\ SameRange(w, u)
       /\ u.original = w.original /\ u.p = q /\ u.con = w.con
  BY <1>14, <1>15, NewPointer
<1>17. Frame(v, u) /\ SameViews(v, u) /\ SameRange(v, u) /\ u.original = v.original
  BY <1>15, <1>16 DEF Frame, SameViews, SameRange
<1>18. /\ \A k \in Cons, i \in Memory : /\ Inverted(u, k, i) = Inverted(v, k, i)
                                        /\ Cursored(u, k, i) = Cursored(v, k, i)
       /\ \A k \in Cons : CursorCell(u, k) = CursorCell(v, k) /\ Visible(u, k) = Visible(v, k)
  BY <1>17, LayersSame
<1>19. Exact(u)
  <2> SUFFICES ASSUME NEW k \in Cons, NEW i \in Memory
               PROVE  u.con[k].mem[i] = Drawn(u.text[k][i], Inverted(u, k, i),
                        Pointed(u, k, i), Cursored(u, k, i))
    BY DEF Exact
  <2>1. u.text[k] = v.text[k]
    BY <1>17 DEF Frame
  <2>2. CASE k = c /\ i = at
    <3>1. Pointed(u, k, i) = TRUE
      BY <1>12, <1>16, <2>2 DEF Pointed
    <3> QED BY <1>9, <1>15, <1>16, <1>18, <2>1, <2>2, <3>1
  <2>3. CASE ~ (k = c /\ i = at)
    <3>1. Pointed(u, k, i) = FALSE /\ Pointed(v, k, i) = FALSE
      BY <1>2, <1>12, <1>16, <2>3 DEF Pointed
    <3>2. u.con[k].mem[i] = v.con[k].mem[i]
      BY <1>15, <1>16, <2>3
    <3>3. v.con[k].mem[i] = Drawn(v.text[k][i], Inverted(v, k, i), Pointed(v, k, i), Cursored(v, k, i))
      BY <1>2 DEF SelInv, Exact
    <3> QED BY <1>18, <2>1, <3>1, <3>2, <3>3
  <2> QED BY <2>2, <2>3
<1>20. PointerSound(u)
  <2>1. u.cons = c /\ u.text = v.text
    BY <1>3, <1>17 DEF Frame
  <2>2. u.p.con = c /\ u.p.at = at /\ u.p.old = old
    BY <1>12, <1>16
  <2>3. Inverted(u, c, at) = Inverted(v, c, at) /\ Cursored(u, c, at) = Cursored(v, c, at)
    BY <1>18
  <2>4. old = Drawn(u.text[c][at], Inverted(u, c, at), FALSE, Cursored(u, c, at))
    BY <1>7, <2>1, <2>3 DEF Under
  <2> QED BY <2>1, <2>2, <2>4 DEF PointerSound
<1>21. DisplaysSound(u) /\ RangeSound(u)
  BY <1>2, <1>17 DEF SelInv, DisplaysSound, RangeSound, Frame, SameRange
<1>22. DrawnSound(u)
  BY <1>3, <1>4, <1>17, <1>18 DEF DrawnSound, Frame
<1>23. OriginalSound(u)
  BY <1>2, <1>17, <1>18 DEF SelInv, DisplaysSound, OriginalSound, Frame
<1> QED BY <1>16, <1>19, <1>20, <1>21, <1>22, <1>23 DEF SelInv

-----------------------------------------------------------------------------
(* The soft cursor.                                                         *)

(* Neither selection nor pointer is over console c.                         *)
Clear(t, c) == c = t.cons => t.start = -1 /\ t.p = None

(* From t to u the cell at of console c becomes the text with, or without,  *)
(* a cursor, and x is what its display saves.                               *)
CellRedrawn(t, u, c, at, x) ==
  \A k \in Cons, i \in Memory : u.con[k].mem[i] =
    IF k = c /\ i = at THEN Drawn(t.text[c][at], FALSE, FALSE, x # None) ELSE t.con[k].mem[i]
SavedAs(t, u, c, x) ==
  \A d \in DOMAIN t.fg : u.original[d] = IF d = t.con[c].display THEN x ELSE t.original[d]

(* The soft cursor of a console in the foreground is drawn or taken away,   *)
(* with nothing else over the console: x is what is saved from now on.      *)
LEMMA CursorRedrawn ==
  ASSUME NEW t, SelInv(t), NEW c \in Cons, Visible(t, c), Clear(t, c),
         NEW at, at = CursorCell(t, c),
         NEW x, x \in {None, Plain(t.text[c][at])},
         NEW u, Shaped(u), Frame(t, u), SameViews(t, u), SameRange(t, u), u.p = t.p,
         SavedAs(t, u, c, x), CellRedrawn(t, u, c, at, x)
  PROVE  SelInv(u)
<1> USE DEF SavedAs, CellRedrawn
<1>1. at \in Memory
  BY CursorInside DEF SelInv
<1>2. PICK d \in DOMAIN t.fg : d = t.con[c].display /\ t.fg[d] = c
  BY DEF SelInv, DisplaysSound, Visible
<1>3. /\ \A k \in Cons, i \in Memory : Inverted(u, k, i) = Inverted(t, k, i)
                                       /\ Pointed(u, k, i) = Pointed(t, k, i)
      /\ \A k \in Cons : CursorCell(u, k) = CursorCell(t, k) /\ Visible(u, k) = Visible(t, k)
  BY DEF Frame, SameViews, SameRange, Inverted, Pointed, CursorCell, Visible, screenpos
<1>4. \A k \in Cons, i \in Memory : k # c => Cursored(u, k, i) = Cursored(t, k, i)
  <2> SUFFICES ASSUME NEW k \in Cons, NEW i \in Memory, k # c
               PROVE  Cursored(u, k, i) = Cursored(t, k, i)
    OBVIOUS
  <2>1. t.con[k].display \in DOMAIN t.fg /\ u.con[k].display = t.con[k].display
    BY DEF SelInv, DisplaysSound, Frame
  <2>2. CASE t.con[k].display = d
    <3>1. Visible(t, k) = FALSE
      BY <1>2, <2>2 DEF Visible
    <3> QED BY <1>3, <3>1 DEF Cursored
  <2>3. CASE t.con[k].display # d
    <3>1. u.original[t.con[k].display] = t.original[t.con[k].display]
      BY <1>2, <2>1, <2>3
    <3> QED BY <1>3, <2>1, <3>1 DEF Cursored
  <2> QED BY <2>2, <2>3
<1>5. \A i \in Memory : Cursored(u, c, i) = (x # None /\ i = at)
  <2>1. u.con[c].display = d /\ u.original[d] = x
    BY <1>2 DEF Frame
  <2> QED BY <1>3, <2>1 DEF Cursored
<1>6. \A i \in Memory : Inverted(t, c, i) = FALSE /\ Pointed(t, c, i) = FALSE
  BY DEF Clear, Inverted, Pointed, SelInv, PointerSound
<1>7. \A i \in Memory : i # at => Cursored(t, c, i) = FALSE
  BY DEF Cursored
<1>8. Exact(u)
  <2> SUFFICES ASSUME NEW k \in Cons, NEW i \in Memory
               PROVE  u.con[k].mem[i] = Drawn(u.text[k][i], Inverted(u, k, i),
                        Pointed(u, k, i), Cursored(u, k, i))
    BY DEF Exact
  <2>1. u.text[k] = t.text[k]
    BY DEF Frame
  <2>2. t.con[k].mem[i] = Drawn(t.text[k][i], Inverted(t, k, i), Pointed(t, k, i), Cursored(t, k, i))
    BY DEF SelInv, Exact
  <2>3. CASE k = c /\ i = at
    <3>1. Inverted(u, k, i) = FALSE /\ Pointed(u, k, i) = FALSE
      BY <1>3, <1>6, <2>3
    <3>2. Cursored(u, k, i) = (x # None)
      BY <1>5, <2>3
    <3> QED BY <2>1, <2>3, <3>1, <3>2
  <2>4. CASE ~ (k = c /\ i = at)
    <3>1. Cursored(u, k, i) = Cursored(t, k, i)
      BY <1>4, <1>5, <1>7, <2>4
    <3>2. u.con[k].mem[i] = t.con[k].mem[i]
      BY <2>4
    <3> QED BY <1>3, <2>1, <2>2, <3>1, <3>2
  <2> QED BY <2>3, <2>4
<1>9. PointerSound(u)
  <2> SUFFICES ASSUME u.p # None
               PROVE  /\ u.p.con = u.cons /\ u.p.at \in Memory
                      /\ u.p.old = Drawn(u.text[u.cons][u.p.at], Inverted(u, u.cons, u.p.at),
                                         FALSE, Cursored(u, u.cons, u.p.at))
    BY DEF PointerSound
  <2>1. PICK k \in Cons, i \in Memory : k = t.cons /\ i = t.p.at
    BY DEF SelInv, PointerSound, DrawnSound
  <2>2. t.p.con = k /\ t.p.old = Drawn(t.text[k][i], Inverted(t, k, i), FALSE, Cursored(t, k, i))
    BY <2>1 DEF SelInv, PointerSound
  <2>3. k # c
    BY <2>1 DEF Clear
  <2>4. u.cons = k /\ u.text = t.text
    BY <2>1 DEF Frame
  <2>5. Inverted(u, k, i) = Inverted(t, k, i) /\ Cursored(u, k, i) = Cursored(t, k, i)
    BY <1>3, <1>4, <2>3
  <2> QED BY <2>1, <2>2, <2>4, <2>5
<1>10. DisplaysSound(u) /\ RangeSound(u)
  BY DEF SelInv, DisplaysSound, RangeSound, Frame, SameRange
<1>11. DrawnSound(u)
  BY <1>3 DEF SelInv, DrawnSound, Frame, SameRange
<1>12. OriginalSound(u)
  <2> SUFFICES ASSUME NEW e \in DOMAIN t.fg, u.original[e] # None
               PROVE  u.original[e] = Plain(u.text[u.fg[e]][CursorCell(u, u.fg[e])])
    BY DEF OriginalSound, Frame
  <2>1. u.fg[e] = t.fg[e] /\ t.fg[e] \in Cons /\ u.text = t.text
    BY DEF Frame, SelInv, DisplaysSound
  <2>2. CursorCell(u, u.fg[e]) = CursorCell(t, t.fg[e])
    BY <1>3, <2>1
  <2>3. CASE e = d
    BY <1>2, <2>1, <2>2, <2>3
  <2>4. CASE e # d
    <3>1. u.original[e] = t.original[e]
      BY <1>2, <2>4
    <3> QED BY <2>1, <2>2, <3>1 DEF SelInv, OriginalSound
  <2> QED BY <2>3, <2>4
<1> QED BY <1>8, <1>9, <1>10, <1>11, <1>12 DEF SelInv

WithOriginal(t, d, x) == [t EXCEPT !.original[d] = x]

(* What is saved under the soft cursor of a display (cursor_original).      *)
LEMMA NewOriginal ==
  ASSUME NEW t, Shaped(t), NEW d \in DOMAIN t.fg, NEW x, NEW u, u = WithOriginal(t, d, x)
  PROVE  /\ Shaped(u) /\ Frame(t, u) /\ SameViews(t, u) /\ SameRange(t, u)
         /\ u.p = t.p /\ u.con = t.con
         /\ \A e \in DOMAIN t.fg : u.original[e] = IF e = d THEN x ELSE t.original[e]
<1>1. PICK f : f = [t.original EXCEPT ![d] = x]
  OBVIOUS
<1>2. DOMAIN t.original = DOMAIN t.fg
  BY DEF Shaped
<1>3. DOMAIN f = DOMAIN t.fg /\ \A e \in DOMAIN t.fg : f[e] = IF e = d THEN x ELSE t.original[e]
  BY <1>1, <1>2
<1>4. /\ u.con = t.con /\ DOMAIN u = StateFields /\ u.fg = t.fg /\ u.text = t.text
      /\ u.cons = t.cons /\ u.start = t.start /\ u.end = t.end /\ u.p = t.p
      /\ u.original = f /\ u.blanked = t.blanked
  BY <1>1 DEF Shaped, StateFields, WithOriginal
<1>5. Shaped(u)
  BY <1>3, <1>4 DEF Shaped
<1> QED BY <1>3, <1>4, <1>5 DEF Frame, SameViews, SameRange

(* A plain cell with the soft cursor on it (add_softcursor).                *)
LEMMA InverseCell ==
  ASSUME NEW a
  PROVE  Plain(a) = Drawn(a, FALSE, FALSE, FALSE) /\ inverse(Plain(a)) = Drawn(a, FALSE, FALSE, TRUE)
<1>1. Plain(a) = Drawn(a, FALSE, FALSE, FALSE)
  BY DEF Plain, Drawn
<1>2. ASSUME NEW b, NEW c
      PROVE  inverse(Drawn(a, b, c, FALSE)) = Drawn(a, b, c, TRUE)
  <2>1. PICK d : d = FALSE
    OBVIOUS
  <2>2. inverse(Drawn(a, b, c, d)) = Drawn(a, b, c, ~ d)
    BY <2>1 DEF inverse, Drawn
  <2> QED BY <2>1, <2>2
<1>3. PICK no : no = FALSE
  OBVIOUS
<1>4. inverse(Drawn(a, no, no, FALSE)) = Drawn(a, no, no, TRUE)
  BY <1>2
<1> QED BY <1>1, <1>3, <1>4

(* What requests about the cursor leave alone.                              *)
Kept(t, u) == SelInv(u) /\ Frame(t, u) /\ SameViews(t, u) /\ SameRange(t, u) /\ u.p = t.p

(* A cursor is drawn (add_softcursor).                                      *)
LEMMA AddedCursor ==
  ASSUME NEW t, SelInv(t), NEW c \in Cons, Visible(t, c), Clear(t, c),
         NEW u, u = add_softcursor(t, c)
  PROVE  Kept(t, u)
<1>1. PICK d \in DOMAIN t.fg : d = t.con[c].display /\ t.fg[d] = c
  BY DEF SelInv, DisplaysSound, Visible
<1>2. CASE "soft" \notin t.con[c].type \/ t.original[d] # None
  BY <1>1, <1>2 DEF add_softcursor, Kept, Frame, SameViews, SameRange
<1>3. CASE ~ ("soft" \notin t.con[c].type \/ t.original[d] # None)
  <2>1. PICK at \in Memory : at = CursorCell(t, c)
    BY CursorInside DEF SelInv
  <2>2. PICK a \in Characters : a = t.text[c][at]
    BY DEF SelInv, Shaped
  <2>3. t.con[c].mem[at] = Plain(a)
    <3>1. t.con[c].mem[at] = Drawn(a, Inverted(t, c, at), Pointed(t, c, at), Cursored(t, c, at))
      BY <2>2 DEF SelInv, Exact
    <3>2. Inverted(t, c, at) = FALSE /\ Pointed(t, c, at) = FALSE
      BY DEF Clear, Inverted, Pointed, SelInv, PointerSound
    <3>3. Cursored(t, c, at) = FALSE
      BY <1>1, <1>3 DEF Cursored
    <3> QED BY <3>1, <3>2, <3>3, InverseCell
  <2>4. PICK y : y = inverse(Plain(a))
    OBVIOUS
  <2>5. y = Drawn(a, FALSE, FALSE, TRUE) /\ Plain(a) # None
    BY <2>4, InverseCell, PlainIsCell
  <2>6. y \in MemoryCell
    <3>1. PICK no \in BOOLEAN, yes \in BOOLEAN : no = FALSE /\ yes = TRUE
      OBVIOUS
    <3>2. Drawn(a, no, no, yes) \in MemoryCell
      BY CellFacts
    <3> QED BY <2>5, <3>1, <3>2
  <2>7. PICK v : v = WithOriginal(t, d, Plain(a))
    OBVIOUS
  <2>8. u = WithCell(v, c, at, y)
    BY <1>1, <1>3, <2>1, <2>3, <2>4, <2>7 DEF add_softcursor, WithCell, WithOriginal
  <2>9. /\ Shaped(v) /\ Frame(t, v) /\ SameViews(t, v) /\ SameRange(t, v)
        /\ v.p = t.p /\ v.con = t.con
        /\ \A e \in DOMAIN t.fg : v.original[e] = IF e = d THEN Plain(a) ELSE t.original[e]
    BY <2>7, NewOriginal DEF SelInv
  <2>10. /\ Shaped(u) /\ Frame(v, u) /\ SameViews(v, u) /\ SameRange(v, u)
         /\ u.original = v.original /\ u.p = v.p
         /\ \A k \in Cons, i \in Memory :
              u.con[k].mem[i] = IF k = c /\ i = at THEN y ELSE v.con[k].mem[i]
    BY <2>6, <2>8, <2>9, NewCell
  <2>11. Frame(t, u) /\ SameViews(t, u) /\ SameRange(t, u) /\ u.p = t.p
    BY <2>9, <2>10 DEF Frame, SameViews, SameRange
  <2>12. PICK x : x = Plain(a)
    OBVIOUS
  <2>13. x # None /\ x \in {None, Plain(t.text[c][at])}
    BY <2>2, <2>5, <2>12
  <2>14. CellRedrawn(t, u, c, at, x)
    BY <2>2, <2>5, <2>9, <2>10, <2>13 DEF CellRedrawn
  <2>15. SavedAs(t, u, c, x)
    BY <1>1, <2>9, <2>10, <2>12 DEF SavedAs
  <2>16. SelInv(u)
    BY <2>1, <2>10, <2>11, <2>13, <2>14, <2>15, CursorRedrawn
  <2> QED BY <2>11, <2>16 DEF Kept
<1> QED BY <1>2, <1>3

(* A cursor is taken away (hide_softcursor).                                *)
LEMMA RemovedCursor ==
  ASSUME NEW t, SelInv(t), NEW c \in Cons, Visible(t, c), Clear(t, c),
         NEW u, u = hide_softcursor(t, c)
  PROVE  Kept(t, u) /\ u.original[u.con[c].display] = None
<1>1. PICK d \in DOMAIN t.fg : d = t.con[c].display /\ t.fg[d] = c
  BY DEF SelInv, DisplaysSound, Visible
<1>2. CASE t.original[d] = None
  BY <1>1, <1>2 DEF hide_softcursor, Kept, Frame, SameViews, SameRange
<1>3. CASE t.original[d] # None
  <2>1. PICK at \in Memory : at = CursorCell(t, c)
    BY CursorInside DEF SelInv
  <2>2. PICK a \in Characters : a = t.text[c][at]
    BY DEF SelInv, Shaped
  <2>3. t.original[d] = Plain(a)
    BY <1>1, <1>3, <2>1, <2>2 DEF SelInv, OriginalSound
  <2>4. Plain(a) = Drawn(a, FALSE, FALSE, FALSE) /\ Plain(a) \in MemoryCell
    BY InverseCell, PlainIsCell
  <2>5. PICK y \in MemoryCell : y = Plain(a)
    BY <2>4
  <2> DEFINE v == WithCell(t, c, at, y)
  <2>6. u = WithOriginal(v, d, None)
    BY <1>1, <1>3, <2>1, <2>3, <2>5 DEF hide_softcursor, WithCell, WithOriginal
  <2>7. /\ Shaped(v) /\ Frame(t, v) /\ SameViews(t, v) /\ SameRange(t, v)
        /\ v.original = t.original /\ v.p = t.p
        /\ \A k \in Cons, i \in Memory :
             v.con[k].mem[i] = IF k = c /\ i = at THEN Plain(a) ELSE t.con[k].mem[i]
    <3>1. Shaped(t)
      BY DEF SelInv
    <3> QED BY <2>5, <3>1, NewCell
  <2> HIDE DEF v
  <2>8. d \in DOMAIN v.fg
    BY <2>7 DEF Frame
  <2>9. /\ Shaped(u) /\ Frame(v, u) /\ SameViews(v, u) /\ SameRange(v, u)
        /\ u.p = v.p /\ u.con = v.con
        /\ \A e \in DOMAIN v.fg : u.original[e] = IF e = d THEN None ELSE v.original[e]
    BY <2>6, <2>7, <2>8, NewOriginal
  <2>10. Frame(t, u) /\ SameViews(t, u) /\ SameRange(t, u) /\ u.p = t.p
    BY <2>7, <2>9 DEF Frame, SameViews, SameRange
  <2>11. PICK x : x = None
    OBVIOUS
  <2>12. CellRedrawn(t, u, c, at, x)
    <3>1. (x # None) = FALSE
      BY <2>11
    <3> QED BY <2>2, <2>4, <2>7, <2>9, <3>1 DEF CellRedrawn
  <2>13. SavedAs(t, u, c, x)
    BY <1>1, <2>7, <2>9, <2>11 DEF Frame, SavedAs
  <2>14. SelInv(u)
    BY <2>1, <2>9, <2>10, <2>11, <2>12, <2>13, CursorRedrawn
  <2> QED BY <1>1, <2>10, <2>11, <2>13, <2>14 DEF Kept, Frame, SavedAs
<1> QED BY <1>2, <1>3

-----------------------------------------------------------------------------
(* hide_cursor and set_cursor.                                              *)

WithConsole(t, c, x) == [t EXCEPT !.con[c] = x]

(* A console as it is, but for what the layers do not depend on, or for its *)
(* view.                                                                    *)
LEMMA NewConsole ==
  ASSUME NEW t, SelInv(t), NEW c \in Cons, NEW x, ConShaped(x),
         x.display = t.con[c].display, x.pos = t.con[c].pos, x.mem = t.con[c].mem,
         Clear(t, c) \/ x.view = t.con[c].view,
         NEW u, u = WithConsole(t, c, x)
  PROVE  SelInv(u) /\ Frame(t, u) /\ SameRange(t, u) /\ u.p = t.p /\ u.original = t.original
<1>1. PICK n : n = [t.con EXCEPT ![c] = x]
  OBVIOUS
<1>2. DOMAIN n = Cons /\ \A k \in Cons : n[k] = IF k = c THEN x ELSE t.con[k]
  BY <1>1 DEF Shaped, SelInv
<1>3. Shaped(t)
  BY DEF SelInv
<1>4. /\ u.con = n /\ DOMAIN u = StateFields /\ u.fg = t.fg /\ u.text = t.text
      /\ u.cons = t.cons /\ u.start = t.start /\ u.end = t.end /\ u.p = t.p
      /\ u.original = t.original /\ u.blanked = t.blanked
  BY <1>1, <1>3 DEF Shaped, StateFields, WithConsole
<1>5. Shaped(u)
  BY <1>2, <1>3, <1>4 DEF Shaped
<1>6. Frame(t, u) /\ SameRange(t, u) /\ \A k \in Cons : u.con[k].mem = t.con[k].mem
  BY <1>2, <1>4 DEF Frame, SameRange
<1>7. /\ \A k \in Cons, i \in Memory : Pointed(u, k, i) = Pointed(t, k, i)
                                       /\ Cursored(u, k, i) = Cursored(t, k, i)
      /\ \A k \in Cons : CursorCell(u, k) = CursorCell(t, k) /\ Visible(u, k) = Visible(t, k)
  BY <1>4, <1>6 DEF Frame, Pointed, Cursored, CursorCell, Visible
<1>8. \A k \in Cons, i \in Memory : Inverted(u, k, i) = Inverted(t, k, i)
  <2>1. CASE Clear(t, c)
    BY <1>2, <1>4, <2>1 DEF Clear, Inverted, screenpos
  <2>2. CASE x.view = t.con[c].view
    BY <1>2, <1>4, <2>2 DEF Inverted, screenpos
  <2> QED BY <2>1, <2>2
<1>9. Exact(u)
  <2> SUFFICES ASSUME NEW k \in Cons, NEW i \in Memory
               PROVE  u.con[k].mem[i] = Drawn(u.text[k][i], Inverted(u, k, i),
                        Pointed(u, k, i), Cursored(u, k, i))
    BY DEF Exact
  <2>1. t.con[k].mem[i] = Drawn(t.text[k][i], Inverted(t, k, i), Pointed(t, k, i), Cursored(t, k, i))
    BY DEF SelInv, Exact
  <2> QED BY <1>4, <1>6, <1>7, <1>8, <2>1
<1>10. PointerSound(u)
  <2> SUFFICES ASSUME u.p # None
               PROVE  /\ u.p.con = u.cons /\ u.p.at \in Memory
                      /\ u.p.old = Drawn(u.text[u.cons][u.p.at], Inverted(u, u.cons, u.p.at),
                                         FALSE, Cursored(u, u.cons, u.p.at))
    BY DEF PointerSound
  <2>1. PICK k \in Cons, i \in Memory : k = t.cons /\ i = t.p.at
    BY <1>4 DEF SelInv, PointerSound, DrawnSound
  <2>2. t.p.con = k /\ t.p.old = Drawn(t.text[k][i], Inverted(t, k, i), FALSE, Cursored(t, k, i))
    BY <1>4, <2>1 DEF SelInv, PointerSound
  <2> QED BY <1>4, <1>7, <1>8, <2>1, <2>2
<1>11. DisplaysSound(u) /\ RangeSound(u)
  BY <1>6 DEF SelInv, DisplaysSound, RangeSound, Frame, SameRange
<1>12. DrawnSound(u)
  BY <1>4, <1>7 DEF SelInv, DrawnSound
<1>13. OriginalSound(u)
  BY <1>4, <1>7 DEF SelInv, DisplaysSound, OriginalSound
<1> QED BY <1>4, <1>5, <1>6, <1>9, <1>10, <1>11, <1>12, <1>13 DEF SelInv

WithView(t, c, row) == [t EXCEPT !.con[c].view = row]
WithOrigin(t, c, row) == [t EXCEPT !.con[c].view = row, !.con[c].back = 0]

(* The view of a console that nothing is drawn on moves (vgacon_cursor,     *)
(* set_origin, vgacon_scroll).                                              *)
LEMMA ViewMoved ==
  ASSUME NEW t, SelInv(t), NEW c \in Cons, Clear(t, c), NEW row \in 0 .. Back, NEW u,
         u = WithView(t, c, row) \/ u = WithOrigin(t, c, row)
  PROVE  SelInv(u) /\ Frame(t, u) /\ SameRange(t, u) /\ u.p = t.p /\ u.original = t.original
<1>1. PICK y : y = t.con[c]
  OBVIOUS
<1>2. ConShaped(y) /\ t.con[c] = y /\ c \in DOMAIN t.con /\ "con" \in DOMAIN t
  BY <1>1 DEF SelInv, Shaped, StateFields
<1>3. 0 \in 0 .. Back
  BY SelectionAssumption
<1>4. CASE u = WithView(t, c, row)
  <2>1. PICK x : x = [y EXCEPT !.view = row]
    OBVIOUS
  <2>2. /\ DOMAIN x = ConFields /\ x.view = row /\ x.display = y.display /\ x.pos = y.pos
        /\ x.mem = y.mem /\ x.back = y.back
    BY <1>2, <2>1 DEF ConShaped, ConFields
  <2>3. ConShaped(x)
    BY <1>2, <2>2 DEF ConShaped
  <2>4. u = WithConsole(t, c, x)
    BY <1>1, <1>4, <2>1 DEF WithConsole, WithView
  <2> QED BY <1>2, <2>2, <2>3, <2>4, NewConsole
<1>5. CASE u = WithOrigin(t, c, row)
  <2>1. PICK x : x = [y EXCEPT !.view = row, !.back = 0]
    OBVIOUS
  <2>2. /\ DOMAIN x = ConFields /\ x.view = row /\ x.display = y.display /\ x.pos = y.pos
        /\ x.mem = y.mem /\ x.back = 0
    BY <1>2, <2>1 DEF ConShaped, ConFields
  <2>3. ConShaped(x)
    BY <1>2, <1>3, <2>2 DEF ConShaped
  <2>4. u = WithConsole(t, c, x)
    <3>1. PICK z : z = [y EXCEPT !.view = row]
      OBVIOUS
    <3>2. PICK v : v = [t EXCEPT !.con[c] = z]
      OBVIOUS
    <3>3. v.con[c] = z
      BY <1>2, <3>2
    <3>4. u = [v EXCEPT !.con[c] = [z EXCEPT !.back = 0]]
      BY <1>1, <1>5, <3>1, <3>2, <3>3 DEF WithOrigin
    <3>5. x = [z EXCEPT !.back = 0]
      BY <2>1, <3>1
    <3> QED BY <1>2, <3>2, <3>4, <3>5 DEF WithConsole
  <2> QED BY <1>2, <2>2, <2>3, <2>4, NewConsole
<1> QED BY <1>4, <1>5

(* Nothing is drawn over a console after this (hide_cursor, set_cursor).    *)
LEMMA Deselected ==
  ASSUME NEW t, SelInv(t), NEW c \in Cons, NEW u, u = Deselect(t, c)
  PROVE  SelInv(u) /\ Frame(t, u) /\ Clear(u, c) /\ u.original = t.original
<1>1. CASE c = t.cons
  BY <1>1, Cleared DEF Deselect, Clear
<1>2. CASE c # t.cons
  BY <1>2 DEF Deselect, Clear, Frame
<1> QED BY <1>1, <1>2

(* After hide_cursor nothing is drawn over the console in the foreground.   *)
LEMMA CursorHidden ==
  ASSUME NEW t, SelInv(t), NEW c \in Cons, Visible(t, c), NEW u, u = hide_cursor(t, c)
  PROVE  SelInv(u) /\ Frame(t, u) /\ Clear(u, c) /\ u.original[u.con[c].display] = None
<1>1. PICK v : v = Deselect(t, c)
  OBVIOUS
<1>2. SelInv(v) /\ Frame(t, v) /\ Clear(v, c)
  BY <1>1, Deselected
<1>3. PICK w : w = con_cursor(v, c)
  OBVIOUS
<1>4. Back \in 0 .. Back
  BY SelectionAssumption
<1>5. SelInv(w) /\ Frame(v, w) /\ SameRange(v, w) /\ w.p = v.p
  <2>1. w = WithView(v, c, Back)
    BY <1>3 DEF con_cursor, WithView
  <2> QED BY <1>2, <1>4, <2>1, ViewMoved
<1>6. u = hide_softcursor(w, c)
  BY <1>1, <1>3 DEF hide_cursor
<1>7. Visible(w, c) /\ Clear(w, c)
  BY <1>2, <1>5 DEF Frame, SameRange, Visible, Clear
<1>8. Kept(w, u) /\ u.original[u.con[c].display] = None
  BY <1>5, <1>6, <1>7, RemovedCursor
<1> QED BY <1>2, <1>5, <1>7, <1>8 DEF Kept, Frame, SameRange, Clear

(* set_cursor.                                                              *)
LEMMA CursorSet ==
  ASSUME NEW t, SelInv(t), NEW c \in Cons, NEW u, u = set_cursor(t, c)
  PROVE  SelInv(u) /\ Frame(t, u)
<1>1. CASE ~ Visible(t, c) \/ t.blanked[t.con[c].display]
  BY <1>1 DEF set_cursor, Frame
<1>2. CASE Visible(t, c) /\ ~ t.blanked[t.con[c].display]
  <2>1. CASE t.con[c].type = {}
    <3>1. u = hide_cursor(t, c)
      BY <1>2, <2>1 DEF set_cursor
    <3> QED BY <1>2, <3>1, CursorHidden
  <2>2. CASE t.con[c].type # {}
    <3>1. PICK v : v = Deselect(t, c)
      OBVIOUS
    <3>2. SelInv(v) /\ Frame(t, v) /\ Clear(v, c)
      BY <3>1, Deselected
    <3>3. Visible(v, c)
      BY <1>2, <3>2 DEF Frame, Visible
    <3>4. PICK w : w = add_softcursor(v, c)
      OBVIOUS
    <3>5. Kept(v, w)
      BY <3>2, <3>3, <3>4, AddedCursor
    <3>6. SelInv(w) /\ Frame(t, w) /\ Clear(w, c)
      BY <3>2, <3>5 DEF Kept, Frame, SameRange, Clear
    <3>7. u = con_cursor(w, c) \/ u = w
      BY <1>2, <2>2, <3>1, <3>4 DEF set_cursor
    <3>8. CASE u = w
      BY <3>6, <3>8
    <3>9. CASE u = con_cursor(w, c)
      <4>1. Back \in 0 .. Back
        BY SelectionAssumption
      <4>2. SelInv(u) /\ Frame(w, u)
        <5>1. u = WithView(w, c, Back)
          BY <3>9 DEF con_cursor, WithView
        <5> QED BY <3>6, <4>1, <5>1, ViewMoved
      <4> QED BY <3>6, <4>2 DEF Frame
    <3> QED BY <3>7, <3>8, <3>9
  <2> QED BY <2>1, <2>2
<1> QED BY <1>1, <1>2

(* Everything the invariant is about is the same.                           *)
SameLayers(t, u) ==
  /\ u.con = t.con /\ u.fg = t.fg /\ u.text = t.text /\ u.cons = t.cons /\ u.start = t.start
  /\ u.end = t.end /\ u.p = t.p /\ u.original = t.original

(* Then it still holds.                                                     *)
LEMMA LayersKept ==
  ASSUME NEW t, SelInv(t), NEW u, Shaped(u), SameLayers(t, u)
  PROVE  SelInv(u)
<1>1. /\ \A k, i : /\ Inverted(u, k, i) = Inverted(t, k, i) /\ Pointed(u, k, i) = Pointed(t, k, i)
                   /\ Cursored(u, k, i) = Cursored(t, k, i)
      /\ \A k : CursorCell(u, k) = CursorCell(t, k) /\ Visible(u, k) = Visible(t, k)
  BY DEF SameLayers, Inverted, Pointed, Cursored, CursorCell, Visible, screenpos
<1>2. Exact(u)
  <2> SUFFICES ASSUME NEW k \in Cons, NEW i \in Memory
               PROVE  u.con[k].mem[i] = Drawn(u.text[k][i], Inverted(u, k, i),
                        Pointed(u, k, i), Cursored(u, k, i))
    BY DEF Exact
  <2>1. t.con[k].mem[i] = Drawn(t.text[k][i], Inverted(t, k, i), Pointed(t, k, i), Cursored(t, k, i))
    BY DEF SelInv, Exact
  <2> QED BY <1>1, <2>1 DEF SameLayers
<1>3. PointerSound(u)
  <2>1. CASE t.p = None
    BY <2>1 DEF SameLayers, PointerSound
  <2>2. CASE t.p # None
    <3>1. /\ t.p.con = t.cons /\ t.p.at \in Memory
          /\ t.p.old = Drawn(t.text[t.cons][t.p.at], Inverted(t, t.cons, t.p.at),
                             FALSE, Cursored(t, t.cons, t.p.at))
      BY <2>2 DEF SelInv, PointerSound
    <3>2. PICK k, i : k = t.cons /\ i = t.p.at
      OBVIOUS
    <3>3. u.p.old = Drawn(u.text[k][i], Inverted(u, k, i), FALSE, Cursored(u, k, i))
      BY <1>1, <3>1, <3>2 DEF SameLayers
    <3>4. u.cons = k /\ u.p.at = i /\ u.p.con = k /\ i \in Memory
      BY <3>1, <3>2 DEF SameLayers
    <3> QED BY <3>3, <3>4 DEF PointerSound
  <2> QED BY <2>1, <2>2
<1>4. DisplaysSound(u) /\ RangeSound(u)
  BY DEF SelInv, SameLayers, DisplaysSound, RangeSound
<1>5. DrawnSound(u)
  BY <1>1 DEF SelInv, SameLayers, DrawnSound
<1>6. OriginalSound(u)
  BY <1>1 DEF SelInv, SameLayers, DisplaysSound, OriginalSound
<1> QED BY <1>2, <1>3, <1>4, <1>5, <1>6 DEF SelInv

WithBlanked(t, d, b) == [t EXCEPT !.blanked[d] = b]

(* A screen is blanked or not without a change of the text (vt_blanked).    *)
LEMMA NewBlanked ==
  ASSUME NEW t, SelInv(t), NEW d, NEW b, NEW u, u = WithBlanked(t, d, b)
  PROVE  SelInv(u) /\ Frame(t, u)
<1>1. Shaped(t)
  BY DEF SelInv
<1>2. PICK f : f = [t.blanked EXCEPT ![d] = b]
  OBVIOUS
<1>3. DOMAIN f = DOMAIN t.fg
  BY <1>1, <1>2 DEF Shaped
<1>4. /\ u.con = t.con /\ DOMAIN u = StateFields /\ u.fg = t.fg /\ u.text = t.text
      /\ u.cons = t.cons /\ u.start = t.start /\ u.end = t.end /\ u.p = t.p
      /\ u.original = t.original /\ u.blanked = f
  BY <1>1, <1>2 DEF Shaped, StateFields, WithBlanked
<1>5. Shaped(u)
  BY <1>1, <1>3, <1>4 DEF Shaped
<1>6. Frame(t, u) /\ SameViews(t, u) /\ SameRange(t, u)
  BY <1>4 DEF Frame, SameViews, SameRange
<1>7. SameLayers(t, u)
  BY <1>4 DEF SameLayers
<1> QED BY <1>5, <1>6, <1>7, LayersKept

(* unblank_vt.                                                              *)
LEMMA Unblanked ==
  ASSUME NEW t, SelInv(t), NEW d \in DOMAIN t.fg, NEW u, u = unblank_vt(t, d)
  PROVE  SelInv(u) /\ Frame(t, u)
<1>1. CASE t.blanked[d]
  <2>1. PICK v : v = WithBlanked(t, d, FALSE)
    OBVIOUS
  <2>2. SelInv(v) /\ Frame(t, v)
    BY <2>1, NewBlanked
  <2>3. PICK c \in Cons : c = t.fg[d]
    BY DEF SelInv, DisplaysSound
  <2>4. u = set_cursor(v, c)
    BY <1>1, <2>1, <2>3 DEF unblank_vt, WithBlanked
  <2>5. SelInv(u) /\ Frame(v, u)
    BY <2>2, <2>4, CursorSet
  <2> QED BY <2>2, <2>5 DEF Frame
<1>2. CASE ~ t.blanked[d]
  BY <1>2 DEF unblank_vt, Frame
<1> QED BY <1>1, <1>2

(* Nothing is drawn over a console that is in the foreground or not.        *)
Undrawn(t, c) == Clear(t, c) /\ (Visible(t, c) => t.original[t.con[c].display] = None)

(* Before a console is written to nothing is drawn over it, whether or not  *)
(* it is in the foreground (do_con_write).                                  *)
LEMMA Undraws ==
  ASSUME NEW t, SelInv(t), NEW c \in Cons, NEW u, u = Undraw(t, c)
  PROVE  SelInv(u) /\ Frame(t, u) /\ Undrawn(u, c)
<1>1. CASE Visible(t, c)
  BY <1>1, CursorHidden DEF Undraw, Undrawn
<1>2. CASE ~ Visible(t, c)
  BY <1>2 DEF Undraw, Undrawn, Clear, SelInv, DrawnSound, Frame
<1> QED BY <1>1, <1>2

-----------------------------------------------------------------------------
(* A selection is set (set_selection).                                      *)

WithCons(t, c) == [t EXCEPT !.cons = c]

(* The selected console is the one in the foreground from then on (the      *)
(* first lines of set_selection).                                           *)
LEMMA NewCons ==
  ASSUME NEW t, SelInv(t), t.start = -1, t.p = None, NEW c, NEW u, u = WithCons(t, c)
  PROVE  SelInv(u) /\ u.fg = t.fg /\ u.con = t.con /\ u.cons = c
<1>1. Shaped(t)
  BY DEF SelInv
<1>2. /\ u.con = t.con /\ DOMAIN u = StateFields /\ u.fg = t.fg /\ u.text = t.text
      /\ u.cons = c /\ u.start = t.start /\ u.end = t.end /\ u.p = t.p
      /\ u.original = t.original /\ u.blanked = t.blanked
  BY <1>1 DEF Shaped, StateFields, WithCons
<1>3. Shaped(u)
  BY <1>1, <1>2 DEF Shaped
<1>4. /\ \A k, i : /\ Inverted(u, k, i) = Inverted(t, k, i) /\ Pointed(u, k, i) = Pointed(t, k, i)
                   /\ Cursored(u, k, i) = Cursored(t, k, i)
      /\ \A k : CursorCell(u, k) = CursorCell(t, k) /\ Visible(u, k) = Visible(t, k)
  BY <1>2 DEF Inverted, Pointed, Cursored, CursorCell, Visible
<1>5. Exact(u)
  <2> SUFFICES ASSUME NEW k \in Cons, NEW i \in Memory
               PROVE  u.con[k].mem[i] = Drawn(u.text[k][i], Inverted(u, k, i),
                        Pointed(u, k, i), Cursored(u, k, i))
    BY DEF Exact
  <2>1. t.con[k].mem[i] = Drawn(t.text[k][i], Inverted(t, k, i), Pointed(t, k, i), Cursored(t, k, i))
    BY DEF SelInv, Exact
  <2> QED BY <1>2, <1>4, <2>1
<1>6. PointerSound(u) /\ DrawnSound(u) /\ RangeSound(u)
  BY <1>2 DEF PointerSound, DrawnSound, RangeSound
<1>7. DisplaysSound(u)
  BY <1>2 DEF SelInv, DisplaysSound
<1>8. OriginalSound(u)
  BY <1>2, <1>4 DEF SelInv, DisplaysSound, OriginalSound
<1> QED BY <1>2, <1>3, <1>5, <1>6, <1>7, <1>8 DEF SelInv

(* After the first lines the selected console is in the foreground.         *)
LEMMA IsReady ==
  ASSUME SelInv(sel), NEW d \in DOMAIN sel.fg, NEW poke, NEW u, u = Ready(d, poke)
  PROVE  SelInv(u) /\ u.cons \in Cons /\ Visible(u, u.cons)
<1>1. PICK t : t = IF poke THEN unblank_vt(sel, d) ELSE sel
  OBVIOUS
<1>2. SelInv(t) /\ Frame(sel, t)
  <2>1. CASE t = unblank_vt(sel, d)
    BY <2>1, Unblanked
  <2>2. CASE t = sel
    BY <2>2 DEF Frame
  <2> QED BY <1>1, <2>1, <2>2
<1>3. PICK c \in Cons : c = t.fg[d] /\ t.con[c].display = d
  BY <1>2 DEF SelInv, DisplaysSound, Frame
<1>4. CASE t.cons = c
  BY <1>1, <1>2, <1>3, <1>4 DEF Ready, Visible
<1>5. CASE t.cons # c
  <2>1. PICK v : v = clear_selection(t)
    OBVIOUS
  <2>2. SelInv(v) /\ v.start = -1 /\ v.p = None /\ Frame(t, v)
    BY <1>2, <2>1, Cleared
  <2>3. u = WithCons(v, c)
    BY <1>1, <1>3, <1>5, <2>1 DEF Ready, WithCons
  <2>4. SelInv(u) /\ u.fg = v.fg /\ u.con = v.con /\ u.cons = c
    BY <2>2, <2>3, NewCons
  <2> QED BY <1>3, <2>2, <2>4 DEF Frame, Visible
<1> QED BY <1>4, <1>5

(* One range inverted where the old and the new selection differ.           *)
LEMMA OneRange ==
  ASSUME NEW t, SelInv(t), t.p = None, t.cons \in Cons, Visible(t, t.cons),
         NEW from \in Int, NEW to \in Int, NEW start \in Nat, NEW end \in Nat, start <= end,
         \A p \in Int : p \in from .. to <=>
           (p \in start .. end) # (t.start # -1 /\ p \in t.start .. t.end),
         NEW w, w = highlight(t, from, to), NEW u, u = WithRange(w, start, end)
  PROVE  SelInv(u) /\ Frame(t, u)
<1>1. Shaped(t)
  BY DEF SelInv
<1>2. /\ Shaped(w) /\ Frame(t, w) /\ SameViews(t, w)
      /\ w.original = t.original /\ w.p = t.p
      /\ \A k \in Cons, i \in Memory : w.con[k].mem[i] =
           IF k = t.cons /\ i - screenpos(t, k, 0) \in from .. to
           THEN invert(t.con[k].mem[i]) ELSE t.con[k].mem[i]
  BY <1>1, Highlighted
<1>3. /\ Shaped(u) /\ Frame(w, u) /\ SameViews(w, u) /\ u.start = start /\ u.end = end
      /\ u.original = w.original /\ u.p = w.p /\ u.con = w.con
  BY <1>2, NewRange
<1>4. Frame(t, u) /\ SameViews(t, u)
  BY <1>2, <1>3 DEF Frame, SameViews
<1>5. \A k \in Cons, i \in Memory : u.con[k].mem[i] =
        IF Inverted(u, k, i) # Inverted(t, k, i)
        THEN invert(t.con[k].mem[i]) ELSE t.con[k].mem[i]
  <2> SUFFICES ASSUME NEW k \in Cons, NEW i \in Memory
               PROVE  (k = t.cons /\ i - screenpos(t, k, 0) \in from .. to) <=>
                      (Inverted(u, k, i) # Inverted(t, k, i))
    BY <1>2, <1>3
  <2>1. u.cons = t.cons /\ screenpos(u, k, 0) = screenpos(t, k, 0)
    BY <1>4 DEF Frame, SameViews, screenpos
  <2>2. start # -1
    OBVIOUS
  <2>3. PICK p \in Int : p = i - screenpos(t, k, 0)
    <3>1. i \in Int
      BY DEF Memory
    <3> QED BY <1>1, <3>1, ViewIsNat
  <2>4. Inverted(u, k, i) <=> k = t.cons /\ p \in start .. end
    BY <1>3, <2>1, <2>2, <2>3 DEF Inverted
  <2>5. Inverted(t, k, i) <=> k = t.cons /\ t.start # -1 /\ p \in t.start .. t.end
    BY <2>3 DEF Inverted
  <2>6. p \in from .. to <=> ~ (p \in start .. end <=> t.start # -1 /\ p \in t.start .. t.end)
    OBVIOUS
  <2>7. (Inverted(u, k, i) # Inverted(t, k, i)) <=> ~ (Inverted(u, k, i) <=> Inverted(t, k, i))
    BY DEF Inverted
  <2>8. CASE k = t.cons
    <3>1. i - screenpos(t, k, 0) \in from .. to <=> ~ (Inverted(u, k, i) <=> Inverted(t, k, i))
      BY <2>3, <2>4, <2>5, <2>6, <2>8
    <3> QED BY <2>7, <2>8, <3>1
  <2>9. CASE k # t.cons
    BY <2>4, <2>5, <2>7, <2>9
  <2> QED BY <2>8, <2>9
<1>6. RangeSound(u)
  BY <1>3 DEF RangeSound
<1>7. u.cons \in Cons /\ Visible(u, u.cons)
  BY <1>4 DEF Frame, Visible
<1>8. u.p = None /\ u.original = t.original
  BY <1>2, <1>3
<1> QED BY <1>3, <1>4, <1>5, <1>6, <1>7, <1>8, RangeMoved

Differ(start, end, a, b, from, to) ==
  \A p \in Int : p \in from .. to <=> (p \in start .. end) # (p \in a .. b)

(* The new range is inverted and the old is not (set_selection).            *)
LEMMA Rehighlighted ==
  ASSUME NEW t, SelInv(t), t.p = None, t.cons \in Cons, Visible(t, t.cons),
         NEW start \in Nat, NEW end \in Nat, start <= end,
         NEW u, u = WithRange(Rehighlight(t, start, end), start, end)
  PROVE  SelInv(u) /\ Frame(t, u)
<1>1. CASE t.start = -1
  <2>1. Rehighlight(t, start, end) = highlight(t, start, end)
    BY <1>1 DEF Rehighlight
  <2>2. \A p \in Int : p \in start .. end <=>
          (p \in start .. end) # (t.start # -1 /\ p \in t.start .. t.end)
    BY <1>1
  <2> QED BY <2>1, <2>2, OneRange
<1>2. CASE t.start # -1
  <2>1. PICK a \in Nat, b \in Nat : a = t.start /\ b = t.end /\ a <= b
    BY <1>2 DEF SelInv, RangeSound
  <2>2. ASSUME NEW from \in Int, NEW to \in Int,
               Rehighlight(t, start, end) = highlight(t, from, to),
               Differ(start, end, a, b, from, to)
        PROVE  SelInv(u) /\ Frame(t, u)
    <3>1. \A p \in Int : p \in from .. to <=>
            (p \in start .. end) # (t.start # -1 /\ p \in t.start .. t.end)
      BY <1>2, <2>1, <2>2 DEF Differ
    <3> QED BY <2>2, <3>1, OneRange
  <2>3. CASE start = a /\ end > b
    <3>1. Rehighlight(t, start, end) = highlight(t, b + 1, end)
      BY <1>2, <2>1, <2>3 DEF Rehighlight
    <3>2. Differ(start, end, a, b, b + 1, end)
      BY <2>1, <2>3 DEF Differ
    <3> QED BY <2>2, <3>1, <3>2
  <2>4. CASE start = a /\ ~ (end > b)
    <3>1. Rehighlight(t, start, end) = highlight(t, end + 1, b)
      BY <1>2, <2>1, <2>4 DEF Rehighlight
    <3>2. Differ(start, end, a, b, end + 1, b)
      BY <2>1, <2>4 DEF Differ
    <3> QED BY <2>2, <3>1, <3>2
  <2>5. CASE start # a /\ end = b /\ start < a
    <3>1. Rehighlight(t, start, end) = highlight(t, start, a - 1)
      BY <1>2, <2>1, <2>5 DEF Rehighlight
    <3>2. Differ(start, end, a, b, start, a - 1)
      BY <2>1, <2>5 DEF Differ
    <3> QED BY <2>2, <3>1, <3>2
  <2>6. CASE start # a /\ end = b /\ ~ (start < a)
    <3>1. Rehighlight(t, start, end) = highlight(t, a, start - 1)
      BY <1>2, <2>1, <2>6 DEF Rehighlight
    <3>2. Differ(start, end, a, b, a, start - 1)
      BY <2>1, <2>6 DEF Differ
    <3> QED BY <2>2, <3>1, <3>2
  <2>7. CASE start # a /\ end # b
    <3>1. PICK v : v = clear_selection(t)
      OBVIOUS
    <3>2. SelInv(v) /\ v.p = None /\ v.start = -1 /\ Frame(t, v)
      BY <3>1, Cleared
    <3>3. v.cons \in Cons /\ Visible(v, v.cons)
      BY <3>2 DEF Frame, Visible
    <3>4. u = WithRange(highlight(v, start, end), start, end)
      BY <1>2, <2>1, <2>7, <3>1 DEF Rehighlight
    <3>5. \A p \in Int : p \in start .. end <=>
            (p \in start .. end) # (v.start # -1 /\ p \in v.start .. v.end)
      BY <3>2
    <3>6. SelInv(u) /\ Frame(v, u)
      BY <3>2, <3>3, <3>4, <3>5, OneRange
    <3> QED BY <3>2, <3>6 DEF Frame
  <2> QED BY <2>3, <2>4, <2>5, <2>6, <2>7
<1> QED BY <1>1, <1>2

(* The row of a place, and its ends (RowStart, RowEnd).                     *)
LEMMA RowFacts ==
  ASSUME NEW p \in Nat
  PROVE  /\ RowStart(p) \in Nat /\ RowStart(p) <= p
         /\ RowEnd(p) \in Nat /\ RowEnd(p) >= p
<1>1. Cols \in Nat /\ Cols # 0
  BY SelectionAssumption
<1>2. PICK r \in Int : r = p % Cols
  BY <1>1
<1>3. r \in 0 .. Cols - 1 /\ r <= p
  <2>1. r \in 0 .. Cols - 1
    BY <1>1, <1>2
  <2>2. PICK q \in Int : q = p \div Cols
    BY <1>1
  <2>3. p = Cols * q + r
    BY <1>1, <1>2, <2>2
  <2>4. q >= 0
    BY <1>1, <2>2
  <2>5. Cols * q >= 0
    BY <1>1, <2>4
  <2>6. Cols * q \in Int
    BY <1>1
  <2> QED BY <2>1, <2>3, <2>5, <2>6
<1> QED BY <1>1, <1>2, <1>3 DEF RowStart, RowEnd

(* A word around a place starts before and ends after it (set_selection).   *)
LEMMA WordFacts ==
  ASSUME NEW t, NEW p \in Nat
  PROVE  /\ WordStart(t, p) \in Nat /\ WordStart(t, p) <= p
         /\ WordEnd(t, p) \in Nat /\ WordEnd(t, p) >= p
<1>1. RowStart(p) \in Nat /\ RowEnd(p) \in Nat
  BY RowFacts
<1>2. WordStart(t, p) \in Nat /\ WordStart(t, p) <= p
  <2>1. PICK run : run = {q \in RowStart(p) .. p : Alike(t, p, q)}
    OBVIOUS
  <2>2. run \subseteq Nat /\ \A q \in run : q <= p
    BY <1>1, <2>1
  <2>3. run # {} => Min(run) \in run
    BY <2>2, MinInside
  <2>4. PICK q : q = WordStart(t, p)
    OBVIOUS
  <2>5. q = p \/ q \in run
    <3>1. CASE run = {}
      BY <2>1, <2>4, <3>1 DEF WordStart
    <3>2. CASE run # {}
      BY <2>1, <2>3, <2>4, <3>2 DEF WordStart
    <3> QED BY <3>1, <3>2
  <2>6. q \in Nat /\ q <= p
    <3>1. CASE q = p
      BY <3>1
    <3>2. CASE q \in run
      BY <2>2, <3>2
    <3> QED BY <2>5, <3>1, <3>2
  <2> QED BY <2>4, <2>6
<1>3. WordEnd(t, p) \in Nat /\ WordEnd(t, p) >= p
  <2>1. PICK run : run = {q \in p .. RowEnd(p) : Alike(t, p, q)}
    OBVIOUS
  <2>2. run \subseteq 0 .. RowEnd(p) /\ \A q \in run : q \in Nat /\ q >= p
    BY <1>1, <2>1
  <2>3. run # {} => Max(run) \in run
    BY <1>1, <2>2, MaxInside
  <2>4. PICK q : q = WordEnd(t, p)
    OBVIOUS
  <2>5. q = p \/ q \in run
    <3>1. CASE run = {}
      BY <2>1, <2>4, <3>1 DEF WordEnd
    <3>2. CASE run # {}
      BY <2>1, <2>3, <2>4, <3>2 DEF WordEnd
    <3> QED BY <3>1, <3>2
  <2>6. q \in Nat /\ q >= p
    <3>1. CASE q = p
      BY <3>1
    <3>2. CASE q \in run
      BY <2>2, <3>2
    <3> QED BY <2>5, <3>1, <3>2
  <2> QED BY <2>4, <2>6
<1> QED BY <1>2, <1>3

(* The new range is one, whatever the mode (set_selection).                 *)
LEMMA NewRangeFacts ==
  ASSUME NEW t, NEW v, NEW mode \in Modes, NEW ps \in Nat, NEW pe \in Nat, ps <= pe,
         NEW start, start = NewStart(t, mode, ps),
         NEW end, end = Trailing(v, start, NewEnd(t, mode, pe))
  PROVE  start \in Nat /\ end \in Nat /\ start <= end
<1>1. start \in Nat /\ start <= ps
  BY RowFacts, WordFacts DEF Modes, NewStart
<1>2. NewEnd(t, mode, pe) \in Nat /\ NewEnd(t, mode, pe) >= pe
  BY RowFacts, WordFacts DEF Modes, NewEnd
<1>3. PICK e \in Nat : e = NewEnd(t, mode, pe)
  BY <1>2
<1>4. end = e \/ end = RowEnd(e)
  BY <1>3 DEF Trailing
<1>5. RowEnd(e) \in Nat /\ RowEnd(e) >= e
  BY RowFacts
<1> QED BY <1>1, <1>2, <1>3, <1>4, <1>5

(* The selection is the new range, or none (set_selection from the          *)
(* highlighting on).                                                        *)
LEMMA SelectedSound ==
  ASSUME NEW t, SelInv(t), t.p = None, t.cons \in Cons, Visible(t, t.cons),
         NEW start \in Nat, NEW end \in Nat, start <= end, NEW memory,
         NEW u, u = Selected(t, start, end, memory)
  PROVE  SelInv(u)
<1>1. PICK v : v = WithRange(Rehighlight(t, start, end), start, end)
  OBVIOUS
<1>2. SelInv(v)
  BY <1>1, Rehighlighted
<1>3. CASE start = t.start /\ end = t.end
  BY <1>3 DEF Selected
<1>4. CASE ~ (start = t.start /\ end = t.end) /\ ~ memory
  <2>1. u = clear_selection(v)
    BY <1>1, <1>4 DEF Selected, WithRange
  <2> QED BY <1>2, <2>1, Cleared
<1>5. CASE ~ (start = t.start /\ end = t.end) /\ memory
  <2>1. PICK b : b = Copy(v, start, end)
    OBVIOUS
  <2>2. u = [v EXCEPT !.buffer = b]
    BY <1>1, <1>5, <2>1 DEF Selected, WithRange
  <2>3. Shaped(v)
    BY <1>2 DEF SelInv
  <2>4. SameLayers(v, u) /\ DOMAIN u = StateFields /\ u.blanked = v.blanked
    BY <2>2, <2>3 DEF SameLayers, Shaped, StateFields
  <2>5. Shaped(u)
    BY <2>3, <2>4 DEF Shaped, SameLayers
  <2> QED BY <1>2, <2>4, <2>5, LayersKept
<1> QED BY <1>3, <1>4, <1>5

(* set_selection with SELCHAR, SELWORD or SELLINE.                          *)
LEMMA SetSelStep ==
  ASSUME SelInv(sel), NEW d \in DOMAIN sel.fg, NEW mode \in Modes, NEW ps \in Places,
         NEW pe \in Places, ps <= pe, NEW poke, NEW memory, SetSel(d, mode, ps, pe, poke, memory)
  PROVE  SelInv(sel')
<1>1. PICK t : t = Ready(d, poke)
  OBVIOUS
<1>2. SelInv(t) /\ t.cons \in Cons /\ Visible(t, t.cons)
  BY <1>1, IsReady
<1>3. PICK u : u = HidePointer(t)
  OBVIOUS
<1>4. SelInv(u) /\ u.p = None /\ Frame(t, u)
  BY <1>2, <1>3, HiddenPointer
<1>5. u.cons \in Cons /\ Visible(u, u.cons)
  BY <1>2, <1>4 DEF Frame, Visible
<1>6. ps \in Nat /\ pe \in Nat
  <2>1. Places \subseteq 0 .. Rows * Cols - 1 /\ Rows * Cols \in Nat
    BY SelectionAssumption DEF ScreenCells
  <2> QED BY <2>1
<1>7. PICK start : start = NewStart(t, mode, ps)
  OBVIOUS
<1>8. PICK end : end = Trailing(u, start, NewEnd(t, mode, pe))
  OBVIOUS
<1>9. start \in Nat /\ end \in Nat /\ start <= end
  BY <1>6, <1>7, <1>8, NewRangeFacts
<1>10. sel' = Selected(u, start, end, memory)
  BY <1>1, <1>3, <1>7, <1>8 DEF SetSel
<1> QED BY <1>4, <1>5, <1>9, <1>10, SelectedSound

-----------------------------------------------------------------------------
(* The other requests.                                                      *)

(* A character is written where nothing is drawn (do_con_write).            *)
LEMMA CharPut ==
  ASSUME NEW t, SelInv(t), NEW c \in Cons, Undrawn(t, c), NEW ch \in Characters,
         NEW u, u = PutChar(t, c, ch)
  PROVE  SelInv(u) /\ u.fg = t.fg /\ u.con[c].display = t.con[c].display
<1>1. PICK at \in Memory : at = CursorCell(t, c)
  BY CursorInside DEF SelInv
<1>2. PICK y : y = t.con[c]
  OBVIOUS
<1>3. Shaped(t) /\ ConShaped(y)
  BY <1>2 DEF SelInv, Shaped
<1>4. PICK m : m = [y.mem EXCEPT ![at] = Plain(ch)]
  OBVIOUS
<1>5. PICK p : p = NextPlace(y.pos)
  OBVIOUS
<1>6. PICK x : x = [y EXCEPT !.mem = m, !.pos = p]
  OBVIOUS
<1>7. PICK n : n = [t.con EXCEPT ![c] = x]
  OBVIOUS
<1>8. PICK f : f = [t.text EXCEPT ![c] = [t.text[c] EXCEPT ![at] = ch]]
  OBVIOUS
<1>9. u = [t EXCEPT !.con = n, !.text = f, !.writes = @ + 1]
  <2>1. PICK w : w = t.writes + 1
    OBVIOUS
  <2>2. u = [t EXCEPT !.con[c].mem[at] = Plain(ch), !.con[c].pos = p, !.text[c][at] = ch, !.writes = w]
    BY <1>1, <1>2, <1>5, <2>1 DEF PutChar
  <2>3. PICK x1 : x1 = [y EXCEPT !.mem = m]
    OBVIOUS
  <2>4. PICK n1 : n1 = [t.con EXCEPT ![c] = x1]
    OBVIOUS
  <2>5. PICK t1 : t1 = [t EXCEPT !.con = n1]
    OBVIOUS
  <2>6. t1 = [t EXCEPT !.con[c].mem[at] = Plain(ch)]
    BY <1>2, <1>4, <2>3, <2>4, <2>5
  <2>7. t1.con = n1 /\ t1.text = t.text /\ t1.writes = t.writes /\ n1[c] = x1 /\ x1.pos = y.pos
    BY <1>2, <1>3, <2>3, <2>4, <2>5 DEF Shaped, StateFields, ConShaped, ConFields
  <2>8. PICK t2 : t2 = [t1 EXCEPT !.con[c].pos = p]
    OBVIOUS
  <2>9. u = [t2 EXCEPT !.text[c][at] = ch, !.writes = w]
    BY <2>2, <2>6, <2>8
  <2>10. t2 = [t1 EXCEPT !.con = [n1 EXCEPT ![c] = [x1 EXCEPT !.pos = p]]]
    BY <2>7, <2>8
  <2>11. [x1 EXCEPT !.pos = p] = x /\ [n1 EXCEPT ![c] = x] = n
    BY <1>6, <1>7, <2>3, <2>4
  <2>12. t2 = [t EXCEPT !.con = n]
    BY <2>5, <2>10, <2>11
  <2>13. t2.text = t.text
    BY <1>3, <2>12 DEF Shaped, StateFields
  <2> QED BY <1>8, <2>1, <2>9, <2>12, <2>13
<1>10. DOMAIN n = Cons /\ \A k \in Cons : n[k] = IF k = c THEN x ELSE t.con[k]
  BY <1>3, <1>7 DEF Shaped
<1>11. /\ DOMAIN f = Cons /\ \A k \in Cons : k # c => f[k] = t.text[k]
       /\ DOMAIN f[c] = Memory /\ \A i \in Memory : f[c][i] = IF i = at THEN ch ELSE t.text[c][i]
  BY <1>3, <1>8 DEF Shaped
<1>12. /\ DOMAIN x = ConFields /\ x.mem = m /\ x.pos = p /\ x.view = y.view /\ x.back = y.back
       /\ x.display = y.display
  BY <1>3, <1>6 DEF ConShaped, ConFields
<1>13. DOMAIN m = Memory /\ \A i \in Memory : m[i] = IF i = at THEN Plain(ch) ELSE y.mem[i]
  BY <1>3, <1>4 DEF ConShaped
<1>14. p \in ScreenCells
  <2>1. PICK size1 \in Nat : size1 = Rows * Cols /\ size1 # 0
    BY SelectionAssumption
  <2>2. y.pos \in 0 .. size1 - 1
    BY <1>3, <2>1 DEF ConShaped, ScreenCells
  <2>3. p = (y.pos + 1) % size1
    BY <1>5, <2>1 DEF NextPlace
  <2>4. p \in 0 .. size1 - 1
    BY <2>1, <2>2, <2>3
  <2> QED BY <2>1, <2>4 DEF ScreenCells
<1>15. ConShaped(x)
  BY <1>3, <1>12, <1>13, <1>14, PlainIsCell DEF ConShaped
<1>16. /\ u.con = n /\ u.text = f /\ DOMAIN u = StateFields /\ u.fg = t.fg
       /\ u.cons = t.cons /\ u.start = t.start /\ u.end = t.end /\ u.p = t.p
       /\ u.original = t.original /\ u.blanked = t.blanked
  BY <1>3, <1>9 DEF Shaped, StateFields
<1>17. Shaped(u)
  BY <1>3, <1>10, <1>11, <1>15, <1>16 DEF Shaped
<1>18. \A k \in Cons : /\ u.con[k].display = t.con[k].display /\ u.con[k].view = t.con[k].view
                       /\ Visible(u, k) = Visible(t, k)
                       /\ k # c => u.con[k] = t.con[k] /\ u.text[k] = t.text[k]
                                   /\ CursorCell(u, k) = CursorCell(t, k)
  BY <1>2, <1>10, <1>11, <1>12, <1>16 DEF Visible, CursorCell
<1>19. \A k \in Cons, i \in Memory : /\ Inverted(u, k, i) = Inverted(t, k, i)
                                     /\ Pointed(u, k, i) = Pointed(t, k, i)
  BY <1>16, <1>18 DEF Inverted, Pointed, screenpos
<1>20. \A k \in Cons, i \in Memory : Cursored(u, k, i) = Cursored(t, k, i)
  <2> SUFFICES ASSUME NEW k \in Cons, NEW i \in Memory
               PROVE  Cursored(u, k, i) = Cursored(t, k, i)
    OBVIOUS
  <2>1. CASE k = c
    BY <1>16, <1>18, <2>1 DEF Cursored, Undrawn
  <2>2. CASE k # c
    BY <1>16, <1>18, <2>2 DEF Cursored
  <2> QED BY <2>1, <2>2
<1>21. \A i \in Memory : /\ Inverted(t, c, i) = FALSE /\ Pointed(t, c, i) = FALSE
                         /\ Cursored(t, c, i) = FALSE
  BY DEF Undrawn, Clear, Inverted, Pointed, Cursored, SelInv, PointerSound
<1>22. Exact(u)
  <2> SUFFICES ASSUME NEW k \in Cons, NEW i \in Memory
               PROVE  u.con[k].mem[i] = Drawn(u.text[k][i], Inverted(u, k, i),
                        Pointed(u, k, i), Cursored(u, k, i))
    BY DEF Exact
  <2>1. t.con[k].mem[i] = Drawn(t.text[k][i], Inverted(t, k, i), Pointed(t, k, i), Cursored(t, k, i))
    BY DEF SelInv, Exact
  <2>2. CASE k = c /\ i = at
    <3>1. u.con[k].mem[i] = Plain(ch) /\ u.text[k][i] = ch
      BY <1>10, <1>11, <1>12, <1>13, <1>16, <2>2
    <3>2. Inverted(u, k, i) = FALSE /\ Pointed(u, k, i) = FALSE /\ Cursored(u, k, i) = FALSE
      BY <1>19, <1>20, <1>21, <2>2
    <3> QED BY <3>1, <3>2, InverseCell
  <2>3. CASE k = c /\ i # at
    <3>1. u.con[k].mem[i] = t.con[k].mem[i] /\ u.text[k][i] = t.text[k][i]
      BY <1>2, <1>10, <1>11, <1>12, <1>13, <1>16, <2>3
    <3> QED BY <1>19, <1>20, <2>1, <3>1
  <2>4. CASE k # c
    <3>1. u.con[k].mem[i] = t.con[k].mem[i] /\ u.text[k][i] = t.text[k][i]
      BY <1>18, <2>4
    <3> QED BY <1>19, <1>20, <2>1, <3>1
  <2> QED BY <2>2, <2>3, <2>4
<1>23. PointerSound(u)
  <2> SUFFICES ASSUME u.p # None
               PROVE  /\ u.p.con = u.cons /\ u.p.at \in Memory
                      /\ u.p.old = Drawn(u.text[u.cons][u.p.at], Inverted(u, u.cons, u.p.at),
                                         FALSE, Cursored(u, u.cons, u.p.at))
    BY DEF PointerSound
  <2>1. PICK k \in Cons, i \in Memory : k = t.cons /\ i = t.p.at
    BY <1>16 DEF SelInv, PointerSound, DrawnSound
  <2>2. t.p.con = k /\ t.p.old = Drawn(t.text[k][i], Inverted(t, k, i), FALSE, Cursored(t, k, i))
    BY <1>16, <2>1 DEF SelInv, PointerSound
  <2>3. k # c
    BY <1>16, <2>1 DEF Undrawn, Clear
  <2>4. u.text[k] = t.text[k]
    BY <1>18, <2>3
  <2> QED BY <1>16, <1>19, <1>20, <2>1, <2>2, <2>4
<1>24. DisplaysSound(u) /\ RangeSound(u)
  BY <1>16, <1>18 DEF SelInv, DisplaysSound, RangeSound
<1>25. DrawnSound(u)
  BY <1>16, <1>18 DEF SelInv, DrawnSound
<1>26. OriginalSound(u)
  <2> SUFFICES ASSUME NEW e \in DOMAIN t.fg, t.original[e] # None
               PROVE  t.original[e] = Plain(u.text[t.fg[e]][CursorCell(u, t.fg[e])])
    BY <1>16 DEF OriginalSound
  <2>1. PICK k \in Cons : k = t.fg[e] /\ t.con[k].display = e
    BY DEF SelInv, DisplaysSound
  <2>2. k # c
    BY <2>1 DEF Undrawn, Visible
  <2> QED BY <1>18, <2>1, <2>2 DEF SelInv, OriginalSound
<1> QED BY <1>16, <1>17, <1>18, <1>22, <1>23, <1>24, <1>25, <1>26 DEF SelInv

WithForeground(t, d, c) == [t EXCEPT !.fg[d] = c]

(* Another console comes to the foreground of a display on which nothing is *)
(* drawn (switch_screen).                                                   *)
LEMMA ForegroundMoved ==
  ASSUME NEW t, SelInv(t), NEW c \in Cons, NEW d, d = t.con[c].display, NEW old, old = t.fg[d],
         c # old, Clear(t, old), t.original[d] = None, NEW u, u = WithForeground(t, d, c)
  PROVE  SelInv(u) /\ u.con = t.con /\ u.original = t.original /\ Clear(u, old) /\ Clear(u, c)
<1>1. Shaped(t) /\ d \in DOMAIN t.fg
  BY DEF SelInv, DisplaysSound
<1>2. PICK f : f = [t.fg EXCEPT ![d] = c]
  OBVIOUS
<1>3. DOMAIN f = DOMAIN t.fg /\ \A e \in DOMAIN t.fg : f[e] = IF e = d THEN c ELSE t.fg[e]
  BY <1>1, <1>2
<1>4. /\ u.con = t.con /\ DOMAIN u = StateFields /\ u.fg = f /\ u.text = t.text
      /\ u.cons = t.cons /\ u.start = t.start /\ u.end = t.end /\ u.p = t.p
      /\ u.original = t.original /\ u.blanked = t.blanked
  BY <1>1, <1>2 DEF Shaped, StateFields, WithForeground
<1>5. Shaped(u)
  BY <1>1, <1>3, <1>4 DEF Shaped
<1>6. \A k \in Cons, i \in Memory : Inverted(u, k, i) = Inverted(t, k, i)
                                    /\ Pointed(u, k, i) = Pointed(t, k, i)
  BY <1>4 DEF Inverted, Pointed, screenpos
<1>7. \A k \in Cons : /\ CursorCell(u, k) = CursorCell(t, k)
                      /\ t.con[k].display \in DOMAIN t.fg
                      /\ t.con[k].display # d => Visible(u, k) = Visible(t, k)
  BY <1>3, <1>4 DEF SelInv, DisplaysSound, CursorCell, Visible
<1>8. \A k \in Cons, i \in Memory : Cursored(u, k, i) = Cursored(t, k, i)
  <2> SUFFICES ASSUME NEW k \in Cons, NEW i \in Memory
               PROVE  Cursored(u, k, i) = Cursored(t, k, i)
    OBVIOUS
  <2>1. CASE t.con[k].display = d
    BY <1>4, <2>1 DEF Cursored
  <2>2. CASE t.con[k].display # d
    BY <1>4, <1>7, <2>2 DEF Cursored
  <2> QED BY <2>1, <2>2
<1>9. t.start # -1 \/ t.p # None => t.cons \in Cons /\ t.con[t.cons].display # d /\ t.cons # c
  BY DEF SelInv, DrawnSound, Visible, Clear
<1>10. Exact(u)
  <2> SUFFICES ASSUME NEW k \in Cons, NEW i \in Memory
               PROVE  u.con[k].mem[i] = Drawn(u.text[k][i], Inverted(u, k, i),
                        Pointed(u, k, i), Cursored(u, k, i))
    BY DEF Exact
  <2>1. t.con[k].mem[i] = Drawn(t.text[k][i], Inverted(t, k, i), Pointed(t, k, i), Cursored(t, k, i))
    BY DEF SelInv, Exact
  <2> QED BY <1>4, <1>6, <1>8, <2>1
<1>11. PointerSound(u)
  <2> SUFFICES ASSUME u.p # None
               PROVE  /\ u.p.con = u.cons /\ u.p.at \in Memory
                      /\ u.p.old = Drawn(u.text[u.cons][u.p.at], Inverted(u, u.cons, u.p.at),
                                         FALSE, Cursored(u, u.cons, u.p.at))
    BY DEF PointerSound
  <2>1. PICK k \in Cons, i \in Memory : k = t.cons /\ i = t.p.at
    BY <1>4 DEF SelInv, PointerSound, DrawnSound
  <2>2. t.p.con = k /\ t.p.old = Drawn(t.text[k][i], Inverted(t, k, i), FALSE, Cursored(t, k, i))
    BY <1>4, <2>1 DEF SelInv, PointerSound
  <2>3. u.p.old = Drawn(u.text[k][i], Inverted(u, k, i), FALSE, Cursored(u, k, i))
    BY <1>4, <1>6, <1>8, <2>2
  <2>4. u.cons = k /\ u.p.at = i /\ u.p.con = k
    BY <1>4, <2>1, <2>2
  <2> QED BY <2>3, <2>4
<1>12. DisplaysSound(u) /\ RangeSound(u)
  BY <1>3, <1>4 DEF SelInv, DisplaysSound, RangeSound
<1>13. DrawnSound(u)
  BY <1>4, <1>7, <1>9 DEF SelInv, DrawnSound
<1>14. OriginalSound(u)
  <2> SUFFICES ASSUME NEW e \in DOMAIN t.fg, t.original[e] # None
               PROVE  t.original[e] = Plain(u.text[u.fg[e]][CursorCell(u, u.fg[e])])
    BY <1>3, <1>4 DEF OriginalSound
  <2>1. u.fg[e] = t.fg[e] /\ t.fg[e] \in Cons
    BY <1>3, <1>4 DEF SelInv, DisplaysSound
  <2> QED BY <1>4, <1>7, <2>1 DEF SelInv, OriginalSound
<1>15. Clear(u, old) /\ Clear(u, c)
  BY <1>4, <1>9 DEF Clear
<1> QED BY <1>4, <1>5, <1>10, <1>11, <1>12, <1>13, <1>14, <1>15 DEF SelInv

(* A console's screen starts again at the end of its memory (set_origin).   *)
LEMMA OriginSet ==
  ASSUME NEW t, SelInv(t), NEW c \in Cons, Clear(t, c), NEW u, u = set_origin(t, c)
  PROVE  SelInv(u) /\ Frame(t, u) /\ \A k : Clear(t, k) => Clear(u, k)
<1>1. Back \in 0 .. Back
  BY SelectionAssumption
<1>2. u = WithOrigin(t, c, Back)
  BY DEF set_origin, WithOrigin
<1>3. SelInv(u) /\ Frame(t, u) /\ SameRange(t, u) /\ u.p = t.p
  BY <1>1, <1>2, ViewMoved
<1> QED BY <1>3 DEF Frame, SameRange, Clear

(* switch_screen.                                                           *)
LEMMA SwitchStep ==
  ASSUME SelInv(sel), NEW new \in Cons, switch_screen(new)
  PROVE  SelInv(sel')
<1>1. PICK d : d = sel.con[new].display
  OBVIOUS
<1>2. PICK old \in Cons : old = sel.fg[d] /\ Visible(sel, old) /\ sel.con[old].display = d
  BY <1>1 DEF SelInv, DisplaysSound, Visible
<1>3. PICK v : v = hide_cursor(sel, old)
  OBVIOUS
<1>4. SelInv(v) /\ Frame(sel, v) /\ Clear(v, old) /\ v.original[v.con[old].display] = None
  BY <1>2, <1>3, CursorHidden
<1>5. PICK t : t = WithForeground(v, d, new)
  OBVIOUS
<1>6. /\ new # old /\ sel' = set_cursor(set_origin(set_origin(t, old), new), new)
  BY <1>1, <1>2, <1>3, <1>5 DEF switch_screen, WithForeground
<1>7. v.con[new].display = d /\ v.fg[d] = old /\ v.original[d] = None
  BY <1>1, <1>2, <1>4 DEF Frame
<1>8. SelInv(t) /\ Clear(t, old) /\ Clear(t, new)
  BY <1>4, <1>5, <1>6, <1>7, ForegroundMoved
<1>9. PICK a : a = set_origin(t, old)
  OBVIOUS
<1>10. SelInv(a) /\ Clear(a, new)
  BY <1>8, <1>9, OriginSet
<1>11. PICK b : b = set_origin(a, new)
  OBVIOUS
<1>12. SelInv(b)
  BY <1>10, <1>11, OriginSet
<1> QED BY <1>6, <1>9, <1>11, <1>12, CursorSet

(* The characters that are written are ones of a memory (inwordLut, SPACE). *)
LEMMA WrittenCharacters == InWord \cup {SPACE} \subseteq Characters
BY DEF Characters

(* The mouse pointer is shown (TIOCL_SELPOINTER).                           *)
LEMMA PointerStep ==
  ASSUME SelInv(sel), NEW d \in DOMAIN sel.fg, NEW pe \in Places, NEW poke, SELPOINTER(d, pe, poke)
  PROVE  SelInv(sel')
<1>1. PICK t : t = Ready(d, poke)
  OBVIOUS
<1>2. SelInv(t) /\ t.cons \in Cons /\ Visible(t, t.cons)
  BY <1>1, IsReady
<1>3. pe \in ScreenCells /\ sel' = ShowPointer(t, pe)
  BY <1>1, SelectionAssumption DEF SELPOINTER
<1> QED BY <1>2, <1>3, ShownPointer

(* The selection is cleared (TIOCL_SELCLEAR).                               *)
LEMMA ClearStep ==
  ASSUME SelInv(sel), NEW d \in DOMAIN sel.fg, NEW poke, SELCLEAR(d, poke)
  PROVE  SelInv(sel')
<1>1. PICK t : t = IF poke THEN unblank_vt(sel, d) ELSE sel
  OBVIOUS
<1>2. SelInv(t)
  <2>1. CASE t = unblank_vt(sel, d)
    BY <2>1, Unblanked
  <2>2. CASE t = sel
    BY <2>2
  <2> QED BY <1>1, <2>1, <2>2
<1>3. sel' = clear_selection(t)
  BY <1>1 DEF SELCLEAR
<1> QED BY <1>2, <1>3, Cleared

(* Output (do_con_write).                                                   *)
LEMMA WriteStep ==
  ASSUME SelInv(sel), NEW c \in Cons, NEW ch \in InWord \cup {SPACE}, ConWrite(c, ch)
  PROVE  SelInv(sel')
<1>1. PICK t : t = Undraw(sel, c)
  OBVIOUS
<1>2. SelInv(t) /\ Undrawn(t, c)
  BY <1>1, Undraws
<1>3. sel' = PutChar(t, c, ch)
  BY <1>1 DEF ConWrite
<1> QED BY <1>2, <1>3, WrittenCharacters, CharPut

(* A message of the kernel (vt_console_print).                              *)
LEMMA PrintStep ==
  ASSUME SelInv(sel), NEW c \in Cons, NEW ch \in InWord \cup {SPACE}, vt_console_print(c, ch)
  PROVE  SelInv(sel')
<1>1. PICK t : t = Undraw(sel, c)
  OBVIOUS
<1>2. SelInv(t) /\ Frame(sel, t) /\ Undrawn(t, c)
  BY <1>1, Undraws
<1>3. PICK v : v = PutChar(t, c, ch)
  OBVIOUS
<1>4. SelInv(v) /\ v.fg = t.fg
  BY <1>2, <1>3, WrittenCharacters, CharPut
<1>5. PICK w : w = set_cursor(v, c)
  OBVIOUS
<1>6. SelInv(w) /\ Frame(v, w)
  BY <1>4, <1>5, CursorSet
<1>7. PICK d : d = sel.con[c].display
  OBVIOUS
<1>8. d \in DOMAIN w.fg
  BY <1>2, <1>4, <1>6, <1>7 DEF Frame, SelInv, DisplaysSound
<1>9. sel' = unblank_vt(w, d)
  BY <1>1, <1>3, <1>5, <1>7 DEF vt_console_print
<1> QED BY <1>6, <1>8, <1>9, Unblanked

(* Output that changes the cursor (vc_cursor_type).                         *)
LEMMA CursorTypeStep ==
  ASSUME SelInv(sel), NEW c \in Cons, NEW type, WriteCursor(c, type)
  PROVE  SelInv(sel')
<1>1. PICK t : t = Undraw(sel, c)
  OBVIOUS
<1>2. SelInv(t)
  BY <1>1, Undraws
<1>3. PICK y : y = t.con[c]
  OBVIOUS
<1>4. ConShaped(y)
  BY <1>2, <1>3 DEF SelInv, Shaped
<1>5. PICK x : x = [y EXCEPT !.type = type]
  OBVIOUS
<1>6. /\ DOMAIN x = ConFields /\ x.view = y.view /\ x.display = y.display /\ x.pos = y.pos
      /\ x.mem = y.mem /\ x.back = y.back
  BY <1>4, <1>5 DEF ConShaped, ConFields
<1>7. ConShaped(x)
  BY <1>4, <1>6 DEF ConShaped
<1>8. sel' = WithConsole(t, c, x)
  BY <1>1, <1>3, <1>5 DEF WriteCursor, WithConsole
<1> QED BY <1>2, <1>3, <1>6, <1>7, <1>8, NewConsole

(* The pointer's mask changes (complement_pos).                             *)
LEMMA MaskStep ==
  ASSUME SelInv(sel), NEW c \in Cons, ComplementMask(c)
  PROVE  SelInv(sel')
<1>1. PICK t : t = Undraw(sel, c)
  OBVIOUS
<1>2. SelInv(t)
  BY <1>1, Undraws
<1>3. sel' = clear_selection(t)
  BY <1>1 DEF ComplementMask
<1> QED BY <1>2, <1>3, Cleared

(* The past is looked at (vgacon_scrolldelta).                              *)
LEMMA ScrollbackStep ==
  ASSUME SelInv(sel), NEW d \in DOMAIN sel.fg, NEW row \in 0 .. Back, Scrollback(d, row)
  PROVE  SelInv(sel')
<1>1. PICK t : t = clear_selection(sel)
  OBVIOUS
<1>2. SelInv(t) /\ t.p = None /\ t.start = -1 /\ Frame(sel, t)
  BY <1>1, Cleared
<1>3. PICK c \in Cons : c = t.fg[d]
  BY <1>2 DEF Frame, SelInv, DisplaysSound
<1>4. Clear(t, c)
  BY <1>2 DEF Clear
<1>5. sel' = WithView(t, c, row)
  BY <1>1, <1>3 DEF Scrollback, WithView
<1> QED BY <1>2, <1>4, <1>5, ViewMoved

(* The process in control is asked, or the screen is blanked: the cursor is *)
(* hidden first (vt_callback, do_blank_screen).                             *)
LEMMA HideSteps ==
  ASSUME SelInv(sel), NEW d \in DOMAIN sel.fg, AskRelease(d) \/ do_blank_screen(d)
  PROVE  SelInv(sel')
<1>1. PICK c \in Cons : c = sel.fg[d] /\ Visible(sel, c)
  BY DEF SelInv, DisplaysSound, Visible
<1>2. PICK t : t = hide_cursor(sel, c)
  OBVIOUS
<1>3. SelInv(t)
  BY <1>1, <1>2, CursorHidden
<1>4. CASE AskRelease(d)
  BY <1>1, <1>2, <1>3, <1>4 DEF AskRelease
<1>5. CASE do_blank_screen(d)
  <2>1. sel' = WithBlanked(t, d, TRUE)
    BY <1>1, <1>2, <1>5 DEF do_blank_screen, WithBlanked
  <2> QED BY <1>3, <2>1, NewBlanked
<1> QED BY <1>4, <1>5

-----------------------------------------------------------------------------
(* The theorems.                                                            *)

(* Displays show their first console (Foreground).                          *)
LEMMA ForegroundFacts ==
  ASSUME NEW seat \in Seatings, NEW fg, fg = Foreground(seat)
  PROVE  /\ DOMAIN fg = {seat[c] : c \in Cons}
         /\ \A d \in DOMAIN fg : fg[d] \in Cons /\ seat[fg[d]] = d
<1>1. DOMAIN fg = {seat[c] : c \in Cons} /\ \A d \in DOMAIN fg : fg[d] = Min({c \in Cons : seat[c] = d})
  BY DEF Foreground
<1>2. ASSUME NEW d \in DOMAIN fg
      PROVE  fg[d] \in Cons /\ seat[fg[d]] = d
  <2>1. PICK S : S = {c \in Cons : seat[c] = d}
    OBVIOUS
  <2>2. S \subseteq Nat
    BY <2>1, SelectionAssumption
  <2>3. PICK c \in Cons : d = seat[c]
    BY <1>1
  <2>4. S # {}
    BY <2>1, <2>3
  <2>5. Min(S) \in S
    BY <2>2, <2>4, MinInside
  <2>6. fg[d] = Min(S)
    BY <1>1, <2>1
  <2> QED BY <2>1, <2>5, <2>6
<1> QED BY <1>1, <1>2

(* The consoles at first hold text and nothing over it.                     *)
LEMMA SelInitSound == SelInit => SelInv(sel)
<1> SUFFICES ASSUME SelInit PROVE SelInv(sel)
  OBVIOUS
<1>1. PICK seat \in Seatings, m \in Texts : sel = Unselected(seat, Foreground(seat), m)
  BY DEF SelInit
<1>2. PICK fg : fg = Foreground(seat)
  OBVIOUS
<1>3. /\ DOMAIN fg = {seat[c] : c \in Cons}
      /\ \A d \in DOMAIN fg : fg[d] \in Cons /\ seat[fg[d]] = d
  BY <1>2, ForegroundFacts
<1>4. PICK text : text = [i \in Memory |-> m[i + 1]]
  OBVIOUS
<1>5. DOMAIN text = Memory /\ \A i \in Memory : text[i] = m[i + 1] /\ text[i] \in Characters
  BY <1>4 DEF Characters
<1>6. PICK mem : mem = [i \in Memory |-> Plain(m[i + 1])]
  OBVIOUS
<1>7. DOMAIN mem = Memory /\ \A i \in Memory : mem[i] = Plain(text[i]) /\ mem[i] \in MemoryCell
  BY <1>5, <1>6, PlainIsCell
<1>8. /\ DOMAIN sel = StateFields /\ sel.fg = fg /\ sel.cons = None /\ sel.start = -1
      /\ sel.p = None /\ sel.blanked = [d \in DOMAIN fg |-> FALSE]
      /\ sel.original = [d \in DOMAIN fg |-> None] /\ sel.text = [c \in Cons |-> text]
      /\ sel.con = [c \in Cons |->
           [display |-> seat[c], mem |-> mem, pos |-> 0, view |-> Back,
            back |-> IF c = fg[seat[c]] THEN Back ELSE 0, type |-> {"hard"}]]
  BY <1>1, <1>2, <1>4, <1>6 DEF Unselected, StateFields
<1>9. \A c \in Cons : /\ DOMAIN sel.con[c] = ConFields /\ sel.con[c].display = seat[c]
                      /\ sel.con[c].mem = mem /\ sel.con[c].pos = 0 /\ sel.con[c].view = Back
                      /\ sel.con[c].back \in {0, Back} /\ sel.text[c] = text
  BY <1>8 DEF ConFields
<1>10. 0 \in ScreenCells /\ Back \in 0 .. Back /\ 0 \in 0 .. Back
  <2>1. Rows * Cols \in Nat /\ Rows * Cols # 0
    BY SelectionAssumption
  <2> QED BY <2>1, SelectionAssumption DEF ScreenCells
<1>11. \A c \in Cons : ConShaped(sel.con[c])
  BY <1>7, <1>9, <1>10 DEF ConShaped
<1>12. Shaped(sel)
  BY <1>5, <1>8, <1>9, <1>11 DEF Shaped
<1>13. DisplaysSound(sel)
  <2>1. \A c \in Cons : sel.con[c].display = seat[c] /\ seat[c] \in DOMAIN fg
    BY <1>3, <1>9
  <2>2. \A d \in DOMAIN fg : fg[d] \in Cons /\ sel.con[fg[d]].display = d
    BY <1>3, <2>1
  <2>3. sel.fg = fg
    BY <1>8
  <2> QED BY <2>1, <2>2, <2>3 DEF DisplaysSound
<1>14. \A d \in DOMAIN sel.fg : sel.original[d] = None
  BY <1>8
<1>15. \A c \in Cons, i \in Memory : /\ Inverted(sel, c, i) = FALSE /\ Pointed(sel, c, i) = FALSE
                                     /\ Cursored(sel, c, i) = FALSE
  BY <1>8, <1>13, <1>14 DEF DisplaysSound, Inverted, Pointed, Cursored
<1>16. Exact(sel)
  BY <1>7, <1>9, <1>15, InverseCell DEF Exact
<1>17. PointerSound(sel) /\ RangeSound(sel) /\ DrawnSound(sel)
  BY <1>8 DEF PointerSound, RangeSound, DrawnSound
<1>18. OriginalSound(sel)
  BY <1>14 DEF OriginalSound
<1> QED BY <1>12, <1>13, <1>16, <1>17, <1>18 DEF SelInv

(* Every request keeps the invariant.                                       *)
LEMMA SelNextSound == SelInv(sel) /\ [SelNext]_sel => SelInv(sel')
<1> SUFFICES ASSUME SelInv(sel), [SelNext]_sel PROVE SelInv(sel')
  OBVIOUS
<1>1. CASE UNCHANGED sel
  BY <1>1
<1>2. ASSUME NEW d \in DOMAIN sel.fg, NEW poke, NEW ps \in Places, NEW pe \in Places,
             NEW mode \in Modes, NEW memory, ps <= pe, SetSel(d, mode, ps, pe, poke, memory)
      PROVE  SelInv(sel')
  BY <1>2, SetSelStep
<1>3. ASSUME NEW d \in DOMAIN sel.fg, NEW poke, NEW pe \in Places, SELPOINTER(d, pe, poke)
      PROVE  SelInv(sel')
  BY <1>3, PointerStep
<1>4. ASSUME NEW d \in DOMAIN sel.fg, NEW poke, SELCLEAR(d, poke)
      PROVE  SelInv(sel')
  BY <1>4, ClearStep
<1>5. ASSUME NEW c \in Cons, NEW ch \in InWord \cup {SPACE}, ConWrite(c, ch)
      PROVE  SelInv(sel')
  BY <1>5, WriteStep
<1>6. ASSUME NEW c \in Cons, NEW ch \in InWord \cup {SPACE}, vt_console_print(c, ch)
      PROVE  SelInv(sel')
  BY <1>6, PrintStep
<1>7. ASSUME NEW c \in Cons, NEW type \in CursorTypes, WriteCursor(c, type)
      PROVE  SelInv(sel')
  BY <1>7, CursorTypeStep
<1>8. ASSUME NEW c \in Cons, vt_flush_chars(c)
      PROVE  SelInv(sel')
  BY <1>8, CursorSet DEF vt_flush_chars
<1>9. ASSUME NEW c \in Cons, ComplementMask(c)
      PROVE  SelInv(sel')
  BY <1>9, MaskStep
<1>10. ASSUME NEW c \in Cons, switch_screen(c)
       PROVE  SelInv(sel')
  BY <1>10, SwitchStep
<1>11. ASSUME NEW d \in DOMAIN sel.fg, AskRelease(d) \/ do_blank_screen(d)
       PROVE  SelInv(sel')
  BY <1>11, HideSteps
<1>12. ASSUME NEW d \in DOMAIN sel.fg, NEW row \in 0 .. Back, Scrollback(d, row)
       PROVE  SelInv(sel')
  BY <1>12, ScrollbackStep
<1> QED
  BY <1>1, <1>2, <1>3, <1>4, <1>5, <1>6, <1>7, <1>8, <1>9, <1>10, <1>11, <1>12 DEF SelNext

(* Exactly the due layers are over the text, the pointer and the cursor     *)
(* save what is under them, and a selection or a pointer is over a console  *)
(* in the foreground only.                                                  *)
THEOREM SelectionSound == SelSpec => []SelInvOfState
<1>1. SelInit => SelInvOfState
  BY SelInitSound DEF SelInvOfState
<1>2. SelInvOfState /\ [SelNext]_sel => SelInvOfState'
  BY SelNextSound DEF SelInvOfState
<1> QED BY <1>1, <1>2, PTL DEF SelSpec

(* Whatever is drawn over the text and undone in whatever order, the memory *)
(* of every console is the text its programs wrote with exactly the layers  *)
(* that are due (hide_cursor, set_cursor, clear_selection, complement_pos). *)
THEOREM LayersExactHolds == SelSpec => []LayersExact
<1>1. SelInvOfState => LayersExact
  BY DEF SelInvOfState, SelInv, Exact, LayersExact, Drawn, Inverted, Pointed, Cursored
<1> QED BY <1>1, SelectionSound, PTL
=============================================================================
