------------------------------- MODULE Attach -------------------------------
(***************************************************************************)
(* inputattach (utils/inputattach.c), which binds a serial line to the     *)
(* input layer: it sets the line, talks to the device until the device has *)
(* shown what it is, sets the line discipline and the type of the port and *)
(* waits until the port goes away.                                         *)
(*                                                                         *)
(* The device may answer anything, late or never: an event is what one     *)
(* readchar returns (a class of bytes, or TIMEOUT), what one line of a     *)
(* SpaceBall is, or whether a write (or an ioctl on the modem lines) was   *)
(* taken: SENT, SHORT (it failed, or took less than the program asks for), *)
(* or PART where the program does not count what was taken.  Bytes are     *)
(* classes: what the program tells apart.  A SpaceBall's lines fit the     *)
(* buffer of 64 bytes that the program stores them in without a bound.     *)
(***************************************************************************)
EXTENDS Integers, Sequences

CONSTANTS
  Packet,        \* the bytes of a packet of a Twiddler or Zhen Hua (5)
  Lines,         \* the lines spaceball_waitcmd looks at (8)
  Tries,         \* the packets t213_init sends (10)
  Options,       \* the options tried: always, noinit, and baud or -1
  MaxNoise       \* bound: events that bring the program no step further (lines: Lines)

VARIABLES
  stage,         \* where main is
  mode,          \* the mode of the command line
  opt,           \* the other options
  s,             \* the line, and the locals of the init function
  got,           \* history: every event of the init function but SENT
  noise,         \* history: the events that brought nothing
  errno,         \* what the loop at the end of main looks at
  disc           \* the line discipline this process has set

attachVars == <<stage, mode, opt, s, got, noise, errno, disc>>

(* The modes: all modes without an init function are one.                  *)
input_types ==
  [sunkbd    |-> [speed |-> 1200,  id |-> 0, flush |-> TRUE],
   iforce    |-> [speed |-> 38400, id |-> 0, flush |-> FALSE],
   spaceball |-> [speed |-> 9600,  id |-> 0, flush |-> FALSE],
   magellan  |-> [speed |-> 9600,  id |-> 0, flush |-> TRUE],
   warrior   |-> [speed |-> 1200,  id |-> 0, flush |-> TRUE],
   stinger   |-> [speed |-> 1200,  id |-> 0, flush |-> TRUE],
   mmwheel   |-> [speed |-> 1200,  id |-> 0, flush |-> TRUE],
   newtonkbd |-> [speed |-> 9600,  id |-> 0, flush |-> TRUE],
   twiddler  |-> [speed |-> 2400,  id |-> 0, flush |-> FALSE],
   tsc       |-> [speed |-> 9600,  id |-> 0, flush |-> FALSE],
   t213      |-> [speed |-> 9600,  id |-> 0, flush |-> FALSE],
   pm6k      |-> [speed |-> 19200, id |-> 1, flush |-> FALSE],
   fujitsu   |-> [speed |-> 9600,  id |-> 0, flush |-> TRUE],
   zhenhua   |-> [speed |-> 19200, id |-> 0, flush |-> FALSE],
   easypen   |-> [speed |-> 9600,  id |-> 0, flush |-> FALSE],
   dump      |-> [speed |-> 2400,  id |-> 0, flush |-> FALSE],
   wacom_iv  |-> [speed |-> 9600,  id |-> 0, flush |-> FALSE]]
Modes == DOMAIN input_types
NoInit == {"sunkbd", "iforce"}
Bauds == {-1, 2400, 4800, 9600, 19200, 38400}
RETRY_ERROR == {"EAGAIN", "EINTR"}

setline(t, speed) == [t EXCEPT !.speed = speed]

(***************************************************************************)
(* The init functions: n is the step, w that the step is a write, c the    *)
(* bytes kept, k a counter.                                                *)
(***************************************************************************)
Ok(t)     == [t EXCEPT !.res = "ok"]
Fail(t)   == [t EXCEPT !.res = "fail"]
Goto(t, n, w) == [t EXCEPT !.n = n, !.w = w, !.k = 0]
To(t, w)  == Goto(t, t.n + 1, w)

(* A reply that must come byte by byte, the last one in step last.         *)
Reply(t, e, last) ==
  IF e # "RIGHT" THEN Fail(t) ELSE IF t.n = last THEN Ok(t) ELSE To(t, FALSE)

(* Every byte of the command is echoed.                                    *)
logitech_command(t, e, len) ==
  IF t.w THEN To(t, FALSE)
  ELSE IF e = "RIGHT" /\ t.n < 2 * len THEN To(t, TRUE) ELSE Reply(t, e, 2 * len)

Switched(t, speed) == IF t.res = "ok" THEN setline(t, speed) ELSE t
warrior_init(t, e) == Switched(logitech_command(t, e, 2), 4800)
mzp_init(t, e)     == Switched(logitech_command(t, e, 4), 9600)
magellan_init(t)   == Ok(t)
stinger_init(t, e) == IF t.w THEN To(t, FALSE) ELSE Reply(t, e, 17)
newton_init(t, e)  == Reply(t, e, 35)

(* A SpaceBall talks in lines, a class for each beginning the program      *)
(* knows; the classes of a letter are told apart by the rest.              *)
First ==
  [alive |-> "@", banner |-> "@", Hm2003B |-> "H", Hm2003C |-> "H", Hm3003C |-> "H",
   Hother |-> "H", HvFirmware |-> "H", FLX |-> "quote", L |-> "quote", noL |-> "quote",
   P |-> "P", F |-> "F", M |-> "M", Y |-> "Y", other |-> "other"]
SpaceballId == [Hm2003B |-> 3, Hm2003C |-> 4, Hm3003C |-> 7, L |-> 9, noL |-> 8, FLX |-> 8]
Identified(t, e) == IF e \in DOMAIN SpaceballId THEN [t EXCEPT !.id = SpaceballId[e]] ELSE t

(* A line that begins with c leads to then, after some others.             *)
spaceball_waitcmd(t, c, e, then) ==
  IF First[e] = c THEN then
  ELSE IF t.k + 1 = Lines THEN Fail(t) ELSE [t EXCEPT !.k = @ + 1]

(* The same after the command: one more step, which writes it.             *)
spaceball_cmd(t, c, e, then) ==
  IF t.w THEN [t EXCEPT !.w = FALSE] ELSE spaceball_waitcmd(t, c, e, then)

spaceball_init(t, e) ==
  IF e = "TIMEOUT" THEN Fail(t)
  ELSE CASE t.n = 1  -> IF e = "XON" THEN To(t, FALSE) ELSE t
         [] t.n = 2  -> To(t, FALSE)
         [] t.n = 3  -> spaceball_waitcmd(t, "@", e, IF e = "alive" THEN To(t, FALSE) ELSE Fail(t))
         [] t.n = 4  -> spaceball_waitcmd(t, "@", e, To(t, TRUE))
         [] t.n = 5  -> spaceball_cmd(t, "H", e,
                          Goto(Identified(t, e), IF e = "HvFirmware" THEN 9 ELSE 6, TRUE))
         [] t.n = 6  -> spaceball_cmd(t, "P", e, To(t, TRUE))
         [] t.n = 7  -> spaceball_cmd(t, "F", e, To(t, TRUE))
         [] t.n = 8  -> spaceball_cmd(t, "M", e, Ok(t))
         [] t.n = 9  -> spaceball_cmd(t, "quote", e, IF e = "FLX" THEN To(t, FALSE) ELSE Fail(t))
         [] t.n = 10 -> spaceball_waitcmd(t, "quote", e, To(Identified(t, e), FALSE))
         [] t.n = 11 -> spaceball_waitcmd(t, "quote", e, To(t, TRUE))
         [] t.n = 12 -> spaceball_cmd(t, "Y", e, To(t, TRUE))
         [] t.n = 13 -> spaceball_cmd(t, "M", e, Ok(t))

(* Two packets are read behind the first header, which is among the first  *)
(* bytes of the stream; then all of them are looked at.                    *)
Packets(t, e, header, valid) ==
  IF e = "TIMEOUT" THEN Fail(t)
  ELSE IF t.c = <<>> THEN
         IF e = header THEN [t EXCEPT !.c = <<e>>]
         ELSE IF t.k + 1 = Packet THEN Fail(t) ELSE [t EXCEPT !.k = @ + 1]
  ELSE LET u == [t EXCEPT !.c = Append(@, e)]
       IN  IF Len(u.c) < 2 * Packet THEN u ELSE IF valid THEN Ok(u) ELSE Fail(u)

(* The checks of the bytes c[1] to c[9]: HEADER has its highest bit clear, *)
(* LAST the high nibble 8, BODY another one.                               *)
InvalidByte(c, i) ==
  \/ i % Packet = 0 /\ c[i + 1] # "HEADER"
  \/ i % Packet = Packet - 1 /\ c[i + 1] # "LAST"
  \/ i % Packet # 0 /\ c[i + 1] = "HEADER"
TwiddlerBytes(c) == \A i \in 1..(2 * Packet - 1) : ~InvalidByte(c, i)

(* DTR is turned off with two ioctls first.                                *)
twiddler_init(t, e) ==
  IF t.w THEN To(t, t.n = 1) ELSE Packets(t, e, "HEADER", TwiddlerBytes(Append(t.c, e)))

ZhenhuaBytes(c) == c[Packet + 1] = "SYNC"
zhenhua_init(t, e) == Packets(t, e, "SYNC", ZhenhuaBytes(Append(t.c, e)))

pm6k_init(t, e) ==
  IF t.w THEN To(t, FALSE)
  ELSE IF e = "TIMEOUT" \/ t.n = 7 THEN Ok(t) ELSE To(t, FALSE)

fujitsu_init(t, e) ==
  CASE t.n \in {1, 2} -> To(t, t.n = 1)
    [] t.n = 3 -> IF e = "ACK" THEN To(t, FALSE) ELSE Fail(t)
    [] t.n = 4 -> IF e = "ZERO" THEN Ok(t) ELSE Fail(t)

(* Kept is whether an EEPROM is used: bit 7 of the first byte is clear.    *)
tsc40_init(t, e) ==
  CASE e = "TIMEOUT" -> Fail(t)
    [] t.n \in {1, 2} -> To(t, t.n = 1)
    [] t.n = 3 -> To([t EXCEPT !.c = <<e # "HIGH">>], FALSE)
    [] t.n = 4 -> To(t, TRUE)
    [] t.n = 5 -> To(t, FALSE)
    [] t.n = 6 -> IF e = "NACK" /\ t.c = <<TRUE>> THEN To(t, FALSE) ELSE Goto(t, 8, TRUE)
    [] t.n = 7 -> IF e = "FAILURE" THEN Fail(t) ELSE To(t, TRUE)
    [] t.n = 8 -> Ok(t)

\* Faulty variant: a line feed after the second byte of the packet starts over,
\* instead of being the first byte of the next one.
t213_initForgets(t, e) ==
  CASE t.w -> [t EXCEPT !.w = FALSE]
    [] e = "TIMEOUT" -> IF t.k + 1 = Tries THEN Fail(t) ELSE [t EXCEPT !.k = @ + 1, !.w = TRUE]
    [] e = "A" /\ t.n = 3 -> Ok(t)
    [] e = "1" /\ t.n = 2 -> [t EXCEPT !.n = 3]
    [] e = "LF" /\ t.n < 3 -> [t EXCEPT !.n = 2]
    [] OTHER -> [t EXCEPT !.n = 1]

(* The packet is sent again when nothing comes; the part of it that was    *)
(* recognised (n: one more than state) is kept meanwhile.                  *)
t213_init(t, e) ==
  CASE t.w -> [t EXCEPT !.w = FALSE]
    [] e = "TIMEOUT" -> IF t.k + 1 = Tries THEN Fail(t) ELSE [t EXCEPT !.k = @ + 1, !.w = TRUE]
    [] e = "A" /\ t.n = 3 -> Ok(t)
    [] e = "1" /\ t.n = 2 -> [t EXCEPT !.n = 3]
    [] e = "LF" -> [t EXCEPT !.n = 2]
    [] OTHER -> [t EXCEPT !.n = 1]

(* The reset is not sent: its write has no buffer, and no one looks at the *)
(* result.  The writes must not fail, but may take a part of the bytes.    *)
(* FULL is a read that filled the buffer.                                  *)
easypen_init(t, e) ==
  CASE t.n = 1 -> To(t, FALSE)
    [] t.n = 2 -> IF e = "FULL" THEN t ELSE To(t, TRUE)
    [] t.n = 3 -> Ok(t)

(* It prints what comes, for ever.                                         *)
dump_init(t) == [t EXCEPT !.w = FALSE]

wacom_iv_init(t) ==
  CASE t.n = 2 -> setline(To(t, TRUE), 19200)
    [] t.n = 4 -> setline(To(t, TRUE), 9600)
    [] t.n = 7 -> Ok(t)
    [] OTHER   -> To(t, TRUE)

init(m, t, e) ==
  IF e = "SHORT" THEN Fail(t)
  ELSE CASE m = "spaceball" -> spaceball_init(t, e)
         [] m = "magellan"  -> magellan_init(t)
         [] m = "warrior"   -> warrior_init(t, e)
         [] m = "stinger"   -> stinger_init(t, e)
         [] m = "mmwheel"   -> mzp_init(t, e)
         [] m = "newtonkbd" -> newton_init(t, e)
         [] m = "twiddler"  -> twiddler_init(t, e)
         [] m = "tsc"       -> tsc40_init(t, e)
         [] m = "t213"      -> t213_init(t, e)
         [] m = "pm6k"      -> pm6k_init(t, e)
         [] m = "fujitsu"   -> fujitsu_init(t, e)
         [] m = "zhenhua"   -> zhenhua_init(t, e)
         [] m = "easypen"   -> easypen_init(t, e)
         [] m = "dump"      -> dump_init(t)
         [] m = "wacom_iv"  -> wacom_iv_init(t)

(* Lines that cannot be told apart where they are skipped are one: the line *)
(* behind the greeting, and those that begin with a letter of another       *)
(* answer than the one waited for.                                          *)
Letters == <<"", "", "@", "@", "H", "P", "F", "M", "quote", "quote", "quote", "Y", "M">>
SpaceballLines(t) ==
  {"other", "banner"} \cup {l \in DOMAIN First : First[l] = Letters[t.n]}

(* Those that read before they write.                                      *)
ReadFirst == {"spaceball", "newtonkbd", "zhenhua"}
(* What becomes of a write.                                                *)
Writes == {"SENT", "SHORT"} \cup (IF mode = "easypen" THEN {"PART"} ELSE {})

(* What a read of the device can return, with readchar's -1.               *)
readchar(m, t) ==
  CASE m = "spaceball" -> {"TIMEOUT"} \cup (IF t.n = 1 THEN {"XON", "other"} ELSE SpaceballLines(t))
    [] m \in {"warrior", "stinger", "mmwheel", "newtonkbd"} -> {"TIMEOUT", "RIGHT", "WRONG"}
    [] m = "twiddler"  -> {"TIMEOUT", "HEADER", "BODY", "LAST"}
    [] m = "tsc"       -> {"TIMEOUT", "HIGH", "NACK", "FAILURE", "LOW"}
    [] m = "t213"      -> {"TIMEOUT", "LF", "1", "A", "BYTE"}
    [] m = "fujitsu"   -> {"TIMEOUT", "ACK", "ZERO", "BYTE"}
    [] m = "zhenhua"   -> {"TIMEOUT", "SYNC", "AXIS"}
    [] m = "easypen"   -> {"FULL", "PART"}
    [] OTHER           -> {"TIMEOUT", "BYTE"}

(***************************************************************************)
(* main.                                                                   *)
(***************************************************************************)
Init ==
  /\ stage = "open" /\ mode \in Modes
  /\ opt \in Options
  /\ s = [n |-> 1, w |-> mode \notin ReadFirst, c |-> <<>>, k |-> 0, res |-> "run",
          id |-> input_types[mode].id, speed |-> 0]
  /\ got = <<>> /\ noise = 0 /\ errno = "0" /\ disc = "N_TTY"

(* What follows the line's setting: the device is talked to unless --noinit *)
(* says not to, or the mode has nothing to say.                             *)
Talk(t) ==
  IF mode \in NoInit \/ opt.noinit THEN stage' = "setd" /\ s' = t
  ELSE stage' = "init" /\ s' = IF mode = "wacom_iv" THEN setline(t, 38400) ELSE t

Open ==
  /\ stage = "open"
  /\ LET t == setline(s, IF opt.baud = -1 THEN input_types[mode].speed ELSE opt.baud)
     IN  \/ stage' = "exit" /\ UNCHANGED s                        \* no such device
         \/ opt.baud \notin Bauds /\ stage' = "exit" /\ UNCHANGED s
         \/ opt.baud \in Bauds /\ IF input_types[mode].flush THEN stage' = "flush" /\ s' = t
                                   ELSE Talk(t)
  /\ UNCHANGED <<mode, opt, got, noise, errno, disc>>

Flush ==
  /\ stage = "flush"
  /\ \/ noise < MaxNoise /\ noise' = noise + 1 /\ UNCHANGED <<stage, s>>    \* a byte is dropped
     \/ noise' = 0 /\ Talk(s)                                               \* TIMEOUT
  /\ UNCHANGED <<mode, opt, got, errno, disc>>

Talking ==
  /\ stage = "init"
  /\ \E e \in IF s.w THEN Writes ELSE readchar(mode, s) :
       LET t == init(mode, s, e)
           further == t.n > s.n \/ t.w # s.w \/ t.res # "run" \/ Len(t.c) > Len(s.c)
       IN  /\ further \/ noise < (IF mode = "spaceball" THEN Lines ELSE MaxNoise)
           /\ noise' = noise + (IF further THEN 0 ELSE 1)
           /\ got' = IF e = "SENT" THEN got ELSE Append(got, e)
           /\ s' = t
           /\ stage' = IF t.res = "run" THEN "init"
                       ELSE IF t.res = "ok" \/ opt.always THEN "setd" ELSE "exit"
  /\ UNCHANGED <<mode, opt, errno, disc>>

(* TIOCSETD, then SPIOCSTYPE.                                               *)
SetDiscipline ==
  /\ stage = "setd"
  /\ \/ disc' = "N_MOUSE" /\ stage' = "type"
     \/ stage' = "exit" /\ UNCHANGED disc
  /\ UNCHANGED <<mode, opt, s, got, noise, errno>>

SetType ==
  /\ stage = "type" /\ stage' \in {"read", "exit"}
  /\ UNCHANGED <<mode, opt, s, got, noise, errno, disc>>

(* read blocks until the port goes away, or EBUSY says that another process *)
(* is in it.  A read that succeeds leaves errno as it was.                  *)
WaitForPort ==
  /\ stage = "read"
  /\ errno' \in {errno, "EINTR", "EBUSY"}
  /\ stage' = IF errno' \in RETRY_ERROR THEN "read" ELSE "exit"
  /\ disc' = IF errno' = "0" THEN "N_TTY" ELSE disc
  /\ UNCHANGED <<mode, opt, s, got, noise>>

Next == Open \/ Flush \/ Talking \/ SetDiscipline \/ SetType \/ WaitForPort

Spec == Init /\ [][Next]_attachVars

(***************************************************************************)
(* Properties                                                              *)
(***************************************************************************)
Bytes == SelectSeq(got, LAMBDA e : e # "TIMEOUT")
Silences == Len(got) - Len(Bytes)
EndsWith(q, e) == Len(q) >= Len(e) /\ SubSeq(q, Len(q) - Len(e) + 1, Len(q)) = e

(* The place of the first line behind p that begins with c, if it is one of *)
(* the next few.                                                            *)
Begins(i, c) == i <= Len(got) /\ got[i] \in DOMAIN First /\ First[got[i]] = c
Found(p, c) ==
  {i \in (p + 1)..(p + Lines) : Begins(i, c) /\ \A j \in (p + 1)..(i - 1) : ~Begins(j, c)}
(* The lines of a SpaceBall's answers: the greeting, then what each command *)
(* is answered with.                                                        *)
OldLetters == <<"@", "@", "H", "P", "F", "M">>
FLXLetters == <<"@", "@", "H", "quote", "quote", "quote", "Y", "M">>
Places(q, letters) ==
  LET at[i \in 0..Len(letters)] ==
        IF i = 0 THEN {q} ELSE UNION {Found(p, letters[i]) : p \in at[i - 1]}
  IN  at
SpaceballSaid ==
  LET q == IF "XON" \in {got[i] : i \in 1..Len(got)}
           THEN 1 + CHOOSE i \in 1..Len(got) : got[i] = "XON" ELSE 0
      old == Places(q, OldLetters)
      new == Places(q, FLXLetters)
      Line(p) == got[CHOOSE i \in p : TRUE]
      Id(line) == IF line \in DOMAIN SpaceballId THEN SpaceballId[line] ELSE 0
  IN  /\ q > 0 /\ old[3] # {} /\ Line(old[1]) = "alive"
      /\ IF Line(old[3]) = "HvFirmware"
         THEN Len(got) \in new[8] /\ Line(new[4]) = "FLX" /\ s.id = Id(Line(new[5]))
         ELSE Len(got) \in old[6] /\ s.id = Id(Line(old[3]))

(* Two packets behind a header among the first bytes.                       *)
TwoPackets(header, Rule(_, _)) ==
  \E h \in 1..Packet :
    /\ Silences = 0 /\ Len(got) = h + 2 * Packet - 1
    /\ \A i \in 1..(h - 1) : got[i] # header
    /\ \A i \in h..Len(got) : Rule((i - h) % Packet, got[i])
TwiddlerRule(i, b) == (i = 0 <=> b = "HEADER") /\ (i = Packet - 1 => b = "LAST")
ZhenhuaRule(i, b) == i = 0 => b = "SYNC"

ReplyLength == [warrior |-> 2, mmwheel |-> 4, stinger |-> 16, newtonkbd |-> 35]

(* What the device has to send to be taken for the one of the mode.         *)
Shown ==
  CASE mode \in DOMAIN ReplyLength -> got = [i \in 1..ReplyLength[mode] |-> "RIGHT"]
    [] mode = "spaceball" -> SpaceballSaid
    [] mode = "twiddler"  -> TwoPackets("HEADER", TwiddlerRule)
    [] mode = "zhenhua"   -> TwoPackets("SYNC", ZhenhuaRule)
    [] mode = "fujitsu"   -> got = <<"ACK", "ZERO">>
    [] mode = "tsc"       ->
         /\ Silences = 0
         /\ IF Len(got) > 2 /\ got[3] = "NACK" /\ got[1] # "HIGH"
            THEN Len(got) = 4 /\ got[4] # "FAILURE" ELSE Len(got) = 3
    [] mode = "t213"      -> Silences < Tries /\ EndsWith(Bytes, <<"LF", "1", "A">>)
    [] OTHER              -> TRUE

(* A device is accepted exactly when it has sent what the comments of its  *)
(* init function say it sends (of a Zhen Hua, its synchronization bytes:   *)
(* the range of its axes is not looked at), wherever in the stream the     *)
(* program began to listen and whatever came in between; its id is the one *)
(* it gave, the line ends at the speed the device was switched to, and no  *)
(* port is made of a device that was not accepted unless --always or       *)
(* --noinit say so (the init functions and main).                          *)
VerdictExact ==
  LET short == got # <<>> /\ got[Len(got)] = "SHORT"
  IN  /\ s.res # "run" => (s.res = "ok" <=> ~short /\ Shown)
      /\ s.res = "fail" /\ mode = "t213" => short \/ Silences = Tries
      /\ s.res = "run" /\ mode = "t213" => ~EndsWith(Bytes, <<"LF", "1", "A">>)
      /\ s.res = "ok" /\ mode \in {"warrior", "mmwheel", "wacom_iv"} =>
           s.speed = IF mode = "warrior" THEN 4800 ELSE 9600
      /\ disc = "N_MOUSE" => \/ s.res = "ok" \/ opt.noinit \/ mode \in NoInit
                             \/ s.res = "fail" /\ opt.always

=============================================================================
