-------------------------------- MODULE PS2 --------------------------------
(***************************************************************************)
(* The PS/2 drivers, drivers/keyboard.c and drivers/mouse.c, and the shell *)
(* that reads the keyboard, shell/shell.c.                                 *)
(*                                                                         *)
(* One controller holds at most one byte of output, of the keyboard or of  *)
(* the mouse (status bit 5), and raises IRQ 1 or IRQ 12 when it loads one. *)
(* The handlers run with interrupts off and hand each byte to the driver   *)
(* it belongs to.  Process 0 sets the devices up, with interrupts on, and  *)
(* then reads lines for ever.  An interrupt that can be taken is taken     *)
(* before the next step of process 0; devices act at any time.             *)
(***************************************************************************)
EXTENDS Integers, Sequences

CONSTANTS
    Scancodes,          \* bytes the keyboard may send
    scancode_to_ascii,
    scancode_to_ascii_shift,    \* the two tables, as functions; 0: no character
    Packets,            \* what the mouse may report: [dx, dy, buttons, overflow]
    CommandByte,        \* the controller's command byte after boot
    KB_BUFFER_SIZE,
    MAX_CMD_LEN,
    GUARD,              \* bytes a handler reads at most (32 in the code)
    CURSOR_SIZE,
    Width, Height,      \* of the screen
    MaxKeys, MaxPackets,    \* bounds: bytes typed, packets sent
    KeysDuringInit      \* whether keys are pressed while mouse_init runs

ACK == 250              \* 0xFA

ASSUME TablesAssumption ==
    /\ scancode_to_ascii \in [0..87 -> 0..127]
    /\ scancode_to_ascii_shift \in [0..63 -> 0..127]
ASSUME BytesAssumption == Scancodes \subseteq 0..255 /\ CommandByte \in 0..255
ASSUME PacketsAssumption ==
    Packets \subseteq [dx : -256..255, dy : -256..255, buttons : 0..7, overflow : BOOLEAN]
ASSUME SizesAssumption ==
    /\ {KB_BUFFER_SIZE, GUARD} \subseteq Nat \ {0}
    /\ MAX_CMD_LEN \in Nat \ {0, 1}
    /\ {MaxKeys, MaxPackets} \subseteq Nat
    /\ CURSOR_SIZE \in Nat /\ Width \in Nat /\ Height \in Nat
    /\ CURSOR_SIZE <= Width \div 2 /\ CURSOR_SIZE <= Height \div 2
ASSUME InitAssumption == KeysDuringInit \in BOOLEAN

VARIABLES
    obuf,               \* the controller's output: <<>> or <<[src, byte]>>
    port,               \* the byte port 0x60 shows while obuf is empty
    command,            \* the command byte
    reply,              \* "none", or the answer that is on its way
    irr,                \* interrupts the PIC has latched
    unmasked,           \* interrupts whose mask bit is clear
    intr, guard,        \* the interrupt being served, 0 if none; its count
    pc,                 \* process 0
    status,             \* local of mouse_init
    kbd,                \* shift_pressed, ctrl_pressed, caps_lock
    kb_buffer, head, tail,
    mouse,              \* mouse_cycle, mouse_byte, mouse_x, mouse_y, buttons
    c, char,            \* c of keyboard_getchar; what it returned last
    line,               \* buf[0..pos-1] of readline
    streaming,          \* the mouse reports movements
    packet, rest,       \* the packet being sent; its bytes still to come
    keys, packets,      \* bytes typed, packets sent
    path                \* where the packets sent so far put the cursor

controller == <<obuf, port, command, reply, irr>>
pic == <<unmasked, intr, guard>>
ring == <<kb_buffer, head, tail>>
reader == <<c, char, line>>
device == <<streaming, packet, rest, keys, packets, path>>
vars == <<controller, pic, pc, status, kbd, ring, mouse, reader, device>>

Bit(b, i) == (b \div 2^i) % 2 = 1
Centre == [x |-> Width \div 2, y |-> Height \div 2]
Clamp(v, max) == IF v < 0 THEN 0 ELSE IF v > max THEN max ELSE v

(***************************************************************************)
(* The controller and the devices (hardware).                              *)
(***************************************************************************)
Irq(src) == IF src = "kbd" THEN 1 ELSE 12
Enabled(src) == Bit(command, IF src = "kbd" THEN 0 ELSE 1)

\* A byte enters the empty output buffer; the PIC latches the edge.
Load(src, b) ==
    /\ obuf = <<>>
    /\ obuf' = <<[src |-> src, byte |-> b]>>
    /\ irr' = IF Enabled(src) THEN irr \cup {Irq(src)} ELSE irr
    /\ UNCHANGED port

\* inb(0x60)
PortByte == IF obuf = <<>> THEN port ELSE obuf[1].byte
Consume == obuf' = <<>> /\ port' = PortByte

InitPcs == {"aux_enable", "get_cmd", "wait_cmd", "read_cmd", "set_cmd",
            "F6", "wait_F6", "read_F6", "F4", "wait_F4", "read_F4",
            "install", "centre"}

KeyByte ==
    /\ keys < MaxKeys
    /\ pc \in InitPcs => KeysDuringInit
    /\ ~Bit(command, 4)
    /\ \E s \in Scancodes : Load("kbd", s)
    /\ keys' = keys + 1
    /\ UNCHANGED <<command, reply, pic, pc, status, kbd, ring, mouse, reader,
                   streaming, packet, rest, packets, path>>

\* The three bytes of a packet; a movement has nine bits.
Encode(p) ==
    << 8 + p.buttons + (IF p.dx < 0 THEN 16 ELSE 0) + (IF p.dy < 0 THEN 32 ELSE 0)
         + (IF p.overflow THEN 64 ELSE 0),
       p.dx % 256,
       p.dy % 256 >>

Moved(p) ==
    IF p.overflow THEN path
    ELSE [x |-> Clamp(path.x + p.dx, Width - CURSOR_SIZE),
          y |-> Clamp(path.y - p.dy, Height - CURSOR_SIZE)]

FirstMouseByte ==
    /\ streaming /\ ~Bit(command, 5)
    /\ rest = <<>> /\ packets < MaxPackets
    /\ \E p \in Packets :
          /\ Load("aux", Head(Encode(p)))
          /\ rest' = Tail(Encode(p))
          /\ packet' = p
    /\ packets' = packets + 1
    /\ UNCHANGED <<command, reply, pic, pc, status, kbd, ring, mouse, reader,
                   streaming, keys, path>>

LaterMouseByte ==
    /\ rest # <<>>
    /\ Load("aux", Head(rest))
    /\ rest' = Tail(rest)
    /\ path' = IF Len(rest) = 1 THEN Moved(packet) ELSE path
    /\ UNCHANGED <<command, reply, pic, pc, status, kbd, ring, mouse, reader,
                   streaming, packet, keys, packets>>

\* The answer to a command; after 0xF4 the mouse reports movements.
Answer ==
    /\ \/ reply = "cmd" /\ Load("kbd", command) /\ UNCHANGED streaming
       \/ reply = "F6" /\ Load("aux", ACK) /\ UNCHANGED streaming
       \/ reply = "F4" /\ Load("aux", ACK) /\ streaming' = TRUE
    /\ reply' = "none"
    /\ UNCHANGED <<command, pic, pc, status, kbd, ring, mouse, reader,
                   packet, rest, keys, packets, path>>

(***************************************************************************)
(* Keyboard bytes.                                                         *)
(***************************************************************************)
IsLower(ch) == ch \in 97..122
IsUpper(ch) == ch \in 65..90

\* The table entry of a scancode under the shift state; 0 means none.
TableChar(s, shift) ==
    CASE s > 87 -> 0
      [] s <= 87 /\ ~shift -> scancode_to_ascii[s]
      [] s <= 63 /\ shift -> scancode_to_ascii_shift[s]
      [] OTHER -> 0

WithCaps(ch, k) ==
    CASE k.caps /\ ~k.shift /\ IsLower(ch) -> ch - 32
      [] k.caps /\ k.shift /\ IsUpper(ch) -> ch + 32
      [] OTHER -> ch

WithCtrl(ch, k) == IF k.ctrl /\ IsLower(ch) THEN ch - 97 + 1 ELSE ch

Next1(i) == (i + 1) % KB_BUFFER_SIZE

\* Mutant: no test for a full ring.
buffer_put_unchecked(ch) ==
    /\ kb_buffer' = [kb_buffer EXCEPT ![head] = ch]
    /\ head' = Next1(head)
    /\ UNCHANGED tail

buffer_put(ch) ==
    IF Next1(head) # tail
    THEN /\ kb_buffer' = [kb_buffer EXCEPT ![head] = ch]
         /\ head' = Next1(head)
         /\ UNCHANGED tail
    ELSE UNCHANGED ring

Modifier(s, k) ==
    CASE s \in {42, 54} -> [k EXCEPT !.shift = TRUE]
      [] s \in {42 + 128, 54 + 128} -> [k EXCEPT !.shift = FALSE]
      [] s = 29 -> [k EXCEPT !.ctrl = TRUE]
      [] s = 29 + 128 -> [k EXCEPT !.ctrl = FALSE]
      [] s = 58 -> [k EXCEPT !.caps = ~k.caps]
      [] OTHER -> k

ModifierCodes == {29, 42, 54, 56, 58}       \* Ctrl, both Shift keys, Alt, Caps

keyboard_handle_byte(s) ==
    /\ kbd' = Modifier(s, kbd)
    /\ IF s < 128 /\ s \notin ModifierCodes /\ TableChar(s, kbd.shift) # 0
       THEN buffer_put(WithCtrl(WithCaps(TableChar(s, kbd.shift), kbd), kbd))
       ELSE UNCHANGED ring

(***************************************************************************)
(* Mouse bytes.                                                            *)
(***************************************************************************)
\* b is the complete packet.
ApplyPacket(m, b) ==
    LET dx == b[2] - (IF Bit(b[1], 4) THEN 256 ELSE 0)
        dy == b[3] - (IF Bit(b[1], 5) THEN 256 ELSE 0)
        moves == dx # 0 \/ dy # 0
    IN  IF Bit(b[1], 6) \/ Bit(b[1], 7)
        THEN [m EXCEPT !.cycle = 0, !.bytes = b]
        ELSE [cycle |-> 0, bytes |-> b, buttons |-> b[1] % 4,
              x |-> IF moves THEN Clamp(m.x + dx, Width - CURSOR_SIZE) ELSE m.x,
              y |-> IF moves THEN Clamp(m.y - dy, Height - CURSOR_SIZE) ELSE m.y]

mouse_handle_byte(b) ==
    mouse' = CASE mouse.cycle = 0 /\ ~Bit(b, 3) -> mouse
               [] mouse.cycle = 0 /\ Bit(b, 3) ->
                     [mouse EXCEPT !.bytes[1] = b, !.cycle = 1]
               [] mouse.cycle = 1 -> [mouse EXCEPT !.bytes[2] = b, !.cycle = 2]
               [] mouse.cycle = 2 -> ApplyPacket(mouse, [mouse.bytes EXCEPT ![3] = b])

(***************************************************************************)
(* Interrupts.                                                             *)
(***************************************************************************)
Deliverable(i) ==
    i \in irr /\ i \in unmasked /\ (i >= 8 => 2 \in unmasked)

\* irq_handler is entered; a halted CPU goes on with the test of the loop.
EnterIrq(i) ==
    /\ intr = 0 /\ Deliverable(i)
    /\ i = 12 => ~Deliverable(1)
    /\ intr' = i /\ guard' = 0
    /\ irr' = irr \ {i}
    /\ pc' = IF pc = "halted" THEN "check" ELSE pc
    /\ UNCHANGED <<obuf, port, command, reply, unmasked, status, kbd, ring,
                   mouse, reader, device>>

\* Mutant: each handler keeps what it reads.
RouteByInterrupt(e) ==
    IF intr = 12
    THEN mouse_handle_byte(e.byte) /\ UNCHANGED <<kbd, ring>>
    ELSE keyboard_handle_byte(e.byte) /\ UNCHANGED mouse

Route(e) ==
    IF e.src = "aux"
    THEN mouse_handle_byte(e.byte) /\ UNCHANGED <<kbd, ring>>
    ELSE keyboard_handle_byte(e.byte) /\ UNCHANGED mouse

\* keyboard_irq_handler and mouse_irq_handler are the same loop.
HandlerByte ==
    /\ intr # 0 /\ guard < GUARD /\ obuf # <<>>
    /\ Consume
    /\ Route(obuf[1])
    /\ guard' = guard + 1
    /\ UNCHANGED <<command, reply, irr, unmasked, intr, pc, status, reader, device>>

HandlerReturn ==
    /\ intr # 0 /\ (guard = GUARD \/ obuf = <<>>)
    /\ intr' = 0 /\ guard' = 0
    /\ UNCHANGED <<controller, unmasked, pc, status, kbd, ring, mouse,
                   reader, device>>

\* Mutant: the timer is masked.
TimerMasked == intr = 0 /\ pc = "halted" /\ UNCHANGED vars

\* The timer wakes a halted CPU.
TimerIrq ==
    /\ intr = 0 /\ pc = "halted"
    /\ pc' = "check"
    /\ UNCHANGED <<controller, pic, status, kbd, ring, mouse, reader, device>>

\* Mutant: the cascade stays masked.
install_no_cascade(i) == unmasked' = unmasked \cup {i}

irq_install_handler(i) ==
    unmasked' = unmasked \cup {i} \cup (IF i >= 8 THEN {2} ELSE {})

(***************************************************************************)
(* Process 0: keyboard_init and mouse_init.                                *)
(***************************************************************************)
Step(from, to) ==
    /\ pc = from /\ pc' = to
    /\ intr = 0 /\ \A i \in {1, 12} : ~Deliverable(i)

\* Bytes of the boot are dropped, at most GUARD of them.
keyboard_init ==
    /\ \/ /\ obuf # <<>> /\ guard < GUARD
          /\ Step("kbd_init", "kbd_init")
          /\ Consume
          /\ guard' = guard + 1
          /\ UNCHANGED unmasked
       \/ /\ obuf = <<>> \/ guard = GUARD
          /\ Step("kbd_init", "aux_enable")
          /\ irq_install_handler(1)
          /\ guard' = 0
          /\ UNCHANGED <<obuf, port>>
    /\ UNCHANGED <<command, reply, irr, intr, status, kbd, ring, mouse, reader,
                   device>>

EnableAux ==
    /\ Step("aux_enable", "get_cmd")
    /\ command' = IF Bit(command, 5) THEN command - 32 ELSE command
    /\ UNCHANGED <<obuf, port, reply, irr, pic, status, kbd, ring, mouse,
                   reader, device>>

\* Commands that are answered: 0x20 to the controller, 0xF6 and 0xF4 to the
\* mouse.
Send(from, cmd, to) ==
    /\ Step(from, to)
    /\ reply' = cmd
    /\ UNCHANGED <<obuf, port, command, irr, pic, status, kbd, ring, mouse,
                   reader, device>>

\* mouse_wait(0): a byte is there, or the count runs out, which takes longer
\* than an answer.
mouse_wait(from, to) ==
    /\ Step(from, to)
    /\ obuf # <<>> \/ reply = "none"
    /\ UNCHANGED <<controller, pic, status, kbd, ring, mouse, reader, device>>

\* Mutant: the interrupt bit is not set.
ReadCommandAsIs ==
    /\ Step("read_cmd", "set_cmd")
    /\ Consume
    /\ status' = PortByte
    /\ UNCHANGED <<command, reply, irr, pic, kbd, ring, mouse, reader, device>>

ReadCommand ==
    /\ Step("read_cmd", "set_cmd")
    /\ Consume
    /\ status' = IF Bit(PortByte, 1) THEN PortByte ELSE PortByte + 2
    /\ UNCHANGED <<command, reply, irr, pic, kbd, ring, mouse, reader, device>>

SetCommand ==
    /\ Step("set_cmd", "F6")
    /\ command' = status
    /\ UNCHANGED <<obuf, port, reply, irr, pic, status, kbd, ring, mouse,
                   reader, device>>

mouse_read(from, to) ==
    /\ Step(from, to)
    /\ Consume
    /\ UNCHANGED <<command, reply, irr, pic, status, kbd, ring, mouse, reader, device>>

InstallMouse ==
    /\ Step("install", "centre")
    /\ irq_install_handler(12)
    /\ UNCHANGED <<controller, intr, guard, status, kbd, ring, mouse, reader, device>>

\* Movements that were handled before this are forgotten.
CentreCursor ==
    /\ Step("centre", "check")
    /\ mouse' = [mouse EXCEPT !.x = Centre.x, !.y = Centre.y]
    /\ path' = Centre
    /\ UNCHANGED <<controller, pic, status, kbd, ring, reader, streaming, packet,
                   rest, keys, packets>>

mouse_init ==
    \/ EnableAux
    \/ Send("get_cmd", "cmd", "wait_cmd")
    \/ mouse_wait("wait_cmd", "read_cmd") \/ ReadCommand \/ SetCommand
    \/ Send("F6", "F6", "wait_F6")
    \/ mouse_wait("wait_F6", "read_F6") \/ mouse_read("read_F6", "F4")
    \/ Send("F4", "F4", "wait_F4")
    \/ mouse_wait("wait_F4", "read_F4") \/ mouse_read("read_F4", "install")
    \/ InstallMouse \/ CentreCursor

(***************************************************************************)
(* Process 0: the shell reads.                                             *)
(***************************************************************************)
idle == <<controller, pic, status, kbd, mouse, device>>

\* keyboard_getchar: the test, the hlt that an interrupt may precede, the
\* load and the store are separate steps.
TestInput ==
    /\ \/ head # tail /\ Step("check", "read")
       \/ head = tail /\ Step("check", "hlt")
    /\ UNCHANGED <<idle, ring, reader>>

Hlt == Step("hlt", "halted") /\ UNCHANGED <<idle, ring, reader>>

ReadSlot ==
    /\ Step("read", "advance")
    /\ c' = kb_buffer[tail]
    /\ UNCHANGED <<idle, ring, char, line>>

AdvanceTail ==
    /\ Step("advance", "line")
    /\ tail' = Next1(tail)
    /\ char' = c
    /\ UNCHANGED <<idle, kb_buffer, head, c, line>>

NEWLINE == 10
BACKSPACE == 8
Printable(ch) == ch \in 32..126

Edited(l, ch) ==
    CASE ch = BACKSPACE /\ l # <<>> -> SubSeq(l, 1, Len(l) - 1)
      [] Printable(ch) -> Append(l, ch)
      [] OTHER -> l

\* One turn of readline; a line ends with a newline or when buf is full.
readline ==
    LET ends == char = NEWLINE \/ Len(Edited(line, char)) >= MAX_CMD_LEN - 1
    IN  /\ line' = IF char = NEWLINE THEN line ELSE Edited(line, char)
        /\ IF ends THEN Step("line", "command") ELSE Step("line", "check")
        /\ UNCHANGED <<idle, ring, c, char>>

\* shell_run runs the command and reads the next line.
Command ==
    /\ Step("command", "check")
    /\ line' = <<>>
    /\ UNCHANGED <<idle, ring, c, char>>

shell_run == TestInput \/ Hlt \/ ReadSlot \/ AdvanceTail \/ readline \/ Command

(***************************************************************************)
(* The specification.  A key may have been pressed during boot.            *)
(***************************************************************************)
Init ==
    /\ \/ obuf = <<>> /\ irr = {}
       \/ /\ \E s \in Scancodes : obuf = <<[src |-> "kbd", byte |-> s]>>
          /\ irr \in {{}, {1}}
    /\ port = 0 /\ command = CommandByte /\ reply = "none"
    /\ unmasked = {} /\ intr = 0 /\ guard = 0
    /\ pc = "kbd_init" /\ status = 0
    /\ kbd = [shift |-> FALSE, ctrl |-> FALSE, caps |-> FALSE]
    /\ kb_buffer = [i \in 0..KB_BUFFER_SIZE-1 |-> 0] /\ head = 0 /\ tail = 0
    /\ mouse = [cycle |-> 0, bytes |-> <<0, 0, 0>>, buttons |-> 0,
                x |-> Centre.x, y |-> Centre.y]
    /\ c = 0 /\ char = 0 /\ line = <<>>
    /\ streaming = FALSE /\ packet = (CHOOSE p \in Packets : TRUE) /\ rest = <<>>
    /\ keys = 0 /\ packets = 0 /\ path = Centre

Devices == KeyByte \/ FirstMouseByte \/ LaterMouseByte \/ Answer
Interrupts == HandlerByte \/ HandlerReturn \/ EnterIrq(1) \/ EnterIrq(12)
Process0 == keyboard_init \/ mouse_init \/ shell_run

Next == Devices \/ Interrupts \/ TimerIrq \/ Process0

Spec == Init /\ [][Next]_vars

\* The CPU runs whatever can run, the timer ticks, an answer comes.
FairSpec == /\ Spec
            /\ WF_vars(Interrupts) /\ WF_vars(TimerIrq) /\ WF_vars(Answer)
            /\ WF_vars(Process0)

(***************************************************************************)
(* Properties.                                                             *)
(***************************************************************************)
Reading == {"check", "hlt", "halted", "read", "advance", "line", "command"}
Chars == 1..127

\* The types; the cursor lies on the screen and the line fits its buffer.
TypeOK ==
    /\ obuf = <<>> \/ obuf \in [1..1 -> [src : {"kbd", "aux"}, byte : 0..255]]
    /\ {port, command, status} \subseteq 0..255
    /\ reply \in {"none", "cmd", "F6", "F4"}
    /\ irr \subseteq {1, 12} /\ unmasked \subseteq {1, 2, 12}
    /\ intr \in {0, 1, 12} /\ guard \in 0..GUARD
    /\ pc \in {"kbd_init"} \cup InitPcs \cup Reading
    /\ kbd \in [shift : BOOLEAN, ctrl : BOOLEAN, caps : BOOLEAN]
    /\ kb_buffer \in [0..KB_BUFFER_SIZE-1 -> 0..127]
    /\ {head, tail} \subseteq 0..KB_BUFFER_SIZE-1
    /\ mouse.cycle \in 0..2 /\ mouse.bytes \in [1..3 -> 0..255]
    /\ mouse.x \in 0..Width - CURSOR_SIZE /\ mouse.y \in 0..Height - CURSOR_SIZE
    /\ Len(line) < MAX_CMD_LEN

\* A byte in the output buffer blocks both devices until it is read.  Once
\* both drivers are set up, a handler is about to read it or an interrupt
\* that can be taken announces it: no byte waits for ever.
ByteAnnounced ==
    pc \in Reading /\ obuf # <<>> =>
        \/ Deliverable(Irq(obuf[1].src))
        \/ intr # 0 /\ guard < GUARD

Sent == (3 - Len(rest)) % 3
Waiting == IF obuf # <<>> /\ obuf[1].src = "aux" THEN 1 ELSE 0

\* mouse_handle_byte counts the bytes of a packet as the mouse does: the bytes
\* it has taken and the one in the buffer are those the mouse has sent.
MouseInSync == pc \in Reading => (mouse.cycle + Waiting) % 3 = Sent

\* The packets stay in step and, with none under way, the cursor is where the
\* movements so far put it: the nine-bit encoding, the overflow rule and the
\* clamping agree with the mouse, whichever handler took the bytes.
PointerFollows ==
    /\ MouseInSync
    /\ pc \in Reading /\ Waiting = 0 /\ rest = <<>> =>
          mouse.x = path.x /\ mouse.y = path.y

\* mouse_init writes back the controller's own command byte, with the mouse
\* port and its interrupt enabled and nothing else changed.
CommandByteKept ==
    pc \in InitPcs \ {"aux_enable", "get_cmd", "wait_cmd", "read_cmd", "set_cmd"}
        => /\ Bit(command, 1) /\ ~Bit(command, 5)
           /\ \A i \in {0, 2, 3, 4, 6, 7} : Bit(command, i) = Bit(CommandByte, i)

Queue == [i \in 1..((head - tail) % KB_BUFFER_SIZE) |->
             kb_buffer[(tail + i - 1) % KB_BUFFER_SIZE]]

KQ == INSTANCE BoundedQueue WITH
          Items <- Chars, Capacity <- KB_BUFFER_SIZE - 1, queue <- Queue, taken <- char

\* The ring filled by either handler and emptied by keyboard_getchar, step by
\* step, is a queue that loses a character only when it is full.
ImplementsKeyQueue == KQ!Spec

\* A character in the ring is read, although an interrupt may come between
\* the test for input and the hlt.
EveryKeyRead == (head # tail) ~> (head = tail)
=============================================================================
