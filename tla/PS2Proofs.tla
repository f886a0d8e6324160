----------------------------- MODULE PS2Proofs -----------------------------
(***************************************************************************)
(* Proofs about PS2, for rings and screens of any size, any tables and any *)
(* keys and movements.  The keyboard ring is a queue; with the keyboard's  *)
(* interrupt enabled by the firmware and no key pressed while mouse_init   *)
(* runs, the mouse is set up, no byte waits for ever and the pointer       *)
(* follows the mouse.                                                      *)
(***************************************************************************)
EXTENDS PS2, TLAPS

-----------------------------------------------------------------------------
(* The invariants.                                                         *)

Byte == 0..255
Outputs == {<<>>} \cup {<<[src |-> s, byte |-> b]>> : s \in {"kbd", "aux"}, b \in Byte}
Pcs == {"kbd_init"} \cup InitPcs \cup Reading
Places == [x : 0..Width - CURSOR_SIZE, y : 0..Height - CURSOR_SIZE]
Mice == [cycle : 0..2, bytes : [1..3 -> Byte], buttons : 0..3,
         x : 0..Width - CURSOR_SIZE, y : 0..Height - CURSOR_SIZE]

PsType ==
    /\ obuf \in Outputs /\ port \in Byte /\ command \in Byte /\ status \in Byte
    /\ reply \in {"none", "cmd", "F6", "F4"}
    /\ irr \in SUBSET {1, 12} /\ intr \in {0, 1, 12} /\ guard \in 0..GUARD
    /\ pc \in Pcs
    /\ kbd \in [shift : BOOLEAN, ctrl : BOOLEAN, caps : BOOLEAN]
    /\ mouse \in Mice /\ path \in Places
    /\ streaming \in BOOLEAN /\ rest \in Seq(Byte)
    /\ rest # <<>> => packet \in Packets

\* keyboard_getchar is about to take the first character of the ring.
RingInv ==
    /\ kb_buffer \in [0..KB_BUFFER_SIZE-1 -> 0..127]
    /\ head \in 0..KB_BUFFER_SIZE-1 /\ tail \in 0..KB_BUFFER_SIZE-1
    /\ pc \in {"read", "advance"} => head # tail
    /\ pc = "advance" => c = kb_buffer[tail]

\* The firmware has enabled the keyboard's interrupt, and no key is pressed
\* while mouse_init runs.
QuietBoot == Bit(CommandByte, 0) /\ KeysDuringInit = FALSE

\* The command byte with the mouse port enabled, and with its interrupt.
PortEnabled == IF Bit(CommandByte, 5) THEN CommandByte - 32 ELSE CommandByte
IrqEnabled == IF Bit(PortEnabled, 1) THEN PortEnabled ELSE PortEnabled + 2

Acked == obuf = <<[src |-> "aux", byte |-> ACK]>>

\* A byte has an interrupt, or a handler that will read it.
Latched == obuf # <<>> => Irq(obuf[1].src) \in irr \/ (intr # 0 /\ guard < GUARD)

CommandInv ==
    /\ command = IF pc \in {"kbd_init", "aux_enable"} THEN CommandByte
                 ELSE IF pc \in {"get_cmd", "wait_cmd", "read_cmd", "set_cmd"}
                 THEN PortEnabled ELSE IrqEnabled
    /\ pc = "wait_cmd" /\ reply = "none" => PortByte = command
    /\ pc = "read_cmd" => obuf = <<>> /\ port = command
    /\ pc = "set_cmd" => status = IrqEnabled

IrqInv ==
    /\ unmasked = IF pc = "kbd_init" THEN {}
                  ELSE IF pc \in InitPcs \ {"centre"} THEN {1} ELSE {1, 2, 12}
    /\ pc = "kbd_init" => intr = 0 /\ (obuf # <<>> /\ guard > 0 => 1 \in irr)
    /\ pc # "kbd_init" => Latched
    /\ pc \in {"read_cmd", "set_cmd", "F6", "wait_F6", "read_F6", "F4", "wait_F4",
               "read_F4", "install"} => intr = 0 /\ 1 \notin irr

\* Who may have put a byte into the output buffer.
ReplyInv ==
    /\ reply = "cmd" => pc = "wait_cmd" /\ obuf = <<>>
    /\ reply = "F6" => pc = "wait_F6" /\ obuf = <<>>
    /\ reply = "F4" => pc = "wait_F4" /\ obuf = <<>> /\ ~streaming
    /\ pc \in {"kbd_init", "aux_enable", "wait_cmd"} /\ obuf # <<>> => obuf[1].src = "kbd"
    /\ pc \in {"get_cmd", "set_cmd", "F6", "F4"} => obuf = <<>>
    /\ pc \in {"wait_F6", "wait_F4"} /\ reply = "none" => Acked
    /\ pc \in {"read_F6", "read_F4"} => Acked
    /\ pc \in {"kbd_init", "aux_enable", "get_cmd", "wait_cmd", "read_cmd", "set_cmd",
               "F6", "wait_F6", "read_F6", "F4"} => ~streaming
    /\ pc \notin {"install", "centre"} \cup Reading => rest = <<>> /\ mouse.cycle = 0
    /\ ~streaming => rest = <<>>

SetupInv == CommandInv /\ IrqInv /\ ReplyInv

\* Once the driver listens: the bytes of a packet are where the mouse has put
\* them and the driver has taken them.
Listening == {"install", "centre"} \cup Reading
E(i) == Encode(packet)[i]
PacketInv ==
    pc \in Listening =>
      /\ rest # <<>> \/ Waiting = 1 => packet \in Packets
      /\ rest = <<>> /\ Waiting = 0 => mouse.cycle = 0
      /\ rest = <<>> /\ Waiting = 1 => mouse.cycle = 2 /\ obuf[1].byte = E(3)
      /\ Len(rest) = 1 => /\ rest[1] = E(3)
                          /\ mouse.cycle = 2 - Waiting
                          /\ Waiting = 1 => obuf[1].byte = E(2)
      /\ Len(rest) = 2 => /\ rest[1] = E(2) /\ rest[2] = E(3)
                          /\ mouse.cycle = 1 - Waiting
                          /\ Waiting = 1 => obuf[1].byte = E(1)
      /\ Len(rest) <= 2
      /\ mouse.cycle >= 1 => mouse.bytes[1] = E(1)
      /\ mouse.cycle = 2 => mouse.bytes[2] = E(2)

\* Where a packet moves the pointer at q.
MovedFrom(q, p) ==
    IF p.overflow THEN q
    ELSE [x |-> Clamp(q.x + p.dx, Width - CURSOR_SIZE),
          y |-> Clamp(q.y - p.dy, Height - CURSOR_SIZE)]

Pointer == [x |-> mouse.x, y |-> mouse.y]

\* The pointer is where the mouse has put it, up to the packet whose last byte
\* waits.
PointerInv ==
    pc \in Reading =>
        path = IF rest = <<>> /\ Waiting = 1 THEN MovedFrom(Pointer, packet) ELSE Pointer

QuietInv == PsType /\ SetupInv /\ PacketInv /\ PointerInv

-----------------------------------------------------------------------------
(* Bytes, packets and the types.                                           *)

LEMMA Sizes ==
  /\ KB_BUFFER_SIZE \in Nat /\ KB_BUFFER_SIZE >= 1 /\ GUARD \in Nat /\ GUARD >= 1
  /\ CURSOR_SIZE \in Nat /\ Width \in Nat /\ Height \in Nat
  /\ Width - CURSOR_SIZE \in Nat /\ Height - CURSOR_SIZE \in Nat
  /\ Centre \in Places
<1>1. /\ KB_BUFFER_SIZE \in Nat /\ KB_BUFFER_SIZE >= 1 /\ GUARD \in Nat /\ GUARD >= 1
      /\ CURSOR_SIZE \in Nat /\ Width \in Nat /\ Height \in Nat
      /\ CURSOR_SIZE <= Width \div 2 /\ CURSOR_SIZE <= Height \div 2
  BY SizesAssumption
<1>2. /\ Width - CURSOR_SIZE \in Nat /\ Height - CURSOR_SIZE \in Nat
      /\ Width \div 2 \in 0..Width - CURSOR_SIZE /\ Height \div 2 \in 0..Height - CURSOR_SIZE
  BY <1>1
<1> QED  BY <1>1, <1>2 DEF Centre, Places

LEMMA ClampFacts ==
  ASSUME NEW max \in Nat, NEW v \in Int
  PROVE  Clamp(v, max) \in 0..max /\ (v \in 0..max => Clamp(v, max) = v)
  BY DEF Clamp

LEMMA OutputFacts ==
  ASSUME NEW o \in Outputs, o # <<>>
  PROVE  /\ o[1].src \in {"kbd", "aux"} /\ o[1].byte \in Byte
         /\ o = <<[src |-> o[1].src, byte |-> o[1].byte]>>
<1>1. PICK s \in {"kbd", "aux"}, b \in Byte : o = <<[src |-> s, byte |-> b]>>
  BY DEF Outputs
<1> QED  BY <1>1

LEMMA LoadFacts ==
  ASSUME NEW s \in {"kbd", "aux"}, NEW b \in Byte, Load(s, b)
  PROVE  /\ obuf = <<>> /\ obuf' \in Outputs /\ obuf' # <<>> /\ port' = port
         /\ obuf'[1].src = s /\ obuf'[1].byte = b
         /\ irr' = IF Enabled(s) THEN irr \cup {Irq(s)} ELSE irr
  BY DEF Load, Outputs

LEMMA ConsumeFacts ==
  ASSUME PsType, Consume
  PROVE  obuf' = <<>> /\ obuf' \in Outputs /\ port' = PortByte /\ PortByte \in Byte
  BY OutputFacts DEF PsType, Consume, PortByte, Outputs

\* A movement of nine bits, as a byte and a sign.
LEMMA NineBits ==
  ASSUME NEW d \in -256..255
  PROVE  d % 256 \in 0..255 /\ (d % 256) - (IF d < 0 THEN 256 ELSE 0) = d
<1>1. CASE d >= 0  BY <1>1
<1>2. CASE d < 0
  <2>1. d % 256 = d + 256  BY <1>2
  <2> QED  BY <1>2, <2>1
<1> QED  BY <1>1, <1>2

\* What the bytes of a packet say.
LEMMA EncodeFacts ==
  ASSUME NEW p \in Packets
  PROVE  /\ Encode(p)[1] \in Byte /\ Encode(p)[2] \in Byte /\ Encode(p)[3] \in Byte
         /\ Head(Encode(p)) = Encode(p)[1]
         /\ Tail(Encode(p)) = <<Encode(p)[2], Encode(p)[3]>>
         /\ Bit(Encode(p)[1], 3) /\ ~Bit(Encode(p)[1], 7)
         /\ (Bit(Encode(p)[1], 6) <=> p.overflow)
         /\ (Bit(Encode(p)[1], 4) <=> p.dx < 0)
         /\ (Bit(Encode(p)[1], 5) <=> p.dy < 0)
         /\ Encode(p)[2] - (IF p.dx < 0 THEN 256 ELSE 0) = p.dx
         /\ Encode(p)[3] - (IF p.dy < 0 THEN 256 ELSE 0) = p.dy
<1>1. p.dx \in -256..255 /\ p.dy \in -256..255 /\ p.buttons \in 0..7 /\ p.overflow \in BOOLEAN
  BY PacketsAssumption
<1> DEFINE n == p.buttons
           sx == IF p.dx < 0 THEN 16 ELSE 0
           sy == IF p.dy < 0 THEN 32 ELSE 0
           so == IF p.overflow THEN 64 ELSE 0
           e1 == 8 + n + sx + sy + so
           e2 == p.dx % 256
           e3 == p.dy % 256
<1>2. Encode(p) = <<e1, e2, e3>>  BY DEF Encode
<1>3. /\ n \in 0..7 /\ sx \in {0, 16} /\ sy \in {0, 32} /\ so \in {0, 64}
      /\ (sx = 16 <=> p.dx < 0) /\ (sy = 32 <=> p.dy < 0)
  BY <1>1
<1>4. so = 64 <=> p.overflow  BY <1>1
<1>5. /\ e1 \in Byte /\ Bit(e1, 3) /\ ~Bit(e1, 7)
      /\ (Bit(e1, 6) <=> so = 64) /\ (Bit(e1, 4) <=> sx = 16) /\ (Bit(e1, 5) <=> sy = 32)
  <2> HIDE DEF n, sx, sy, so
  <2> QED  BY <1>3 DEF Bit, Byte
<1>6. /\ e2 \in Byte /\ e3 \in Byte
      /\ e2 - (IF p.dx < 0 THEN 256 ELSE 0) = p.dx
      /\ e3 - (IF p.dy < 0 THEN 256 ELSE 0) = p.dy
  BY <1>1, NineBits DEF Byte
<1> HIDE DEF e1, e2, e3
<1>7. /\ Encode(p)[1] = e1 /\ Encode(p)[2] = e2 /\ Encode(p)[3] = e3
      /\ Head(Encode(p)) = e1 /\ Tail(Encode(p)) = <<e2, e3>>
  BY <1>2
<1> HIDE DEF sx, sy, so, n
<1> QED  BY <1>3, <1>4, <1>5, <1>6, <1>7

\* The packet is complete.
LEMMA ApplyFacts ==
  ASSUME NEW m \in Mice, NEW b \in [1..3 -> Byte]
  PROVE  /\ ApplyPacket(m, b) \in Mice /\ ApplyPacket(m, b).cycle = 0
         /\ LET dx == b[2] - (IF Bit(b[1], 4) THEN 256 ELSE 0)
                dy == b[3] - (IF Bit(b[1], 5) THEN 256 ELSE 0)
                over == Bit(b[1], 6) \/ Bit(b[1], 7)
            IN  /\ ApplyPacket(m, b).x =
                     IF over THEN m.x ELSE Clamp(m.x + dx, Width - CURSOR_SIZE)
                /\ ApplyPacket(m, b).y =
                     IF over THEN m.y ELSE Clamp(m.y - dy, Height - CURSOR_SIZE)
<1> DEFINE dx == b[2] - (IF Bit(b[1], 4) THEN 256 ELSE 0)
           dy == b[3] - (IF Bit(b[1], 5) THEN 256 ELSE 0)
           over == Bit(b[1], 6) \/ Bit(b[1], 7)
           moves == dx # 0 \/ dy # 0
           X == Width - CURSOR_SIZE
           Y == Height - CURSOR_SIZE
           nx == IF moves THEN Clamp(m.x + dx, X) ELSE m.x
           ny == IF moves THEN Clamp(m.y - dy, Y) ELSE m.y
           r == [cycle |-> 0, bytes |-> b, buttons |-> b[1] % 4, x |-> nx, y |-> ny]
           z == [m EXCEPT !.cycle = 0]
           q == [z EXCEPT !.bytes = b]
<1>1. b[1] \in Byte /\ b[2] \in Byte /\ b[3] \in Byte  OBVIOUS
<1>2. dx \in Int /\ dy \in Int  BY <1>1 DEF Byte
<1>3. m.x \in 0..X /\ m.y \in 0..Y /\ X \in Nat /\ Y \in Nat  BY Sizes DEF Mice
<1>4. /\ Clamp(m.x + dx, X) \in 0..X /\ Clamp(m.y - dy, Y) \in 0..Y
      /\ dx = 0 => Clamp(m.x + dx, X) = m.x
      /\ dy = 0 => Clamp(m.y - dy, Y) = m.y
  <2> HIDE DEF dx, dy, X, Y
  <2>1. m.x + dx \in Int /\ m.y - dy \in Int  BY <1>2, <1>3
  <2>2. (dx = 0 => m.x + dx = m.x) /\ (dy = 0 => m.y - dy = m.y)  BY <1>3
  <2>3. Clamp(m.x + dx, X) \in 0..X /\ (m.x + dx \in 0..X => Clamp(m.x + dx, X) = m.x + dx)
    BY <1>3, <2>1, ClampFacts
  <2>4. Clamp(m.y - dy, Y) \in 0..Y /\ (m.y - dy \in 0..Y => Clamp(m.y - dy, Y) = m.y - dy)
    BY <1>3, <2>1, ClampFacts
  <2>5. dx = 0 => Clamp(m.x + dx, X) = m.x
    <3> SUFFICES ASSUME dx = 0 PROVE Clamp(m.x + dx, X) = m.x
      OBVIOUS
    <3>1. m.x + dx = m.x  BY <2>2
    <3> QED  BY <1>3, <2>3, <3>1
  <2>6. dy = 0 => Clamp(m.y - dy, Y) = m.y
    <3> SUFFICES ASSUME dy = 0 PROVE Clamp(m.y - dy, Y) = m.y
      OBVIOUS
    <3>1. m.y - dy = m.y  BY <2>2
    <3> QED  BY <1>3, <2>4, <3>1
  <2> QED  BY <2>3, <2>4, <2>5, <2>6
<1>5. nx = Clamp(m.x + dx, X) /\ ny = Clamp(m.y - dy, Y) /\ nx \in 0..X /\ ny \in 0..Y
  <2> HIDE DEF dx, dy, X, Y
  <2> QED  BY <1>3, <1>4
<1>6. b[1] % 4 \in 0..3 /\ 0 \in 0..2  BY <1>1 DEF Byte
<1>7. r \in Mice /\ r.cycle = 0 /\ r.x = nx /\ r.y = ny
  <2> HIDE DEF nx, ny
  <2> QED  BY <1>5, <1>6 DEF Mice
<1>8. q \in Mice /\ q.cycle = 0 /\ q.x = m.x /\ q.y = m.y
  <2>1. z \in Mice /\ z.cycle = 0 /\ z.x = m.x /\ z.y = m.y  BY <1>6 DEF Mice
  <2> HIDE DEF z
  <2> QED  BY <2>1 DEF Mice
<1>9. ApplyPacket(m, b) = IF over THEN q ELSE r
  <2>1. q = [m EXCEPT !.cycle = 0, !.bytes = b]  OBVIOUS
  <2> QED  BY <2>1 DEF ApplyPacket
<1> HIDE DEF q, r, nx, ny
<1> QED  BY <1>5, <1>7, <1>8, <1>9

\* A byte that is kept, and one more counted.
WithByte(m, i, b) == [m EXCEPT !.bytes[i] = b, !.cycle = i]

LEMMA KeepByte ==
  ASSUME NEW m \in Mice, NEW i \in 1..2, NEW b \in Byte
  PROVE  /\ WithByte(m, i, b) \in Mice /\ WithByte(m, i, b).cycle = i
         /\ WithByte(m, i, b).x = m.x /\ WithByte(m, i, b).y = m.y
         /\ WithByte(m, i, b).bytes = [m.bytes EXCEPT ![i] = b]
<1> DEFINE u == [m.bytes EXCEPT ![i] = b]
           z == [m EXCEPT !.bytes = u]
           n == [z EXCEPT !.cycle = i]
<1>1. u \in [1..3 -> Byte]  BY DEF Mice
<1>2. z \in Mice /\ z.x = m.x /\ z.y = m.y /\ z.bytes = u
  <2> HIDE DEF u
  <2> QED  BY <1>1 DEF Mice
<1>3. n \in Mice /\ n.cycle = i /\ n.x = z.x /\ n.y = z.y /\ n.bytes = z.bytes
  <2> HIDE DEF z
  <2> QED  BY <1>2 DEF Mice
<1>4. n = WithByte(m, i, b)  BY DEF WithByte
<1> HIDE DEF n, z
<1> QED  BY <1>2, <1>3, <1>4

LEMMA MouseByte ==
  ASSUME mouse \in Mice, NEW b \in Byte, mouse_handle_byte(b)
  PROVE  /\ mouse' \in Mice
         /\ mouse.cycle = 0 /\ Bit(b, 3) =>
              /\ mouse'.cycle = 1 /\ mouse'.bytes[1] = b
              /\ mouse'.x = mouse.x /\ mouse'.y = mouse.y
         /\ mouse.cycle = 1 =>
              /\ mouse'.cycle = 2 /\ mouse'.bytes[2] = b /\ mouse'.bytes[1] = mouse.bytes[1]
              /\ mouse'.x = mouse.x /\ mouse'.y = mouse.y
         /\ mouse.cycle = 2 =>
              mouse' = ApplyPacket(mouse, [mouse.bytes EXCEPT ![3] = b])
<1>0. mouse.cycle \in 0..2 /\ mouse.bytes \in [1..3 -> Byte]  BY DEF Mice
<1>1. CASE mouse.cycle = 0 /\ ~Bit(b, 3)
  <2>1. mouse' = mouse  BY <1>1 DEF mouse_handle_byte
  <2> QED  BY <1>1, <2>1
<1>2. CASE mouse.cycle = 0 /\ Bit(b, 3)
  <2> DEFINE n == WithByte(mouse, 1, b)
  <2>1. mouse' = n  BY <1>2 DEF mouse_handle_byte, WithByte
  <2>2. /\ n \in Mice /\ n.cycle = 1 /\ n.x = mouse.x /\ n.y = mouse.y
        /\ n.bytes = [mouse.bytes EXCEPT ![1] = b]
    BY KeepByte
  <2> HIDE DEF n
  <2>3. n.bytes[1] = b  BY <1>0, <2>2
  <2> QED  BY <1>2, <2>1, <2>2, <2>3
<1>3. CASE mouse.cycle = 1
  <2> DEFINE n == WithByte(mouse, 2, b)
  <2>1. mouse' = n  BY <1>3 DEF mouse_handle_byte, WithByte
  <2>2. /\ n \in Mice /\ n.cycle = 2 /\ n.x = mouse.x /\ n.y = mouse.y
        /\ n.bytes = [mouse.bytes EXCEPT ![2] = b]
    BY KeepByte
  <2> HIDE DEF n
  <2>3. n.bytes[2] = b /\ n.bytes[1] = mouse.bytes[1]  BY <1>0, <2>2
  <2> QED  BY <1>3, <2>1, <2>2, <2>3
<1>4. CASE mouse.cycle = 2
  <2> DEFINE n == [mouse.bytes EXCEPT ![3] = b]
  <2>1. mouse' = ApplyPacket(mouse, n)  BY <1>4 DEF mouse_handle_byte
  <2>2. n \in [1..3 -> Byte]  BY <1>0
  <2> HIDE DEF n
  <2>3. mouse' \in Mice  BY <2>1, <2>2, ApplyFacts
  <2> QED  BY <1>4, <2>1, <2>3 DEF n
<1> QED  BY <1>0, <1>1, <1>2, <1>3, <1>4

LEMMA ModifierType ==
  ASSUME NEW k \in [shift : BOOLEAN, ctrl : BOOLEAN, caps : BOOLEAN], NEW s
  PROVE  Modifier(s, k) \in [shift : BOOLEAN, ctrl : BOOLEAN, caps : BOOLEAN]
<1> DEFINE Keys == [shift : BOOLEAN, ctrl : BOOLEAN, caps : BOOLEAN]
<1>1. \A v \in BOOLEAN : /\ [k EXCEPT !.shift = v] \in Keys
                         /\ [k EXCEPT !.ctrl = v] \in Keys
                         /\ [k EXCEPT !.caps = v] \in Keys
  OBVIOUS
<1>2. (~k.caps) \in BOOLEAN  OBVIOUS
<1> HIDE DEF Keys
<1>3. k \in Keys  BY DEF Keys
<1>4. Modifier(s, k) \in {[k EXCEPT !.shift = TRUE], [k EXCEPT !.shift = FALSE],
                          [k EXCEPT !.ctrl = TRUE], [k EXCEPT !.ctrl = FALSE],
                          [k EXCEPT !.caps = ~k.caps], k}
  BY DEF Modifier
<1> QED  BY <1>1, <1>2, <1>3, <1>4 DEF Keys

LEMMA RouteType ==
  ASSUME PsType, obuf # <<>>, Route(obuf[1])
  PROVE  /\ mouse' \in Mice
         /\ kbd' \in [shift : BOOLEAN, ctrl : BOOLEAN, caps : BOOLEAN]
<1>1. obuf[1].src \in {"kbd", "aux"} /\ obuf[1].byte \in Byte
  BY OutputFacts DEF PsType
<1>2. CASE obuf[1].src = "aux"
  <2>1. mouse_handle_byte(obuf[1].byte) /\ UNCHANGED kbd  BY <1>2 DEF Route
  <2> QED  BY <1>1, <2>1, MouseByte DEF PsType
<1>3. CASE obuf[1].src # "aux"
  <2>1. mouse' = mouse /\ kbd' = Modifier(obuf[1].byte, kbd)
    BY <1>3 DEF Route, keyboard_handle_byte
  <2> QED  BY <2>1, ModifierType DEF PsType
<1> QED  BY <1>2, <1>3

LEMMA MovedType ==
  ASSUME PsType, packet \in Packets
  PROVE  Moved(packet) \in Places
<1>1. packet.dx \in Int /\ packet.dy \in Int  BY PacketsAssumption
<1>2. path.x \in Int /\ path.y \in Int  BY Sizes DEF PsType, Places
<1>3. path.x + packet.dx \in Int /\ path.y - packet.dy \in Int  BY <1>1, <1>2
<1>4. /\ Clamp(path.x + packet.dx, Width - CURSOR_SIZE) \in 0..Width - CURSOR_SIZE
      /\ Clamp(path.y - packet.dy, Height - CURSOR_SIZE) \in 0..Height - CURSOR_SIZE
  BY <1>3, Sizes, ClampFacts
<1> QED  BY <1>4 DEF PsType, Moved, Places

LEMMA DeviceType ==
  ASSUME PsType, Devices
  PROVE  PsType'
<1> USE DEF controller, pic, ring, reader, device
<1>1. CASE KeyByte
  <2>1. PICK s \in Scancodes : Load("kbd", s)  BY <1>1 DEF KeyByte
  <2>2. s \in Byte  BY BytesAssumption DEF Byte
  <2>3. obuf' \in Outputs /\ port' = port /\ irr' \in SUBSET {1, 12}
    BY <2>1, <2>2, LoadFacts DEF PsType, Irq
  <2> QED  BY <1>1, <2>3 DEF KeyByte, PsType
<1>2. CASE FirstMouseByte
  <2>1. PICK p \in Packets : /\ Load("aux", Head(Encode(p)))
                             /\ rest' = Tail(Encode(p)) /\ packet' = p
    BY <1>2 DEF FirstMouseByte
  <2>2. Head(Encode(p)) \in Byte /\ Tail(Encode(p)) \in Seq(Byte)
    <3>1. /\ Encode(p)[1] \in Byte /\ Encode(p)[2] \in Byte /\ Encode(p)[3] \in Byte
          /\ Head(Encode(p)) = Encode(p)[1]
          /\ Tail(Encode(p)) = <<Encode(p)[2], Encode(p)[3]>>
      BY EncodeFacts
    <3>2. \A a, b \in Byte : <<a, b>> \in Seq(Byte)  OBVIOUS
    <3> QED  BY <3>1, <3>2
  <2>3. obuf' \in Outputs /\ port' = port /\ irr' \in SUBSET {1, 12}
    BY <2>1, <2>2, LoadFacts DEF PsType, Irq
  <2> QED  BY <1>2, <2>1, <2>2, <2>3 DEF FirstMouseByte, PsType
<1>3. CASE LaterMouseByte
  <2>1. rest # <<>> /\ rest \in Seq(Byte) /\ packet \in Packets
    BY <1>3 DEF LaterMouseByte, PsType
  <2>2. Head(rest) \in Byte /\ Tail(rest) \in Seq(Byte)  BY <2>1
  <2>3. obuf' \in Outputs /\ port' = port /\ irr' \in SUBSET {1, 12}
    BY <1>3, <2>2, LoadFacts DEF LaterMouseByte, PsType, Irq
  <2>4. path' \in Places  BY <1>3, <2>1, MovedType DEF LaterMouseByte, PsType
  <2> QED  BY <1>3, <2>1, <2>2, <2>3, <2>4 DEF LaterMouseByte, PsType
<1>4. CASE Answer
  <2>1. ACK \in Byte /\ command \in Byte  BY DEF ACK, Byte, PsType
  <2>2. PICK s \in {"kbd", "aux"}, b \in Byte : Load(s, b)
    BY <1>4, <2>1 DEF Answer
  <2>3. obuf' \in Outputs /\ port' = port /\ irr' \in SUBSET {1, 12}
    BY <2>2, LoadFacts DEF PsType, Irq
  <2>4. streaming' \in BOOLEAN  BY <1>4 DEF Answer, PsType
  <2> QED  BY <1>4, <2>3, <2>4 DEF Answer, PsType
<1> QED  BY <1>1, <1>2, <1>3, <1>4 DEF Devices

LEMMA InterruptType ==
  ASSUME PsType, Interrupts \/ TimerIrq
  PROVE  PsType'
<1> USE DEF controller, pic, ring, reader, device
<1>0. "check" \in Pcs  BY DEF Pcs, Reading
<1>1. CASE HandlerByte
  <2>1. obuf # <<>> /\ Route(obuf[1]) /\ Consume /\ guard < GUARD /\ guard' = guard + 1
    BY <1>1 DEF HandlerByte
  <2>2. /\ mouse' \in Mice
        /\ kbd' \in [shift : BOOLEAN, ctrl : BOOLEAN, caps : BOOLEAN]
    BY <2>1, RouteType
  <2>3. obuf' \in Outputs /\ port' \in Byte  BY <2>1, ConsumeFacts
  <2>4. guard' \in 0..GUARD  BY <2>1, Sizes DEF PsType
  <2> QED  BY <1>1, <2>2, <2>3, <2>4 DEF HandlerByte, PsType
<1>2. CASE HandlerReturn
  BY <1>2, Sizes DEF HandlerReturn, PsType
<1>3. ASSUME NEW i \in {1, 12}, EnterIrq(i) PROVE PsType'
  <2>1. /\ intr' = i /\ guard' = 0 /\ irr' = irr \ {i}
        /\ pc' = IF pc = "halted" THEN "check" ELSE pc
        /\ UNCHANGED <<obuf, port, command, reply, status, kbd, mouse, device>>
    BY <1>3 DEF EnterIrq
  <2>2. guard' \in 0..GUARD /\ pc' \in Pcs /\ irr' \in SUBSET {1, 12}
    BY <1>0, <2>1, Sizes DEF PsType
  <2> QED  BY <2>1, <2>2 DEF PsType
<1>4. CASE TimerIrq
  BY <1>0, <1>4 DEF TimerIrq, PsType
<1> QED  BY <1>1, <1>2, <1>3, <1>4 DEF Interrupts

LEMMA ProcessType ==
  ASSUME PsType, Process0
  PROVE  PsType'
<1> USE DEF controller, pic, ring, reader, device, idle
<1>0. pc' \in Pcs
  BY DEF PsType, Process0, keyboard_init, mouse_init, shell_run, EnableAux, Send, mouse_wait,
     ReadCommand, SetCommand, mouse_read, InstallMouse, CentreCursor, TestInput, Hlt,
     ReadSlot, AdvanceTail, readline, Command, Step, Pcs, InitPcs, Reading
<1>1. CASE keyboard_init
  <2>1. obuf' \in Outputs /\ port' \in Byte
    BY <1>1, ConsumeFacts DEF keyboard_init, PsType
  <2>2. guard' \in 0..GUARD  BY <1>1, Sizes DEF keyboard_init, PsType
  <2> QED  BY <1>0, <1>1, <2>1, <2>2 DEF keyboard_init, PsType
<1>2. CASE mouse_init
  <2>1. CASE EnableAux
    <3>1. command' \in Byte  BY <2>1 DEF EnableAux, PsType, Byte, Bit
    <3> QED  BY <1>0, <2>1, <3>1 DEF EnableAux, PsType
  <2>2. CASE \/ Send("get_cmd", "cmd", "wait_cmd") \/ Send("F6", "F6", "wait_F6")
             \/ Send("F4", "F4", "wait_F4")
    BY <1>0, <2>2 DEF Send, PsType
  <2>3. CASE \/ mouse_wait("wait_cmd", "read_cmd") \/ mouse_wait("wait_F6", "read_F6")
             \/ mouse_wait("wait_F4", "read_F4")
    BY <1>0, <2>3 DEF mouse_wait, PsType
  <2>4. CASE ReadCommand
    <3>1. obuf' \in Outputs /\ port' \in Byte /\ PortByte \in Byte
      BY <2>4, ConsumeFacts DEF ReadCommand
    <3>2. status' \in Byte  BY <2>4, <3>1 DEF ReadCommand, Byte, Bit
    <3> QED  BY <1>0, <2>4, <3>1, <3>2 DEF ReadCommand, PsType
  <2>5. CASE SetCommand  BY <1>0, <2>5 DEF SetCommand, PsType
  <2>6. CASE mouse_read("read_F6", "F4") \/ mouse_read("read_F4", "install")
    <3>1. obuf' \in Outputs /\ port' \in Byte  BY <2>6, ConsumeFacts DEF mouse_read
    <3> QED  BY <1>0, <2>6, <3>1 DEF mouse_read, PsType
  <2>7. CASE InstallMouse  BY <1>0, <2>7 DEF InstallMouse, PsType
  <2>8. CASE CentreCursor
    <3> DEFINE m == [mouse EXCEPT !.x = Centre.x]
               n == [m EXCEPT !.y = Centre.y]
    <3>1. Centre.x \in 0..Width - CURSOR_SIZE /\ Centre.y \in 0..Height - CURSOR_SIZE
      BY Sizes DEF Places
    <3>2. m \in Mice  BY <3>1 DEF PsType, Mice
    <3>3. n \in Mice
      <4> HIDE DEF m
      <4> QED  BY <3>1, <3>2 DEF Mice
    <3>4. mouse' = n  BY <2>8 DEF CentreCursor
    <3> QED  BY <1>0, <2>8, <3>3, <3>4, Sizes DEF CentreCursor, PsType
  <2> QED
    BY <1>2, <2>1, <2>2, <2>3, <2>4, <2>5, <2>6, <2>7, <2>8 DEF mouse_init
<1>3. CASE shell_run
  BY <1>0, <1>3 DEF shell_run, TestInput, Hlt, ReadSlot, AdvanceTail, readline, Command, PsType
<1> QED  BY <1>1, <1>2, <1>3 DEF Process0

LEMMA TypeInit == Init => PsType
<1> SUFFICES ASSUME Init PROVE PsType
  OBVIOUS
<1> USE DEF Init
<1>1. obuf \in Outputs
  <2>1. CASE obuf = <<>>  BY <2>1 DEF Outputs
  <2>2. CASE \E s \in Scancodes : obuf = <<[src |-> "kbd", byte |-> s]>>
    <3>1. PICK s \in Scancodes : obuf = <<[src |-> "kbd", byte |-> s]>>  BY <2>2
    <3>2. s \in Byte  BY BytesAssumption DEF Byte
    <3> QED  BY <3>1, <3>2 DEF Outputs
  <2> QED  BY <2>1, <2>2
<1>2. command \in Byte /\ port \in Byte /\ status \in Byte  BY BytesAssumption DEF Byte
<1>3. irr \in SUBSET {1, 12} /\ guard \in 0..GUARD /\ rest \in Seq(Byte)  BY Sizes
<1>4. pc \in Pcs  BY DEF Pcs
<1>5. path \in Places  BY Sizes
<1>6. mouse \in Mice
  <2>1. <<0, 0, 0>> \in [1..3 -> Byte]  BY DEF Byte
  <2>2. Centre.x \in 0..Width - CURSOR_SIZE /\ Centre.y \in 0..Height - CURSOR_SIZE
    BY Sizes DEF Places
  <2>3. mouse = [cycle |-> 0, bytes |-> <<0, 0, 0>>, buttons |-> 0,
                 x |-> Centre.x, y |-> Centre.y]
    OBVIOUS
  <2> QED  BY <2>1, <2>2, <2>3 DEF Mice
<1> QED  BY <1>1, <1>2, <1>3, <1>4, <1>5, <1>6 DEF PsType

LEMMA TypeStep == PsType /\ [Next]_vars => PsType'
<1> SUFFICES ASSUME PsType, [Next]_vars PROVE PsType'
  OBVIOUS
<1>1. CASE UNCHANGED vars
  BY <1>1 DEF vars, controller, pic, device, PsType
<1> QED  BY <1>1, DeviceType, InterruptType, ProcessType DEF Next

-----------------------------------------------------------------------------
(* The keyboard ring is a queue.                                           *)

N == KB_BUFFER_SIZE

\* The place k after the place h, and the way from the place k to the place h.
Place(h, k) == IF h + k < N THEN h + k ELSE h + k - N
Way(h, k) == IF h >= k THEN h - k ELSE h - k + N

LEMMA PlaceFacts ==
  ASSUME NEW h \in 0..N-1, NEW k \in 0..N
  PROVE  (h + k) % N = Place(h, k) /\ Place(h, k) \in 0..N-1
  BY Sizes DEF Place, N

LEMMA WayFacts ==
  ASSUME NEW h \in 0..N-1, NEW k \in 0..N-1
  PROVE  (h - k) % N = Way(h, k) /\ Way(h, k) \in 0..N-1
  BY Sizes DEF Way, N

LEMMA Next1Facts ==
  ASSUME NEW h \in 0..N-1
  PROVE  Next1(h) = Place(h, 1) /\ Next1(h) \in 0..N-1
  BY PlaceFacts, Sizes DEF Next1, N

\* The characters held: n of them, from the place t on.
Held == Way(head, tail)
RingChars(r, t, n) == [i \in 1..n |-> r[Place(t, i - 1)]]

LEMMA QueueIs ==
  RingInv => Queue = RingChars(kb_buffer, tail, Held) /\ Held \in 0..N-1
<1> SUFFICES ASSUME RingInv
             PROVE  Queue = RingChars(kb_buffer, tail, Held) /\ Held \in 0..N-1
  OBVIOUS
<1>1. head \in 0..N-1 /\ tail \in 0..N-1  BY DEF RingInv, N
<1>2. (head - tail) % N = Held /\ Held \in 0..N-1  BY <1>1, WayFacts DEF Held
<1>3. ASSUME NEW i \in 1..Held PROVE (tail + i - 1) % N = Place(tail, i - 1)
  <2>1. i - 1 \in 0..N /\ tail + i - 1 = tail + (i - 1)  BY <1>1, <1>2, Sizes DEF N
  <2>2. (tail + (i - 1)) % N = Place(tail, i - 1)  BY <1>1, <2>1, PlaceFacts
  <2> QED  BY <2>1, <2>2
<1>4. Queue = [i \in 1..Held |-> kb_buffer[(tail + i - 1) % N]]
  BY <1>2 DEF Queue, N
<1> QED  BY <1>2, <1>3, <1>4 DEF RingChars

\* What a key puts into the ring is a character.
LEMMA CharFacts ==
  ASSUME NEW k \in [shift : BOOLEAN, ctrl : BOOLEAN, caps : BOOLEAN], NEW s \in Byte,
         TableChar(s, k.shift) # 0
  PROVE  WithCtrl(WithCaps(TableChar(s, k.shift), k), k) \in Chars
<1> DEFINE t == TableChar(s, k.shift)
           u == WithCaps(t, k)
<1>1. t \in 0..127
  <2>1. k.shift \in BOOLEAN /\ s \in 0..255  BY DEF Byte
  <2>2. CASE s > 87
    <3>1. t = 0  BY <2>1, <2>2 DEF TableChar
    <3> QED  BY <3>1
  <2>3. CASE s <= 87 /\ ~k.shift
    <3>1. t = scancode_to_ascii[s]  BY <2>1, <2>3 DEF TableChar
    <3>2. s \in 0..87  BY <2>1, <2>3
    <3> QED  BY <3>1, <3>2, TablesAssumption
  <2>4. CASE s <= 63 /\ k.shift
    <3>1. t = scancode_to_ascii_shift[s]  BY <2>1, <2>4 DEF TableChar
    <3>2. s \in 0..63  BY <2>1, <2>4
    <3> QED  BY <3>1, <3>2, TablesAssumption
  <2>5. CASE s <= 87 /\ s > 63 /\ k.shift
    <3>1. t = 0  BY <2>1, <2>5 DEF TableChar
    <3> QED  BY <3>1
  <2> QED  BY <2>1, <2>2, <2>3, <2>4, <2>5
<1> HIDE DEF t
<1>2. t \in 1..127  BY <1>1 DEF t
<1>3. u \in 1..127
  <2>1. u \in {t, t - 32, t + 32} /\ (u = t - 32 => IsLower(t) \/ u = t)
        /\ (u = t + 32 => IsUpper(t) \/ u = t)
    BY <1>2 DEF WithCaps
  <2> QED  BY <1>2, <2>1 DEF IsLower, IsUpper
<1> HIDE DEF u
<1>4. WithCtrl(u, k) \in 1..127  BY <1>3 DEF WithCtrl, IsLower
<1> QED  BY <1>4 DEF Chars, t, u

\* A character goes into the ring, unless the ring is full.
LEMMA RingPut ==
  ASSUME RingInv, NEW ch \in Chars, buffer_put(ch), UNCHANGED <<pc, c>>
  PROVE  /\ RingInv'
         /\ \/ Queue' = Queue
            \/ Len(Queue) < N - 1 /\ Queue' = Append(Queue, ch)
<1>0. head \in 0..N-1 /\ tail \in 0..N-1 /\ kb_buffer \in [0..N-1 -> 0..127]
  BY DEF RingInv, N
<1>1. CASE Next1(head) = tail
  <2>1. UNCHANGED <<kb_buffer, head, tail>>  BY <1>1 DEF buffer_put, ring
  <2> QED  BY <2>1 DEF RingInv, Queue
<1>2. CASE Next1(head) # tail
  <2>1. /\ kb_buffer' = [kb_buffer EXCEPT ![head] = ch] /\ head' = Next1(head)
        /\ tail' = tail
    BY <1>2 DEF buffer_put
  <2>2. head' = Place(head, 1) /\ head' \in 0..N-1  BY <1>0, <2>1, Next1Facts
  <2>3. ch \in 0..127  BY DEF Chars
  <2>4. kb_buffer' \in [0..N-1 -> 0..127]  BY <1>0, <2>1, <2>3
  <2>5. head' # tail  BY <1>2, <2>1
  <2>6. pc = "advance" => kb_buffer'[tail] = kb_buffer[tail]
    <3>1. pc = "advance" => head # tail  BY DEF RingInv
    <3> QED  BY <1>0, <2>1, <3>1
  <2>7. RingInv'
    BY <2>1, <2>2, <2>4, <2>5, <2>6 DEF RingInv, N
  <2>8. Held \in 0..N-1 /\ Queue = RingChars(kb_buffer, tail, Held)  BY QueueIs
  <2>9. Queue' = RingChars(kb_buffer', tail', Held')
    <3>1. (RingInv => Queue = RingChars(kb_buffer, tail, Held) /\ Held \in 0..N-1)'
      BY QueueIs, PTL
    <3> QED  BY <2>7, <3>1 DEF RingChars
  <2>10. Held' = Held + 1 /\ Held < N - 1
    BY <1>0, <2>1, <2>2, <2>5, Sizes DEF Held, Way, Place, N
  <2>11. Place(tail, Held) = head
    BY <1>0, <2>8, Sizes DEF Held, Way, Place, N
  <2>12. ASSUME NEW i \in 1..Held
         PROVE  Place(tail, i - 1) \in 0..N-1 /\ Place(tail, i - 1) # head
    BY <1>0, <2>8, Sizes DEF Held, Way, Place, N
  <2>13. RingChars(kb_buffer', tail, Held + 1) = Append(RingChars(kb_buffer, tail, Held), ch)
    <3> DEFINE q == RingChars(kb_buffer, tail, Held)
               r == RingChars(kb_buffer', tail, Held + 1)
    <3>1. q \in Seq(0..127) /\ Len(q) = Held /\ \A i \in 1..Held : q[i] = kb_buffer[Place(tail, i - 1)]
      BY <1>0, <2>8, <2>12 DEF RingChars
    <3>2. r = [i \in 1..Held + 1 |-> kb_buffer'[Place(tail, i - 1)]]  BY DEF RingChars
    <3>3. ASSUME NEW i \in 1..Held PROVE kb_buffer'[Place(tail, i - 1)] = q[i]
      BY <1>0, <2>1, <2>12, <3>1
    <3>4. kb_buffer'[Place(tail, (Held + 1) - 1)] = ch
      <4>1. (Held + 1) - 1 = Held  BY <2>8
      <4> QED  BY <1>0, <2>1, <2>11, <4>1
    <3> DEFINE a == Append(q, ch)
    <3>5. /\ a \in Seq(0..127) /\ Len(a) = Held + 1 /\ a[Held + 1] = ch
          /\ \A i \in 1..Held : a[i] = q[i]
      <4>1. ch \in 0..127 /\ q \in Seq(0..127) /\ Len(q) = Held  BY <2>3, <3>1
      <4> HIDE DEF q
      <4> QED  BY <4>1
    <3> HIDE DEF a, q
    <3>6. a = [i \in 1..Held + 1 |-> a[i]]  BY <3>5
    <3>7. ASSUME NEW i \in 1..Held + 1 PROVE kb_buffer'[Place(tail, i - 1)] = a[i]
      <4>1. CASE i = Held + 1  BY <3>4, <3>5, <4>1
      <4>2. CASE i # Held + 1
        <5>1. i \in 1..Held  BY <2>8, <4>2
        <5> QED  BY <3>3, <3>5, <5>1
      <4> QED  BY <4>1, <4>2
    <3> HIDE DEF r
    <3>8. r = a  BY <3>2, <3>6, <3>7
    <3> QED  BY <3>8 DEF a, q, r
  <2>14. Len(Queue) = Held  BY <2>8 DEF RingChars
  <2> QED  BY <2>1, <2>7, <2>8, <2>9, <2>10, <2>13, <2>14
<1> QED  BY <1>1, <1>2

\* keyboard_getchar takes the first character.
LEMMA RingGet ==
  ASSUME RingInv, AdvanceTail
  PROVE  RingInv' /\ Queue # <<>> /\ char' = Head(Queue) /\ Queue' = Tail(Queue)
<1>0. head \in 0..N-1 /\ tail \in 0..N-1 /\ kb_buffer \in [0..N-1 -> 0..127]
  BY DEF RingInv, N
<1>1. /\ pc = "advance" /\ pc' = "line" /\ tail' = Next1(tail) /\ char' = c
      /\ kb_buffer' = kb_buffer /\ head' = head
  BY DEF AdvanceTail, Step
<1>2. head # tail /\ c = kb_buffer[tail]  BY <1>1 DEF RingInv
<1>3. tail' = Place(tail, 1) /\ tail' \in 0..N-1  BY <1>0, <1>1, Next1Facts
<1>4. RingInv'  BY <1>0, <1>1, <1>3 DEF RingInv, N
<1>5. Held \in 0..N-1 /\ Queue = RingChars(kb_buffer, tail, Held)  BY QueueIs
<1>6. Queue' = RingChars(kb_buffer, tail', Held')
  <2>1. (RingInv => Queue = RingChars(kb_buffer, tail, Held) /\ Held \in 0..N-1)'
    BY QueueIs, PTL
  <2> QED  BY <1>1, <1>4, <2>1 DEF RingChars
<1>7. Held' = Held - 1 /\ Held >= 1
  BY <1>0, <1>1, <1>2, <1>3, Sizes DEF Held, Way, Place, N
<1>8. /\ Place(tail, 0) = tail
      /\ \A i \in 1..Held : Place(tail, i - 1) \in 0..N-1
      /\ \A i \in 1..Held - 1 : Place(tail', i - 1) = Place(tail, i)
  BY <1>0, <1>3, <1>5, Sizes DEF Place, N
<1> DEFINE q == RingChars(kb_buffer, tail, Held)
           r == RingChars(kb_buffer, tail', Held - 1)
           z == Tail(q)
<1>9. q \in Seq(0..127) /\ Len(q) = Held /\ \A i \in 1..Held : q[i] = kb_buffer[Place(tail, i - 1)]
  BY <1>0, <1>5, <1>8 DEF RingChars
<1>10. q[1] = kb_buffer[tail]
  <2>1. 1 \in 1..Held /\ 1 - 1 = 0  BY <1>5, <1>7
  <2> QED  BY <1>8, <1>9, <2>1
<1>11. /\ q # <<>> /\ Head(q) = q[1]
       /\ z \in Seq(0..127) /\ Len(z) = Held - 1 /\ \A i \in 1..Held - 1 : z[i] = q[i + 1]
  <2>1. q \in Seq(0..127) /\ Len(q) = Held /\ Held \in Nat /\ Held >= 1  BY <1>5, <1>7, <1>9
  <2> HIDE DEF q, Held
  <2> QED  BY <2>1
<1>12. r = [i \in 1..Held - 1 |-> kb_buffer[Place(tail', i - 1)]]  BY DEF RingChars
<1> HIDE DEF q, r, z
<1>13. z = [i \in 1..Held - 1 |-> z[i]]  BY <1>11
<1>14. ASSUME NEW i \in 1..Held - 1 PROVE kb_buffer[Place(tail', i - 1)] = z[i]
  <2>1. i + 1 \in 1..Held /\ (i + 1) - 1 = i  BY <1>5
  <2>2. q[i + 1] = kb_buffer[Place(tail, (i + 1) - 1)]  BY <1>9, <2>1
  <2> QED  BY <1>8, <1>11, <2>1, <2>2
<1>15. r = z  BY <1>12, <1>13, <1>14
<1>16. Queue' = r /\ Queue = q  BY <1>5, <1>6, <1>7 DEF r, q
<1> QED  BY <1>1, <1>2, <1>4, <1>10, <1>11, <1>15, <1>16 DEF z

\* Every step is one of the queue or leaves it alone.
LEMMA RingStep ==
  ASSUME PsType, RingInv, [Next]_vars
  PROVE  RingInv' /\ [KQ!Next]_<<Queue, char>>
<1> USE DEF controller, pic, ring, reader, device
<1>1. CASE HandlerByte
  <2>1. obuf # <<>> /\ Route(obuf[1]) /\ UNCHANGED <<pc, c, char>>
    BY <1>1 DEF HandlerByte
  <2>2. obuf[1].byte \in Byte  BY <2>1, OutputFacts DEF PsType
  <2>3. CASE UNCHANGED <<kb_buffer, head, tail>>
    BY <2>1, <2>3 DEF RingInv, Queue
  <2>4. CASE \E ch \in Chars : buffer_put(ch)
    <3>1. PICK ch \in Chars : buffer_put(ch)  BY <2>4
    <3>2. RingInv' /\ (Queue' = Queue \/ (Len(Queue) < N - 1 /\ Queue' = Append(Queue, ch)))
      BY <2>1, <3>1, RingPut
    <3>3. CASE Queue' = Queue  BY <2>1, <3>2, <3>3
    <3>4. CASE Len(Queue) < N - 1 /\ Queue' = Append(Queue, ch)
      <4>1. KQ!Put(ch)  BY <2>1, <3>4 DEF KQ!Put, N
      <4> QED  BY <3>2, <4>1 DEF KQ!Next
    <3> QED  BY <3>2, <3>3, <3>4
  <2>5. UNCHANGED <<kb_buffer, head, tail>> \/ \E ch \in Chars : buffer_put(ch)
    <3>1. CASE obuf[1].src = "aux"  BY <2>1, <3>1 DEF Route
    <3>2. CASE obuf[1].src # "aux"
      <4> DEFINE s == obuf[1].byte
                 ch == WithCtrl(WithCaps(TableChar(s, kbd.shift), kbd), kbd)
      <4>1. keyboard_handle_byte(s)  BY <2>1, <3>2 DEF Route
      <4>2. CASE s < 128 /\ s \notin ModifierCodes /\ TableChar(s, kbd.shift) # 0
        <5>1. buffer_put(ch)  BY <4>1, <4>2 DEF keyboard_handle_byte
        <5>2. ch \in Chars  BY <2>2, <4>2, CharFacts DEF PsType
        <5> QED  BY <5>1, <5>2
      <4>3. CASE ~(s < 128 /\ s \notin ModifierCodes /\ TableChar(s, kbd.shift) # 0)
        BY <4>1, <4>3 DEF keyboard_handle_byte
      <4> QED  BY <4>2, <4>3
    <3> QED  BY <3>1, <3>2
  <2> QED  BY <2>3, <2>4, <2>5
<1>2. CASE AdvanceTail
  BY <1>2, RingGet DEF KQ!Get, KQ!Next
<1>3. CASE ReadSlot
  BY <1>3 DEF ReadSlot, Step, RingInv, Queue, idle
<1>4. CASE /\ UNCHANGED <<kb_buffer, head, tail, c, char>>
           /\ pc' = "read" => head # tail \/ pc = "read"
           /\ pc' = "advance" => pc = "advance"
  BY <1>4 DEF RingInv, Queue
<1>5. \/ HandlerByte \/ AdvanceTail \/ ReadSlot
      \/ /\ UNCHANGED <<kb_buffer, head, tail, c, char>>
         /\ pc' = "read" => head # tail \/ pc = "read"
         /\ pc' = "advance" => pc = "advance"
  <2>1. CASE Devices
    BY <2>1 DEF Devices, KeyByte, FirstMouseByte, LaterMouseByte, Answer
  <2>2. CASE Interrupts \/ TimerIrq
    BY <2>2 DEF Interrupts, HandlerReturn, EnterIrq, TimerIrq
  <2>3. CASE keyboard_init \/ mouse_init
    BY <2>3 DEF keyboard_init, mouse_init, EnableAux, Send, mouse_wait, ReadCommand,
       SetCommand, mouse_read, InstallMouse, CentreCursor, Step
  <2>4. CASE shell_run
    BY <2>4 DEF shell_run, TestInput, Hlt, readline, Command, Step, idle
  <2>5. CASE UNCHANGED vars  BY <2>5 DEF vars
  <2> QED  BY <2>1, <2>2, <2>3, <2>4, <2>5 DEF Next, Process0
<1> QED  BY <1>1, <1>2, <1>3, <1>4, <1>5

\* keyboard_getchar returns the characters in the order in which either
\* handler put them, each once; a character is lost only when the ring is
\* full.  The test, the load and the store of keyboard_getchar are separate
\* steps, and interrupts come between any two (keyboard.c).
THEOREM KeyRingRefinesQueue == Spec => ImplementsKeyQueue
<1>1. Init => PsType /\ RingInv /\ KQ!Init
  <2> SUFFICES ASSUME Init PROVE PsType /\ RingInv /\ KQ!Init
    OBVIOUS
  <2>1. PsType  BY TypeInit
  <2>2. RingInv  BY Sizes DEF Init, RingInv
  <2>3. Queue = RingChars(kb_buffer, tail, Held)  BY <2>2, QueueIs
  <2>4. Held = 0  BY DEF Held, Way, Init
  <2>5. Queue = <<>>  BY <2>3, <2>4 DEF RingChars
  <2> QED  BY <2>1, <2>2, <2>5 DEF Init, KQ!Init
<1>2. PsType /\ RingInv /\ [Next]_vars => PsType' /\ RingInv' /\ [KQ!Next]_<<Queue, char>>
  BY TypeStep, RingStep
<1> QED  BY <1>1, <1>2, PTL DEF Spec, ImplementsKeyQueue, KQ!Spec

-----------------------------------------------------------------------------
(* The set-up of the controller.                                           *)

\* A bit of a byte is cleared or set, and the others stay.
LEMMA ClearFive ==
  ASSUME NEW b \in Byte, Bit(b, 5)
  PROVE  /\ b - 32 \in Byte /\ ~Bit(b - 32, 5)
         /\ \A i \in {0, 1, 2, 3, 4, 6, 7} : Bit(b - 32, i) = Bit(b, i)
  BY DEF Byte, Bit

LEMMA SetOne ==
  ASSUME NEW b \in Byte, ~Bit(b, 1)
  PROVE  /\ b + 2 \in Byte /\ Bit(b + 2, 1)
         /\ \A i \in {0, 2, 3, 4, 5, 6, 7} : Bit(b + 2, i) = Bit(b, i)
  BY DEF Byte, Bit

LEMMA CommandBytes ==
  /\ PortEnabled \in Byte /\ IrqEnabled \in Byte
  /\ Bit(IrqEnabled, 1) /\ ~Bit(IrqEnabled, 5)
  /\ Bit(PortEnabled, 0) = Bit(CommandByte, 0)
  /\ \A i \in {0, 2, 3, 4, 6, 7} : Bit(IrqEnabled, i) = Bit(CommandByte, i)
<1>1. CommandByte \in Byte  BY BytesAssumption DEF Byte
<1>2. /\ PortEnabled \in Byte /\ ~Bit(PortEnabled, 5)
      /\ \A i \in {0, 1, 2, 3, 4, 6, 7} : Bit(PortEnabled, i) = Bit(CommandByte, i)
  BY <1>1, ClearFive DEF PortEnabled
<1>3. /\ IrqEnabled \in Byte /\ Bit(IrqEnabled, 1)
      /\ \A i \in {0, 2, 3, 4, 5, 6, 7} : Bit(IrqEnabled, i) = Bit(PortEnabled, i)
  BY <1>2, SetOne DEF IrqEnabled
<1> QED  BY <1>2, <1>3

\* Both interrupts are enabled when they are needed.
LEMMA InterruptsEnabled ==
  ASSUME QuietBoot, CommandInv
  PROVE  /\ Enabled("kbd")
         /\ pc \notin {"kbd_init", "aux_enable", "get_cmd", "wait_cmd", "read_cmd", "set_cmd"}
              => Enabled("aux")
  BY CommandBytes DEF QuietBoot, CommandInv, Enabled

\* A step of process 0 finds no byte whose interrupt it can take.
LEMMA NothingWaits ==
  ASSUME PsType, SetupInv, NEW a, NEW b, Step(a, b), pc # "kbd_init"
  PROVE  /\ 1 \notin irr /\ intr = 0
         /\ obuf # <<>> => obuf[1].src = "aux" /\ 12 \in irr
         /\ pc \notin InitPcs \ {"centre"} => obuf = <<>>
<1>1. intr = 0 /\ ~Deliverable(1) /\ ~Deliverable(12)  BY DEF Step
<1>2. 1 \in unmasked /\ (pc \notin InitPcs \ {"centre"} => unmasked = {1, 2, 12})
  BY DEF SetupInv, IrqInv
<1>3. 1 \notin irr  BY <1>1, <1>2 DEF Deliverable
<1>4. obuf # <<>> => Irq(obuf[1].src) \in irr /\ obuf[1].src \in {"kbd", "aux"}
  BY <1>1, OutputFacts DEF PsType, SetupInv, IrqInv, Latched
<1>5. obuf # <<>> => obuf[1].src = "aux" /\ 12 \in irr  BY <1>3, <1>4 DEF Irq
<1>6. pc \notin InitPcs \ {"centre"} => 12 \notin irr  BY <1>1, <1>2 DEF Deliverable
<1> QED  BY <1>1, <1>3, <1>5, <1>6

\* A byte was loaded: its interrupt is latched.
LEMMA LoadLatches ==
  ASSUME NEW s \in {"kbd", "aux"}, NEW b \in Byte, Load(s, b), Enabled(s)
  PROVE  /\ Latched' /\ irr' = irr \cup {Irq(s)} /\ obuf = <<>> /\ obuf' # <<>>
         /\ obuf'[1].src = s /\ obuf'[1].byte = b /\ port' = port
         /\ obuf' = <<[src |-> s, byte |-> b]>>
<1>1. /\ irr' = irr \cup {Irq(s)} /\ obuf = <<>> /\ obuf' # <<>>
      /\ obuf'[1].src = s /\ obuf'[1].byte = b /\ port' = port
  BY LoadFacts
<1> QED  BY <1>1 DEF Latched, Load

LEMMA MouseSpeaks ==
  ASSUME QuietBoot, PsType, SetupInv, obuf = <<>>, streaming
  PROVE  pc \in Listening /\ Enabled("aux") /\ reply = "none"
<1>1. pc \in Pcs  BY DEF PsType
<1>2. pc \in Listening
  BY <1>1 DEF SetupInv, ReplyInv, Acked, Pcs, InitPcs, Listening, PsType
<1>3. Enabled("aux")  BY <1>2, InterruptsEnabled DEF SetupInv, Listening, Reading
<1>4. reply = "none"  BY <1>2 DEF PsType, SetupInv, ReplyInv, Listening, Reading
<1> QED  BY <1>2, <1>3, <1>4

LEMMA DeviceSetup ==
  ASSUME QuietBoot, PsType, SetupInv, Devices
  PROVE  SetupInv'
<1> USE DEF controller, pic, ring, reader, device
<1>1. CASE KeyByte
  <2>1. PICK s \in Scancodes : Load("kbd", s)  BY <1>1 DEF KeyByte
  <2>2. s \in Byte  BY BytesAssumption DEF Byte
  <2>3. /\ Latched' /\ irr' = irr \cup {1} /\ obuf = <<>> /\ obuf' # <<>>
        /\ obuf'[1].src = "kbd" /\ port' = port
    BY <2>1, <2>2, InterruptsEnabled, LoadLatches DEF SetupInv, Irq
  <2>4. pc \notin InitPcs  BY <1>1 DEF KeyByte, QuietBoot
  <2>5. UNCHANGED <<command, reply, unmasked, intr, guard, pc, status, mouse, streaming, rest>>
    BY <1>1 DEF KeyByte
  <2>6. CommandInv'  BY <2>4, <2>5 DEF SetupInv, CommandInv, InitPcs
  <2>7. IrqInv'  BY <2>3, <2>4, <2>5 DEF SetupInv, IrqInv, InitPcs
  <2>8. ReplyInv'  BY <2>3, <2>4, <2>5 DEF SetupInv, ReplyInv, InitPcs
  <2> QED  BY <2>6, <2>7, <2>8 DEF SetupInv
<1>2. CASE FirstMouseByte \/ LaterMouseByte
  <2>1. streaming  BY <1>2 DEF FirstMouseByte, LaterMouseByte, SetupInv, ReplyInv, PsType
  <2>2. PICK b \in Byte : Load("aux", b)
    <3>1. CASE FirstMouseByte
      <4>1. PICK p \in Packets : Load("aux", Head(Encode(p)))  BY <3>1 DEF FirstMouseByte
      <4>2. Head(Encode(p)) \in Byte  BY EncodeFacts
      <4> QED  BY <4>1, <4>2
    <3>2. CASE LaterMouseByte
      <4>1. rest \in Seq(Byte) /\ rest # <<>>  BY <3>2 DEF LaterMouseByte, PsType
      <4>2. Head(rest) \in Byte  BY <4>1
      <4> QED  BY <3>2, <4>2 DEF LaterMouseByte
    <3> QED  BY <1>2, <3>1, <3>2
  <2>3. obuf = <<>>  BY <2>2, LoadFacts
  <2>4. pc \in Listening /\ Enabled("aux") /\ reply = "none"  BY <2>1, <2>3, MouseSpeaks
  <2>5. Latched' /\ irr' = irr \cup {12} /\ obuf' # <<>> /\ port' = port
    BY <2>2, <2>4, LoadLatches DEF Irq
  <2>6. UNCHANGED <<command, reply, unmasked, intr, guard, pc, status, mouse, streaming>>
    BY <1>2 DEF FirstMouseByte, LaterMouseByte
  <2>7. CommandInv'  BY <2>4, <2>6 DEF SetupInv, CommandInv, Listening, Reading
  <2>8. IrqInv'  BY <2>4, <2>5, <2>6 DEF SetupInv, IrqInv, Listening, Reading
  <2>9. ReplyInv'  BY <2>1, <2>4, <2>5, <2>6 DEF SetupInv, ReplyInv, Listening, Reading
  <2> QED  BY <2>7, <2>8, <2>9 DEF SetupInv
<1>3. CASE Answer
  <2>1. UNCHANGED <<command, unmasked, intr, guard, pc, status, mouse, rest>> /\ reply' = "none"
    BY <1>3 DEF Answer
  <2>2. ACK \in Byte /\ command \in Byte  BY DEF ACK, Byte, PsType
  <2>3. CASE reply = "cmd"
    <3>1. pc = "wait_cmd" /\ Load("kbd", command) /\ UNCHANGED streaming
      BY <1>3, <2>3 DEF Answer, SetupInv, ReplyInv
    <3>2. /\ Latched' /\ irr' = irr \cup {1} /\ obuf' # <<>>
          /\ obuf'[1].src = "kbd" /\ obuf'[1].byte = command /\ port' = port
      BY <2>2, <3>1, InterruptsEnabled, LoadLatches DEF SetupInv, Irq
    <3>3. CommandInv'  BY <2>1, <3>1, <3>2 DEF SetupInv, CommandInv, PortByte
    <3>4. IrqInv'  BY <2>1, <3>1, <3>2 DEF SetupInv, IrqInv
    <3>5. ReplyInv'  BY <2>1, <3>1, <3>2 DEF SetupInv, ReplyInv, Reading
    <3> QED  BY <3>3, <3>4, <3>5 DEF SetupInv
  <2>4. CASE reply # "cmd"
    <3>1. /\ Load("aux", ACK) /\ pc \in {"wait_F6", "wait_F4"}
          /\ pc = "wait_F6" => streaming' = streaming
      BY <1>3, <2>4 DEF Answer, SetupInv, ReplyInv
    <3>2. Latched' /\ irr' = irr \cup {12} /\ Acked'
      <4>1. Enabled("aux")  BY <3>1, InterruptsEnabled DEF SetupInv
      <4> QED  BY <2>2, <3>1, <4>1, LoadLatches DEF Irq, Acked, ACK
    <3>3. CommandInv'  BY <2>1, <3>1, <3>2 DEF SetupInv, CommandInv
    <3>4. IrqInv'  BY <2>1, <3>1, <3>2 DEF SetupInv, IrqInv
    <3>5. ReplyInv'  BY <2>1, <3>1, <3>2 DEF SetupInv, ReplyInv, Reading
    <3> QED  BY <3>3, <3>4, <3>5 DEF SetupInv
  <2> QED  BY <2>3, <2>4
<1> QED  BY <1>1, <1>2, <1>3 DEF Devices

LEMMA InterruptSetup ==
  ASSUME PsType, SetupInv, Interrupts \/ TimerIrq
  PROVE  SetupInv'
<1> USE DEF controller, pic, ring, reader, device
<1>1. CASE HandlerByte
  <2>1. /\ intr # 0 /\ obuf # <<>> /\ Route(obuf[1]) /\ Consume
        /\ UNCHANGED <<command, reply, irr, unmasked, intr, pc, status, streaming, rest>>
    BY <1>1 DEF HandlerByte
  <2>2. obuf' = <<>> /\ port' = PortByte  BY <2>1 DEF Consume
  <2>3. pc \in {"aux_enable", "wait_cmd", "centre"} \cup Reading
    BY <2>1 DEF PsType, SetupInv, IrqInv, ReplyInv, Pcs, InitPcs
  <2>4. reply = "none"  BY <2>1, <2>3 DEF PsType, SetupInv, ReplyInv, Reading
  <2>5. pc \in {"aux_enable", "wait_cmd"} => mouse' = mouse
    BY <2>1 DEF SetupInv, ReplyInv, Route
  <2>6. CommandInv'  BY <2>1, <2>2, <2>3, <2>4 DEF SetupInv, CommandInv, PortByte, Reading
  <2>7. IrqInv'
    <3>1. Latched'  BY <2>2 DEF Latched
    <3> QED  BY <2>1, <2>2, <2>3, <3>1 DEF SetupInv, IrqInv, Reading
  <2>8. ReplyInv'  BY <2>1, <2>2, <2>3, <2>4, <2>5 DEF SetupInv, ReplyInv, Reading
  <2> QED  BY <2>6, <2>7, <2>8 DEF SetupInv
<1>2. CASE HandlerReturn
  <2>1. /\ intr # 0 /\ (guard = GUARD \/ obuf = <<>>) /\ intr' = 0
        /\ UNCHANGED <<controller, unmasked, pc, status, mouse, streaming, rest>>
    BY <1>2 DEF HandlerReturn
  <2>2. pc # "kbd_init"  BY <2>1 DEF SetupInv, IrqInv
  <2>3. Latched'  BY <2>1, <2>2, Sizes DEF SetupInv, IrqInv, Latched
  <2>4. CommandInv'  BY <2>1 DEF SetupInv, CommandInv, PortByte
  <2>5. IrqInv'  BY <2>1, <2>2, <2>3 DEF SetupInv, IrqInv
  <2>6. ReplyInv'  BY <2>1 DEF SetupInv, ReplyInv, Acked
  <2> QED  BY <2>4, <2>5, <2>6 DEF SetupInv
<1>3. ASSUME NEW i \in {1, 12}, EnterIrq(i) PROVE SetupInv'
  <2>1. /\ Deliverable(i) /\ intr' = i /\ guard' = 0 /\ irr' = irr \ {i}
        /\ pc' = IF pc = "halted" THEN "check" ELSE pc
        /\ UNCHANGED <<obuf, port, command, reply, unmasked, status, mouse, streaming, rest>>
    BY <1>3 DEF EnterIrq
  <2>2. Latched'  BY <2>1, Sizes DEF Latched
  <2>3. pc \in {"aux_enable", "get_cmd", "wait_cmd", "centre"} \cup Reading
    BY <2>1 DEF Deliverable, PsType, SetupInv, IrqInv, Pcs, InitPcs
  <2>4. CommandInv'  BY <2>1, <2>3 DEF SetupInv, CommandInv, PortByte, Reading
  <2>5. IrqInv'  BY <2>1, <2>2, <2>3 DEF SetupInv, IrqInv, InitPcs, Reading
  <2>6. ReplyInv'  BY <2>1, <2>3 DEF SetupInv, ReplyInv, Acked, Reading
  <2> QED  BY <2>4, <2>5, <2>6 DEF SetupInv
<1>4. CASE TimerIrq
  <2>1. /\ pc = "halted" /\ pc' = "check"
        /\ UNCHANGED <<obuf, port, command, reply, irr, unmasked, intr, guard, status, mouse,
                       streaming, rest>>
    BY <1>4 DEF TimerIrq
  <2>2. CommandInv'  BY <2>1 DEF SetupInv, CommandInv, PortByte
  <2>3. IrqInv'  BY <2>1 DEF SetupInv, IrqInv, InitPcs, Latched
  <2>4. ReplyInv'  BY <2>1 DEF SetupInv, ReplyInv, Acked, Reading
  <2> QED  BY <2>2, <2>3, <2>4 DEF SetupInv
<1> QED  BY <1>1, <1>2, <1>3, <1>4 DEF Interrupts

LEMMA KeyboardSetup ==
  ASSUME PsType, SetupInv, keyboard_init
  PROVE  SetupInv'
<1> USE DEF controller, pic, ring, reader, device
<1>1. /\ pc = "kbd_init" /\ intr = 0
      /\ UNCHANGED <<command, reply, irr, intr, status, mouse, streaming, rest>>
  BY DEF keyboard_init, Step
<1>2. reply = "none" /\ unmasked = {}  BY <1>1 DEF PsType, SetupInv, ReplyInv, IrqInv
<1>3. CASE pc' = "kbd_init"
  <2>1. obuf' = <<>> /\ unmasked' = unmasked  BY <1>3 DEF keyboard_init, Step, Consume
  <2>2. CommandInv'  BY <1>1, <1>3 DEF SetupInv, CommandInv
  <2>3. IrqInv'  BY <1>1, <1>2, <1>3, <2>1 DEF SetupInv, IrqInv
  <2>4. ReplyInv'  BY <1>1, <1>2, <1>3, <2>1 DEF SetupInv, ReplyInv
  <2> QED  BY <2>2, <2>3, <2>4 DEF SetupInv
<1>4. CASE pc' # "kbd_init"
  <2>1. /\ obuf = <<>> \/ guard = GUARD
        /\ pc' = "aux_enable" /\ irq_install_handler(1) /\ UNCHANGED <<obuf, port>>
    BY <1>4 DEF keyboard_init, Step
  <2>2. unmasked' = {1}  BY <1>2, <2>1 DEF irq_install_handler
  <2>3. obuf # <<>> => obuf[1].src = "kbd" /\ 1 \in irr
    BY <1>1, <2>1, Sizes DEF PsType, SetupInv, IrqInv, ReplyInv
  <2>4. Latched'  BY <1>1, <2>1, <2>3 DEF Latched, Irq
  <2>5. CommandInv'  BY <1>1, <2>1 DEF SetupInv, CommandInv
  <2>6. IrqInv'  BY <1>1, <2>1, <2>2, <2>4 DEF SetupInv, IrqInv, InitPcs
  <2>7. ReplyInv'  BY <1>1, <1>2, <2>1, <2>3 DEF SetupInv, ReplyInv, Reading
  <2> QED  BY <2>5, <2>6, <2>7 DEF SetupInv
<1> QED  BY <1>3, <1>4

LEMMA MouseSetup ==
  ASSUME PsType, SetupInv, mouse_init
  PROVE  SetupInv'
<1> USE DEF controller, pic, ring, reader, device
<1>1. CASE EnableAux
  <2>1. /\ pc = "aux_enable" /\ pc' = "get_cmd" /\ Step("aux_enable", "get_cmd")
        /\ command' = IF Bit(command, 5) THEN command - 32 ELSE command
        /\ UNCHANGED <<obuf, port, reply, irr, unmasked, intr, guard, status, mouse, streaming, rest>>
    BY <1>1 DEF EnableAux, Step
  <2>2. obuf = <<>>  BY <2>1, NothingWaits DEF SetupInv, ReplyInv
  <2>3. CommandInv'  BY <2>1 DEF SetupInv, CommandInv, PortEnabled
  <2>4. IrqInv'  BY <2>1 DEF SetupInv, IrqInv, InitPcs, Latched
  <2>5. ReplyInv'  BY <2>1, <2>2 DEF PsType, SetupInv, ReplyInv, Reading
  <2> QED  BY <2>3, <2>4, <2>5 DEF SetupInv
<1>2. CASE \/ Send("get_cmd", "cmd", "wait_cmd") \/ Send("F6", "F6", "wait_F6")
           \/ Send("F4", "F4", "wait_F4")
  <2>1. /\ \/ pc = "get_cmd" /\ pc' = "wait_cmd" /\ reply' = "cmd"
           \/ pc = "F6" /\ pc' = "wait_F6" /\ reply' = "F6"
           \/ pc = "F4" /\ pc' = "wait_F4" /\ reply' = "F4"
        /\ UNCHANGED <<obuf, port, command, irr, unmasked, intr, guard, status, mouse, streaming, rest>>
    BY <1>2 DEF Send, Step
  <2>2. CommandInv'  BY <2>1 DEF SetupInv, CommandInv
  <2>3. IrqInv'  BY <2>1 DEF SetupInv, IrqInv, InitPcs, Latched
  <2>4. ReplyInv'  BY <2>1 DEF SetupInv, ReplyInv, Reading
  <2> QED  BY <2>2, <2>3, <2>4 DEF SetupInv
<1>3. CASE mouse_wait("wait_cmd", "read_cmd")
  <2>1. /\ pc = "wait_cmd" /\ pc' = "read_cmd" /\ Step("wait_cmd", "read_cmd")
        /\ obuf # <<>> \/ reply = "none"
        /\ UNCHANGED <<obuf, port, command, reply, irr, unmasked, intr, guard, status, mouse,
                       streaming, rest>>
    BY <1>3 DEF mouse_wait, Step
  <2>2. 1 \notin irr /\ intr = 0 /\ obuf = <<>>
    BY <2>1, NothingWaits DEF SetupInv, ReplyInv
  <2>3. CommandInv'  BY <2>1, <2>2 DEF SetupInv, CommandInv, PortByte
  <2>4. IrqInv'  BY <2>1, <2>2 DEF SetupInv, IrqInv, InitPcs, Latched
  <2>5. ReplyInv'  BY <2>1, <2>2 DEF SetupInv, ReplyInv, Reading
  <2> QED  BY <2>3, <2>4, <2>5 DEF SetupInv
<1>4. CASE mouse_wait("wait_F6", "read_F6") \/ mouse_wait("wait_F4", "read_F4")
  <2>1. /\ \/ pc = "wait_F6" /\ pc' = "read_F6"
           \/ pc = "wait_F4" /\ pc' = "read_F4"
        /\ obuf # <<>> \/ reply = "none"
        /\ UNCHANGED <<obuf, port, command, reply, irr, unmasked, intr, guard, status, mouse,
                       streaming, rest>>
    BY <1>4 DEF mouse_wait, Step
  <2>2. reply = "none" /\ Acked  BY <2>1 DEF PsType, SetupInv, ReplyInv
  <2>3. CommandInv'  BY <2>1 DEF SetupInv, CommandInv
  <2>4. IrqInv'  BY <2>1 DEF SetupInv, IrqInv, InitPcs, Latched
  <2>5. ReplyInv'  BY <2>1, <2>2 DEF SetupInv, ReplyInv, Acked, Reading
  <2> QED  BY <2>3, <2>4, <2>5 DEF SetupInv
<1>5. CASE ReadCommand
  <2>1. /\ pc = "read_cmd" /\ pc' = "set_cmd" /\ Consume
        /\ status' = IF Bit(PortByte, 1) THEN PortByte ELSE PortByte + 2
        /\ UNCHANGED <<command, reply, irr, unmasked, intr, guard, mouse, streaming, rest>>
    BY <1>5 DEF ReadCommand, Step
  <2>2. obuf' = <<>> /\ PortByte = PortEnabled /\ reply = "none"
    BY <2>1 DEF PsType, SetupInv, CommandInv, ReplyInv, PortByte, Consume
  <2>3. status' = IrqEnabled  BY <2>1, <2>2 DEF IrqEnabled
  <2>4. CommandInv'  BY <2>1, <2>3 DEF SetupInv, CommandInv
  <2>5. IrqInv'  BY <2>1, <2>2 DEF SetupInv, IrqInv, InitPcs, Latched
  <2>6. ReplyInv'  BY <2>1, <2>2 DEF SetupInv, ReplyInv, Reading
  <2> QED  BY <2>4, <2>5, <2>6 DEF SetupInv
<1>6. CASE SetCommand
  <2>1. /\ pc = "set_cmd" /\ pc' = "F6" /\ command' = status
        /\ UNCHANGED <<obuf, port, reply, irr, unmasked, intr, guard, status, mouse, streaming, rest>>
    BY <1>6 DEF SetCommand, Step
  <2>2. CommandInv'  BY <2>1 DEF SetupInv, CommandInv
  <2>3. IrqInv'  BY <2>1 DEF SetupInv, IrqInv, InitPcs, Latched
  <2>4. ReplyInv'  BY <2>1 DEF SetupInv, ReplyInv, Reading
  <2> QED  BY <2>2, <2>3, <2>4 DEF SetupInv
<1>7. CASE mouse_read("read_F6", "F4") \/ mouse_read("read_F4", "install")
  <2>1. /\ \/ pc = "read_F6" /\ pc' = "F4"
           \/ pc = "read_F4" /\ pc' = "install"
        /\ obuf' = <<>>
        /\ UNCHANGED <<command, reply, irr, unmasked, intr, guard, status, mouse, streaming, rest>>
    BY <1>7 DEF mouse_read, Step, Consume
  <2>2. reply = "none"  BY <2>1 DEF PsType, SetupInv, ReplyInv
  <2>3. CommandInv'  BY <2>1 DEF SetupInv, CommandInv
  <2>4. IrqInv'  BY <2>1 DEF SetupInv, IrqInv, InitPcs, Latched
  <2>5. ReplyInv'  BY <2>1, <2>2 DEF SetupInv, ReplyInv, Reading
  <2> QED  BY <2>3, <2>4, <2>5 DEF SetupInv
<1>8. CASE InstallMouse
  <2>1. /\ pc = "install" /\ pc' = "centre" /\ irq_install_handler(12)
        /\ UNCHANGED <<obuf, port, command, reply, irr, intr, guard, status, mouse, streaming, rest>>
    BY <1>8 DEF InstallMouse, Step
  <2>2. unmasked = {1}  BY <2>1 DEF SetupInv, IrqInv, InitPcs
  <2>3. unmasked' = {1, 2, 12}  BY <2>1, <2>2 DEF irq_install_handler
  <2>4. CommandInv'  BY <2>1 DEF SetupInv, CommandInv
  <2>5. IrqInv'  BY <2>1, <2>3 DEF SetupInv, IrqInv, InitPcs, Latched
  <2>6. ReplyInv'  BY <2>1 DEF SetupInv, ReplyInv, Reading
  <2> QED  BY <2>4, <2>5, <2>6 DEF SetupInv
<1>9. CASE CentreCursor
  <2>1. /\ pc = "centre" /\ pc' = "check"
        /\ UNCHANGED <<obuf, port, command, reply, irr, unmasked, intr, guard, status,
                       streaming, rest>>
    BY <1>9 DEF CentreCursor, Step
  <2>2. CommandInv'  BY <2>1 DEF SetupInv, CommandInv
  <2>3. IrqInv'  BY <2>1 DEF SetupInv, IrqInv, InitPcs, Latched
  <2>4. ReplyInv'  BY <2>1 DEF SetupInv, ReplyInv, Reading
  <2> QED  BY <2>2, <2>3, <2>4 DEF SetupInv
<1> QED  BY <1>1, <1>2, <1>3, <1>4, <1>5, <1>6, <1>7, <1>8, <1>9 DEF mouse_init

\* A step of the shell touches neither the controller nor the mouse.
LEMMA ShellStep ==
  ASSUME shell_run
  PROVE  /\ pc \in Reading /\ pc' \in Reading
         /\ UNCHANGED <<obuf, port, command, reply, irr, unmasked, intr, guard, status, mouse,
                        streaming, rest, packet, path>>
  BY DEF shell_run, TestInput, Hlt, ReadSlot, AdvanceTail, readline, Command, Step, Reading,
     idle, controller, pic, device

LEMMA SetupStep ==
  ASSUME QuietBoot, PsType, SetupInv, [Next]_vars
  PROVE  SetupInv'
<1>1. CASE shell_run
  <2>1. /\ pc \in Reading /\ pc' \in Reading
        /\ UNCHANGED <<obuf, port, command, reply, irr, unmasked, intr, guard, status, mouse,
                       streaming, rest>>
    BY <1>1, ShellStep
  <2>2. CommandInv'  BY <2>1 DEF SetupInv, CommandInv, Reading
  <2>3. IrqInv'  BY <2>1 DEF SetupInv, IrqInv, InitPcs, Latched, Reading
  <2>4. ReplyInv'  BY <2>1 DEF SetupInv, ReplyInv, Reading
  <2> QED  BY <2>2, <2>3, <2>4 DEF SetupInv
<1>2. CASE UNCHANGED vars
  BY <1>2 DEF vars, controller, pic, device, SetupInv, CommandInv, IrqInv, ReplyInv, Latched,
     Acked, PortByte
<1> QED
  BY <1>1, <1>2, DeviceSetup, InterruptSetup, KeyboardSetup, MouseSetup DEF Next, Process0

LEMMA SetupInit == Init => SetupInv
<1> SUFFICES ASSUME Init PROVE SetupInv
  OBVIOUS
<1>1. pc = "kbd_init" /\ reply = "none" /\ command = CommandByte /\ unmasked = {} /\ intr = 0
      /\ guard = 0 /\ ~streaming /\ rest = <<>> /\ mouse.cycle = 0
  BY DEF Init
<1>2. obuf # <<>> => obuf[1].src = "kbd"  BY DEF Init
<1> QED  BY <1>1, <1>2 DEF SetupInv, CommandInv, IrqInv, ReplyInv

-----------------------------------------------------------------------------
(* The mouse's packets.                                                    *)

LEMMA RestFacts ==
  ASSUME PsType
  PROVE  /\ Len(rest) \in Nat /\ (Len(rest) = 0 <=> rest = <<>>)
         /\ rest # <<>> => /\ Head(rest) = rest[1] /\ Len(Tail(rest)) = Len(rest) - 1
                           /\ Len(rest) = 1 => Tail(rest) = <<>>
                           /\ Len(rest) = 2 => Tail(rest) = <<rest[2]>>
<1>1. rest \in Seq(Byte)  BY DEF PsType
<1>2. /\ Len(rest) \in Nat /\ (Len(rest) = 0 <=> rest = <<>>)
      /\ rest # <<>> => Head(rest) = rest[1] /\ Len(Tail(rest)) = Len(rest) - 1
  BY <1>1
<1>3. Len(rest) = 1 => Tail(rest) = <<>>
  <2> SUFFICES ASSUME Len(rest) = 1 PROVE Tail(rest) = <<>>
    OBVIOUS
  <2> DEFINE z == Tail(rest)
  <2>1. z \in Seq(Byte) /\ Len(z) = 0  BY <1>1
  <2> HIDE DEF z
  <2>2. z = <<>>  BY <2>1
  <2> QED  BY <2>2 DEF z
<1>4. Len(rest) = 2 => Tail(rest) = <<rest[2]>>
  <2> SUFFICES ASSUME Len(rest) = 2 PROVE Tail(rest) = <<rest[2]>>
    OBVIOUS
  <2> DEFINE z == Tail(rest)
  <2>1. z \in Seq(Byte) /\ Len(z) = 1
    <3>1. rest # <<>>  BY <1>1
    <3> QED  BY <1>1, <3>1
  <2> HIDE DEF z
  <2>2. z = [i \in 1..1 |-> z[i]]  BY <2>1
  <2>3. z = <<z[1]>>  BY <2>2
  <2>4. z[1] = rest[2]
    <3>1. \A i \in 1..Len(rest) - 1 : Tail(rest)[i] = rest[i + 1]  BY <1>1
    <3>2. 1 \in 1..Len(rest) - 1 /\ 1 + 1 = 2  OBVIOUS
    <3> QED  BY <3>1, <3>2 DEF z
  <2> QED  BY <2>3, <2>4 DEF z
<1> QED  BY <1>2, <1>3, <1>4

LEMMA NotWaiting ==
  /\ obuf = <<>> => Waiting = 0
  /\ obuf # <<>> => Waiting = IF obuf[1].src = "aux" THEN 1 ELSE 0
  BY DEF Waiting

\* What neither the mouse nor its driver does leaves the packet and the
\* pointer as they are.
LEMMA PacketStays ==
  ASSUME PacketInv, UNCHANGED <<mouse, rest, packet>>,
         pc' \in Listening => pc \in Listening,
         Waiting' = Waiting, Waiting = 1 => obuf' = obuf
  PROVE  PacketInv'
  BY DEF PacketInv, E

LEMMA PointerStays ==
  ASSUME PointerInv, UNCHANGED <<mouse, rest, packet, path>>,
         pc' \in Reading => pc \in Reading, Waiting' = Waiting
  PROVE  PointerInv'
  BY DEF PointerInv, Pointer, MovedFrom

LEMMA KeyBytePacket ==
  ASSUME PsType, PacketInv, PointerInv, KeyByte
  PROVE  PacketInv' /\ PointerInv'
<1> USE DEF controller, pic, ring, reader, device
<1>1. PICK s \in Scancodes : Load("kbd", s)  BY DEF KeyByte
<1>2. s \in Byte  BY BytesAssumption DEF Byte
<1>3. obuf = <<>> /\ obuf' # <<>> /\ obuf'[1].src = "kbd"  BY <1>1, <1>2, LoadFacts
<1>4. Waiting = 0 /\ Waiting' = 0  BY <1>3 DEF Waiting
<1>5. UNCHANGED <<mouse, rest, packet, path, pc>>  BY DEF KeyByte
<1>6. PacketInv'  BY <1>4, <1>5, PacketStays
<1>7. PointerInv'  BY <1>4, <1>5, PointerStays
<1> QED  BY <1>6, <1>7

LEMMA FirstBytePacket ==
  ASSUME QuietBoot, PsType, SetupInv, PacketInv, PointerInv, FirstMouseByte
  PROVE  PacketInv' /\ PointerInv'
<1> USE DEF controller, pic, ring, reader, device
<1>1. PICK p \in Packets : /\ Load("aux", Head(Encode(p)))
                           /\ rest' = Tail(Encode(p)) /\ packet' = p
  BY DEF FirstMouseByte
<1>2. /\ Encode(p)[1] \in Byte /\ Head(Encode(p)) = Encode(p)[1]
      /\ Tail(Encode(p)) = <<Encode(p)[2], Encode(p)[3]>>
  BY EncodeFacts
<1>3. obuf = <<>> /\ obuf' # <<>> /\ obuf'[1].src = "aux" /\ obuf'[1].byte = Encode(p)[1]
  BY <1>1, <1>2, LoadFacts
<1>4. Waiting = 0 /\ Waiting' = 1  BY <1>3 DEF Waiting
<1>5. streaming /\ rest = <<>> /\ UNCHANGED <<mouse, path, pc>>  BY DEF FirstMouseByte
<1>6. pc \in Listening  BY <1>3, <1>5, MouseSpeaks
<1>7. mouse.cycle = 0  BY <1>4, <1>5, <1>6 DEF PacketInv
<1>8. /\ Len(rest') = 2 /\ rest'[1] = E(2)' /\ rest'[2] = E(3)' /\ rest' # <<>>
      /\ obuf'[1].byte = E(1)'
  <2>1. E(1)' = Encode(p)[1] /\ E(2)' = Encode(p)[2] /\ E(3)' = Encode(p)[3]  BY <1>1 DEF E
  <2>2. rest' = <<E(2)', E(3)'>>  BY <1>1, <1>2, <2>1
  <2>3. \A u, v : /\ Len(<<u, v>>) = 2 /\ <<u, v>>[1] = u /\ <<u, v>>[2] = v
                  /\ <<u, v>> # <<>>
    OBVIOUS
  <2> QED  BY <1>3, <2>1, <2>2, <2>3
<1>9. PacketInv'
  <2>1. packet' \in Packets /\ mouse'.cycle = 0  BY <1>1, <1>5, <1>7
  <2> QED  BY <1>4, <1>8, <2>1 DEF PacketInv
<1>10. PointerInv'  BY <1>4, <1>5, <1>8 DEF PointerInv, Pointer
<1> QED  BY <1>9, <1>10

LEMMA LaterBytePacket ==
  ASSUME QuietBoot, PsType, SetupInv, PacketInv, PointerInv, LaterMouseByte
  PROVE  PacketInv' /\ PointerInv'
<1> USE DEF controller, pic, ring, reader, device
<1>1. /\ rest # <<>> /\ Load("aux", Head(rest)) /\ rest' = Tail(rest)
      /\ path' = IF Len(rest) = 1 THEN Moved(packet) ELSE path
      /\ UNCHANGED <<mouse, packet, pc>>
  BY DEF LaterMouseByte
<1>2. rest \in Seq(Byte) /\ packet \in Packets  BY <1>1 DEF PsType
<1>3. Head(rest) \in Byte  BY <1>1, <1>2
<1>4. obuf = <<>> /\ obuf' # <<>> /\ obuf'[1].src = "aux" /\ obuf'[1].byte = Head(rest)
  BY <1>1, <1>3, LoadFacts
<1>5. Waiting = 0 /\ Waiting' = 1  BY <1>4 DEF Waiting
<1>6. pc \in Listening
  <2>1. streaming  BY <1>1 DEF SetupInv, ReplyInv, PsType
  <2> QED  BY <1>4, <2>1, MouseSpeaks
<1>7. /\ E(1)' = E(1) /\ E(2)' = E(2) /\ E(3)' = E(3)  BY <1>1 DEF E
<1>8. /\ Head(rest) = rest[1] /\ Len(Tail(rest)) = Len(rest) - 1
      /\ Len(rest) = 1 => Tail(rest) = <<>>
      /\ Len(rest) = 2 => Tail(rest) = <<rest[2]>>
      /\ Len(rest) \in Nat /\ Len(rest) # 0
  BY <1>1, RestFacts
<1>9. Len(rest) \in {1, 2}  BY <1>6, <1>8 DEF PacketInv
<1>10. CASE Len(rest) = 1
  <2>1. /\ rest' = <<>> /\ Len(rest') = 0 /\ mouse.cycle = 2 /\ obuf'[1].byte = E(3)
    BY <1>1, <1>4, <1>5, <1>6, <1>8, <1>10 DEF PacketInv
  <2>2. mouse.bytes[1] = E(1) /\ mouse.bytes[2] = E(2)  BY <1>6, <2>1 DEF PacketInv
  <2>3. PacketInv'
    <3>1. packet' \in Packets /\ mouse' = mouse  BY <1>1, <1>2
    <3> QED  BY <1>5, <1>7, <2>1, <2>2, <3>1 DEF PacketInv
  <2>4. PointerInv'
    <3> SUFFICES ASSUME pc \in Reading PROVE path' = MovedFrom(Pointer, packet)'
      BY <1>1, <1>5, <2>1 DEF PointerInv
    <3>1. path = Pointer  BY <1>5 DEF PointerInv
    <3>2. path.x = mouse.x /\ path.y = mouse.y  BY <3>1 DEF Pointer
    <3>3. path' = Moved(packet)  BY <1>1, <1>10
    <3>4. Moved(packet) = MovedFrom(Pointer, packet)  BY <3>1 DEF Moved, MovedFrom
    <3>5. MovedFrom(Pointer, packet)' = MovedFrom(Pointer, packet)
      BY <1>1 DEF MovedFrom, Pointer
    <3> QED  BY <3>3, <3>4, <3>5
  <2> QED  BY <2>3, <2>4
<1>11. CASE Len(rest) = 2
  <2>1. /\ rest' = <<rest[2]>> /\ mouse.cycle = 1 /\ obuf'[1].byte = E(2) /\ rest[2] = E(3)
    BY <1>1, <1>4, <1>5, <1>6, <1>8, <1>11 DEF PacketInv
  <2>2. rest' # <<>> /\ Len(rest') = 1 /\ rest'[1] = E(3)  BY <2>1
  <2>3. mouse.bytes[1] = E(1)  BY <1>6, <2>1 DEF PacketInv
  <2>4. PacketInv'  BY <1>1, <1>2, <1>5, <1>7, <2>1, <2>2, <2>3 DEF PacketInv
  <2>5. PointerInv'  BY <1>1, <1>5, <1>11, <2>2 DEF PointerInv, Pointer
  <2> QED  BY <2>4, <2>5
<1> QED  BY <1>9, <1>10, <1>11

\* A byte of the mouse is handled, by whichever handler.
LEMMA HandledPacket ==
  ASSUME PsType, SetupInv, PacketInv, PointerInv, HandlerByte
  PROVE  PacketInv' /\ PointerInv'
<1> USE DEF controller, pic, ring, reader, device
<1>1. /\ intr # 0 /\ obuf # <<>> /\ Consume /\ Route(obuf[1])
      /\ UNCHANGED <<pc, rest, packet, path>>
  BY DEF HandlerByte
<1>2. obuf' = <<>> /\ Waiting' = 0  BY <1>1 DEF Consume, Waiting
<1>3. CASE obuf[1].src # "aux"
  <2>1. Waiting = 0 /\ mouse' = mouse  BY <1>1, <1>3 DEF Waiting, Route
  <2>2. PacketInv'  BY <1>1, <1>2, <2>1, PacketStays
  <2>3. PointerInv'  BY <1>1, <1>2, <2>1, PointerStays
  <2> QED  BY <2>2, <2>3
<1>4. CASE obuf[1].src = "aux"
  <2> DEFINE b == obuf[1].byte
  <2>1. Waiting = 1  BY <1>1, <1>4 DEF Waiting
  <2>2. b \in Byte  BY <1>1, OutputFacts DEF PsType
  <2>3. mouse_handle_byte(b)  BY <1>1, <1>4 DEF Route
  <2>4. mouse \in Mice  BY DEF PsType
  <2> HIDE DEF b
  <2>5. /\ mouse' \in Mice
        /\ mouse.cycle = 0 /\ Bit(b, 3) =>
              /\ mouse'.cycle = 1 /\ mouse'.bytes[1] = b
              /\ mouse'.x = mouse.x /\ mouse'.y = mouse.y
        /\ mouse.cycle = 1 =>
              /\ mouse'.cycle = 2 /\ mouse'.bytes[2] = b /\ mouse'.bytes[1] = mouse.bytes[1]
              /\ mouse'.x = mouse.x /\ mouse'.y = mouse.y
        /\ mouse.cycle = 2 =>
              mouse' = ApplyPacket(mouse, [mouse.bytes EXCEPT ![3] = b])
    BY <2>2, <2>3, <2>4, MouseByte
  <2>6. E(1)' = E(1) /\ E(2)' = E(2) /\ E(3)' = E(3)  BY <1>1 DEF E
  <2>7. pc \in Listening
    BY <1>1, <1>4 DEF SetupInv, IrqInv, ReplyInv, PsType, Pcs, InitPcs, Listening
  <2>8. packet \in Packets  BY <2>1, <2>7 DEF PacketInv
  <2>9. Len(rest) \in Nat /\ Len(rest) <= 2 /\ (Len(rest) = 0 <=> rest = <<>>)
    BY <2>7, RestFacts DEF PacketInv
  <2>10. CASE Len(rest) = 2
    <3>1. mouse.cycle = 0 /\ b = E(1) /\ rest[1] = E(2) /\ rest[2] = E(3)
      BY <2>1, <2>7, <2>10 DEF PacketInv, b
    <3>2. Bit(b, 3)  BY <2>8, <3>1, EncodeFacts DEF E
    <3>3. mouse'.cycle = 1 /\ mouse'.bytes[1] = E(1) /\ mouse'.x = mouse.x /\ mouse'.y = mouse.y
      BY <2>5, <3>1, <3>2
    <3>4. PacketInv'  BY <1>1, <1>2, <2>6, <2>8, <2>9, <2>10, <3>1, <3>3 DEF PacketInv
    <3>5. PointerInv'  BY <1>1, <1>2, <2>9, <2>10, <3>3 DEF PointerInv, Pointer
    <3> QED  BY <3>4, <3>5
  <2>11. CASE Len(rest) = 1
    <3>1. mouse.cycle = 1 /\ b = E(2) /\ rest[1] = E(3) /\ mouse.bytes[1] = E(1)
      BY <2>1, <2>7, <2>11 DEF PacketInv, b
    <3>2. /\ mouse'.cycle = 2 /\ mouse'.bytes[1] = E(1) /\ mouse'.bytes[2] = E(2)
          /\ mouse'.x = mouse.x /\ mouse'.y = mouse.y
      BY <2>5, <3>1
    <3>3. PacketInv'  BY <1>1, <1>2, <2>6, <2>8, <2>9, <2>11, <3>1, <3>2 DEF PacketInv
    <3>4. PointerInv'  BY <1>1, <1>2, <2>9, <2>11, <3>2 DEF PointerInv, Pointer
    <3> QED  BY <3>3, <3>4
  <2>12. CASE rest = <<>>
    <3> DEFINE d == [mouse.bytes EXCEPT ![3] = b]
    <3>1. mouse.cycle = 2 /\ b = E(3)  BY <2>1, <2>7, <2>12 DEF PacketInv, b
    <3>2. mouse.bytes[1] = E(1) /\ mouse.bytes[2] = E(2)  BY <2>7, <3>1 DEF PacketInv
    <3>3. mouse.bytes \in [1..3 -> Byte]  BY <2>4 DEF Mice
    <3>4. d \in [1..3 -> Byte] /\ d[1] = E(1) /\ d[2] = E(2) /\ d[3] = E(3)
      BY <2>2, <3>1, <3>2, <3>3
    <3>5. mouse' = ApplyPacket(mouse, d)  BY <2>5, <3>1
    <3> HIDE DEF d
    <3>6. /\ d[2] - (IF Bit(d[1], 4) THEN 256 ELSE 0) = packet.dx
          /\ d[3] - (IF Bit(d[1], 5) THEN 256 ELSE 0) = packet.dy
          /\ (Bit(d[1], 6) \/ Bit(d[1], 7)) <=> packet.overflow
      BY <2>8, <3>4, EncodeFacts DEF E
    <3>7. /\ mouse'.cycle = 0
          /\ mouse'.x = IF packet.overflow THEN mouse.x
                        ELSE Clamp(mouse.x + packet.dx, Width - CURSOR_SIZE)
          /\ mouse'.y = IF packet.overflow THEN mouse.y
                        ELSE Clamp(mouse.y - packet.dy, Height - CURSOR_SIZE)
      BY <2>4, <3>4, <3>5, <3>6, ApplyFacts
    <3>8. PacketInv'  BY <1>1, <1>2, <2>6, <2>8, <2>9, <2>12, <3>7 DEF PacketInv
    <3>9. PointerInv'
      <4> SUFFICES ASSUME pc \in Reading PROVE path' = Pointer'
        BY <1>1, <1>2, <2>12 DEF PointerInv
      <4>1. path = MovedFrom(Pointer, packet)  BY <2>1, <2>12 DEF PointerInv
      <4>2. Pointer.x = mouse.x /\ Pointer.y = mouse.y  BY DEF Pointer
      <4>3. MovedFrom(Pointer, packet) = [x |-> mouse'.x, y |-> mouse'.y]
        BY <3>7, <4>2 DEF MovedFrom, Pointer
      <4> QED  BY <1>1, <4>1, <4>3 DEF Pointer
    <3> QED  BY <3>8, <3>9
  <2>13. Len(rest) = 2 \/ Len(rest) = 1 \/ rest = <<>>
    <3> DEFINE l == Len(rest)
    <3> HIDE DEF l
    <3>1. l \in Nat /\ l <= 2 /\ (l = 0 <=> rest = <<>>)  BY <2>9 DEF l
    <3>2. l = 2 \/ l = 1 \/ l = 0  BY <3>1
    <3> QED  BY <3>1, <3>2 DEF l
  <2> QED  BY <2>10, <2>11, <2>12, <2>13
<1> QED  BY <1>3, <1>4

\* mouse_init ends with no byte of the mouse in the buffer.
LEMMA CentrePacket ==
  ASSUME PsType, SetupInv, PacketInv, CentreCursor
  PROVE  PacketInv' /\ PointerInv'
<1> USE DEF controller, pic, ring, reader, device
<1>1. /\ Step("centre", "check") /\ mouse' = [mouse EXCEPT !.x = Centre.x, !.y = Centre.y]
      /\ path' = Centre /\ UNCHANGED <<obuf, rest, packet>>
  BY DEF CentreCursor
<1>2. pc = "centre" /\ pc' = "check"  BY <1>1 DEF Step
<1>3. obuf = <<>>  BY <1>1, <1>2, NothingWaits
<1>4. Waiting = 0 /\ Waiting' = 0  BY <1>1, <1>3 DEF Waiting
<1> DEFINE m == [mouse EXCEPT !.x = Centre.x]
           n == [m EXCEPT !.y = Centre.y]
<1>5. n.cycle = mouse.cycle /\ n.bytes = mouse.bytes /\ n.x = Centre.x /\ n.y = Centre.y
  <2>1. mouse \in Mice /\ Centre \in Places  BY Sizes DEF PsType
  <2>2. m \in Mice /\ m.cycle = mouse.cycle /\ m.bytes = mouse.bytes /\ m.x = Centre.x
    BY <2>1 DEF Mice, Places
  <2> HIDE DEF m
  <2> QED  BY <2>2 DEF Mice
<1>6. mouse' = n  BY <1>1
<1> HIDE DEF n
<1>7. mouse'.cycle = mouse.cycle /\ mouse'.bytes = mouse.bytes /\ Pointer' = Centre
  BY <1>5, <1>6 DEF Pointer, Centre
<1>8. E(1)' = E(1) /\ E(2)' = E(2) /\ E(3)' = E(3)  BY <1>1 DEF E
<1>9. pc \in Listening  BY <1>2 DEF Listening
<1>10. PacketInv'
  BY <1>1, <1>4, <1>7, <1>8, <1>9 DEF PacketInv
<1>11. PointerInv'  BY <1>1, <1>4, <1>7 DEF PointerInv
<1> QED  BY <1>10, <1>11

LEMMA PacketStep ==
  ASSUME QuietBoot, PsType, SetupInv, PacketInv, PointerInv, [Next]_vars
  PROVE  PacketInv' /\ PointerInv'
<1> USE DEF controller, pic, ring, reader, device
<1>1. CASE Answer
  <2>1. pc \notin Listening /\ pc' = pc
    BY <1>1 DEF Answer, SetupInv, ReplyInv, Listening, Reading
  <2> QED  BY <2>1 DEF PacketInv, PointerInv, Listening
<1>2. CASE HandlerReturn \/ EnterIrq(1) \/ EnterIrq(12) \/ TimerIrq \/ InstallMouse
  <2>1. /\ UNCHANGED <<obuf, mouse, rest, packet, path>>
        /\ pc' \in Listening => pc \in Listening
        /\ pc' \in Reading => pc \in Reading
    BY <1>2 DEF HandlerReturn, EnterIrq, TimerIrq, InstallMouse, Step, Listening, Reading
  <2>2. Waiting' = Waiting  BY <2>1 DEF Waiting
  <2> QED  BY <2>1, <2>2, PacketStays, PointerStays
<1>3. CASE mouse_read("read_F4", "install")
  <2>1. pc = "read_F4" /\ pc' = "install" /\ obuf' = <<>> /\ UNCHANGED <<mouse, rest>>
    BY <1>3 DEF mouse_read, Step, Consume
  <2>2. rest = <<>> /\ mouse.cycle = 0  BY <2>1 DEF SetupInv, ReplyInv, Reading
  <2>3. Waiting' = 0 /\ rest' = <<>> /\ mouse'.cycle = 0 /\ Len(rest') = 0
    BY <2>1, <2>2 DEF Waiting
  <2>4. PacketInv'  BY <2>3 DEF PacketInv
  <2>5. PointerInv'  BY <2>1 DEF PointerInv, Reading
  <2> QED  BY <2>4, <2>5
<1>4. CASE shell_run
  <2>1. /\ UNCHANGED <<obuf, mouse, rest, packet, path>> /\ pc \in Reading /\ pc' \in Reading
    BY <1>4, ShellStep
  <2>2. Waiting' = Waiting /\ pc \in Listening  BY <2>1 DEF Waiting, Listening
  <2> QED  BY <2>1, <2>2, PacketStays, PointerStays
<1>5. CASE pc' \notin Listening
  BY <1>5 DEF PacketInv, PointerInv, Listening
<1>6. CASE UNCHANGED vars
  <2>1. UNCHANGED <<obuf, mouse, rest, packet, path, pc>>  BY <1>6 DEF vars
  <2>2. Waiting' = Waiting  BY <2>1 DEF Waiting
  <2> QED  BY <2>1, <2>2, PacketStays, PointerStays
<1>7. \/ keyboard_init \/ EnableAux \/ ReadCommand \/ SetCommand
      \/ Send("get_cmd", "cmd", "wait_cmd") \/ Send("F6", "F6", "wait_F6")
      \/ Send("F4", "F4", "wait_F4") \/ mouse_wait("wait_cmd", "read_cmd")
      \/ mouse_wait("wait_F6", "read_F6") \/ mouse_wait("wait_F4", "read_F4")
      \/ mouse_read("read_F6", "F4")
      => pc' \notin Listening
  BY DEF keyboard_init, EnableAux, ReadCommand, SetCommand, Send, mouse_wait, mouse_read, Step,
     Listening, Reading
<1>8. \/ KeyByte \/ FirstMouseByte \/ LaterMouseByte \/ HandlerByte \/ CentreCursor
      \/ Answer \/ HandlerReturn \/ EnterIrq(1) \/ EnterIrq(12) \/ TimerIrq \/ InstallMouse
      \/ mouse_read("read_F4", "install") \/ shell_run \/ pc' \notin Listening
      \/ UNCHANGED vars
  BY <1>7 DEF Next, Devices, Interrupts, Process0, mouse_init
<1> QED
  BY <1>1, <1>2, <1>3, <1>4, <1>5, <1>6, <1>8, KeyBytePacket, FirstBytePacket, LaterBytePacket,
     HandledPacket, CentrePacket

-----------------------------------------------------------------------------
(* What the set-up and the packets show.                                   *)

LEMMA QuietHolds ==
  ASSUME QuietBoot
  PROVE  Spec => []QuietInv
<1>1. Init => QuietInv
  <2> SUFFICES ASSUME Init PROVE QuietInv
    OBVIOUS
  <2>1. pc = "kbd_init"  BY DEF Init
  <2> QED  BY <2>1, TypeInit, SetupInit DEF QuietInv, PacketInv, PointerInv, Listening, Reading
<1>2. QuietInv /\ [Next]_vars => QuietInv'
  BY TypeStep, SetupStep, PacketStep DEF QuietInv
<1> QED  BY <1>1, <1>2, PTL DEF Spec

\* mouse_init writes the controller's own command byte back, with the mouse
\* port and its interrupt enabled and the other bits as the firmware left
\* them: the handler of IRQ 1 takes the answer before mouse_read does, and the
\* port still shows it (mouse.c, mouse_init).
THEOREM CommandByteStays ==
  ASSUME QuietBoot
  PROVE  Spec => []CommandByteKept
<1>1. QuietInv => CommandByteKept
  BY CommandBytes DEF QuietInv, SetupInv, CommandInv, CommandByteKept, InitPcs
<1> QED  BY <1>1, QuietHolds, PTL

\* Once the shell reads, a byte in the output buffer is announced by an
\* interrupt that can be taken, or a handler is about to read it: no byte is
\* left behind that would block both devices (keyboard.c and mouse.c, the
\* handlers' loops and irq_install_handler).
THEOREM NoByteForgotten ==
  ASSUME QuietBoot
  PROVE  Spec => []ByteAnnounced
<1>1. QuietInv => ByteAnnounced
  <2> SUFFICES ASSUME QuietInv, pc \in Reading, obuf # <<>>
               PROVE  \/ Deliverable(Irq(obuf[1].src))
                      \/ intr # 0 /\ guard < GUARD
    BY DEF ByteAnnounced
  <2>1. unmasked = {1, 2, 12} /\ Latched
    BY DEF QuietInv, SetupInv, IrqInv, Reading, InitPcs
  <2> QED  BY <2>1 DEF Latched, Deliverable, Irq
<1> QED  BY <1>1, QuietHolds, PTL

\* The driver counts the bytes of a packet as the mouse does and puts the
\* pointer where the movements put it, on a screen of any size: sign bits,
\* overflow and clamping agree, whichever handler takes the bytes
\* (mouse.c, mouse_handle_byte).
THEOREM PointerStaysTrue ==
  ASSUME QuietBoot
  PROVE  Spec => []PointerFollows
<1>1. QuietInv => PointerFollows
  <2> SUFFICES ASSUME QuietInv, pc \in Reading
               PROVE  /\ (mouse.cycle + Waiting) % 3 = Sent
                      /\ Waiting = 0 /\ rest = <<>> => mouse.x = path.x /\ mouse.y = path.y
    BY DEF PointerFollows, MouseInSync
  <2> DEFINE l == Len(rest)
             y == mouse.cycle
  <2>1. pc \in Listening  BY DEF Listening
  <2>2. Waiting \in {0, 1}  BY DEF Waiting
  <2>3. l \in Nat /\ l <= 2 /\ (l = 0 <=> rest = <<>>)
    BY <2>1, RestFacts DEF QuietInv, PacketInv
  <2>4. /\ l = 0 /\ Waiting = 0 => y = 0
        /\ l = 0 /\ Waiting = 1 => y = 2
        /\ l = 1 => y = 2 - Waiting
        /\ l = 2 => y = 1 - Waiting
    BY <2>1, <2>3 DEF QuietInv, PacketInv
  <2>5. Sent = (3 - l) % 3  BY DEF Sent
  <2>6. (y + Waiting) % 3 = Sent
    <3>1. l \in {0, 1, 2}
      <4> HIDE DEF l
      <4> QED  BY <2>3
    <3>2. y + Waiting = IF l = 0 THEN 3 * Waiting ELSE 3 - l
      <4> HIDE DEF l, y
      <4> QED  BY <2>2, <2>4, <3>1
    <3> HIDE DEF l, y
    <3> QED  BY <2>2, <2>5, <3>1, <3>2
  <2>7. Waiting = 0 => path = Pointer  BY DEF QuietInv, PointerInv
  <2> QED  BY <2>6, <2>7 DEF Pointer
<1> QED  BY <1>1, QuietHolds, PTL
=============================================================================
