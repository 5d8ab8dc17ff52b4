------------------------------ MODULE NoxChannel ------------------------------
(***************************************************************************)
(* The wire format of pylib/noxmsg.py (NOXChannel) and pylib/lavimsg.py    *)
(* (lavichannel): a frame is a 2-byte big-endian length that counts        *)
(* itself, a 1-byte type, and for LAVI a 4-byte big-endian xid before the  *)
(* body.  Bytes are the naturals 0..255 and a string is a sequence of      *)
(* them; struct.pack and struct.unpack are modelled by the arithmetic      *)
(* they do.  The receive loops that read a frame one byte at a time are    *)
(* actions of LaviConsole; these are the pure parts they share.            *)
(***************************************************************************)
EXTENDS Integers, Sequences

\* struct.pack(">H", n), for 0 <= n < 2^16.
BE16(n) == << n \div 256, n % 256 >>

\* struct.unpack(">H", b)[0] for a 2-byte string b.
UnBE16(b) == 256 * b[1] + b[2]

\* struct.pack(">L", n), for 0 <= n < 2^32.
BE32(n) == << (n \div 16777216) % 256, (n \div 65536) % 256,
              (n \div 256) % 256, n % 256 >>

\* struct.unpack(">L", b)[0] for a 4-byte string b.
UnBE32(b) == ((b[1] * 256 + b[2]) * 256 + b[3]) * 256 + b[4]

\* baresend: struct.pack raises struct.error, and nothing is sent, when
\* the length does not fit in 16 bits.
BareSendFits(cmd) == Len(cmd) + 2 < 65536

\* baresend: the length of the whole frame, then the command.
BareSend(cmd) == BE16(Len(cmd) + 2) \o cmd

\* NOXChannel.send: the type byte before the command.
Send(type, cmd) == BareSend(<< type >> \o cmd)

\* Mutant: the xid packed with ">H".
LaviSendShortXid(type, xid, cmd) == Send(type, BE16(xid) \o cmd)

\* lavichannel.send: the xid before the command.
LaviSend(type, xid, cmd) == Send(type, BE32(xid) \o cmd)

\* __del__: sendMsg(NOXMsg()), whose type is 0 and whose str() is "".
Disconnect == Send(0, << >>)

\* The test of receive(None) on its buffer: at least the length field,
\* and exactly as many bytes as it says.
BufferComplete(buf) == Len(buf) >= 2 /\ UnBE16(SubSeq(buf, 1, 2)) = Len(buf)

\* Mutant: the body sliced from reply[6:], one byte early.
LaviParseBodyEarly(reply) ==
    IF Len(reply) < 7 THEN [raw |-> reply]
    ELSE [length |-> UnBE16(SubSeq(reply, 1, 2)), type |-> reply[3],
          xid |-> UnBE32(SubSeq(reply, 4, 7)), msg |-> SubSeq(reply, 7, Len(reply))]

\* lavichannel.receive on a message: shorter than seven bytes it is
\* returned raw, else as (length, type, xid, msg) in host order.  The
\* docstring says only a reply longer than seven bytes is parsed; the
\* code's test is < 7, so the seven-byte echo request comes out parsed.
LaviParse(reply) ==
    IF Len(reply) < 7 THEN [raw |-> reply]
    ELSE [length |-> UnBE16(SubSeq(reply, 1, 2)), type |-> reply[3],
          xid |-> UnBE32(SubSeq(reply, 4, 7)), msg |-> SubSeq(reply, 8, Len(reply))]

\* What lavichannel.receive promises for a message the peer sent with
\* lavichannel.send(type, cmd) and the xid it chose.
LaviMsg(type, xid, cmd) ==
    [length |-> 7 + Len(cmd), type |-> type, xid |-> xid, msg |-> cmd]

=============================================================================
