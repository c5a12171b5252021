------------------------------- MODULE Framing ------------------------------
(***************************************************************************)
(* Blocks as bytes: how the writers of both programs lay a block out, and  *)
(* the two parsers that take a stream apart again, one byte at a time:     *)
(* copy_bottom_to_client in src/src/xzibit-plugin.c, with its one counter  *)
(* from the header of the connection to the last byte of a block, and      *)
(* check_for_fd_input in src/src/xzibit-rfb-client.c, with a state and a   *)
(* counter.  A parser's step yields its new state, and what it called.     *)
(***************************************************************************)
EXTENDS Integers, Sequences

CONSTANTS
  ByteSize,    \* values of a byte (256 in the program)
  HeaderSize   \* bytes of the header a connection begins with (12)

ASSUME FramingAssumption ==
  /\ ByteSize \in Nat \ {0, 1}
  /\ HeaderSize \in Nat \ {0}

Bytes == 0 .. ByteSize - 1

\* xzibit_header without its trailing null; which bytes they are is immaterial.
Header == [i \in 1 .. HeaderSize |-> 1]

\* Mutant of TwoBytes: nothing is cut off.
TwoBytesWhole(n) == <<n, n \div ByteSize>>

\* Mutant of TwoBytes: the high byte comes first.
TwoBytesSwapped(n) == <<(n \div ByteSize) % ByteSize, n % ByteSize>>

\* Two bytes, low one first, both cut off to a byte.
TwoBytes(n) == <<n % ByteSize, (n \div ByteSize) % ByteSize>>

Preamble(b) == TwoBytes(b.channel) \o TwoBytes(Len(b.payload))

Block(channel, payload) == [channel |-> channel, payload |-> payload]

\* What a parser may do besides changing its state.
Nothing    == [does |-> "nothing"]
Introduce  == [does |-> "introduce"]
Handle(b)  == [does |-> "handle", block |-> b]
Fails(why) == [does |-> "fail", why |-> why]

-----------------------------------------------------------------------------
(* copy_bottom_to_client.  bottom_stage is negative up to the end of the   *)
(* length; in a block it counts the bytes of the payload.                  *)

BottomStart == [stage |-> -4 - HeaderSize, channel |-> 0, length |-> 0,
                buffer |-> <<>>]

\* Mutant of BottomByte: after a block the header's last byte is expected.
BottomByteReset(p, byte) ==
  IF p.stage = p.length - 1
  THEN [next |-> [p EXCEPT !.buffer = <<>>, !.stage = -5],
        call |-> Handle(Block(p.channel, Append(p.buffer, byte)))]
  ELSE [next |-> [p EXCEPT !.buffer = Append(@, byte), !.stage = @ + 1],
        call |-> Nothing]

\* The byte of a block.  A buffer of no bytes is a null pointer to g_malloc.
BottomByte(p, byte) ==
  IF p.length = 0
  THEN [next |-> p, call |-> Fails("null_buffer")]
  ELSE IF p.stage = p.length - 1
  THEN [next |-> [p EXCEPT !.buffer = <<>>, !.stage = -4],
        call |-> Handle(Block(p.channel, Append(p.buffer, byte)))]
  ELSE [next |-> [p EXCEPT !.buffer = Append(@, byte), !.stage = @ + 1],
        call |-> Nothing]

BottomStep(p, byte) ==
  CASE p.stage = -4 ->
         [next |-> [p EXCEPT !.channel = byte, !.stage = -3], call |-> Nothing]
    [] p.stage = -3 ->
         [next |-> [p EXCEPT !.channel = @ + byte * ByteSize, !.stage = -2],
          call |-> Nothing]
    [] p.stage = -2 ->
         [next |-> [p EXCEPT !.length = byte, !.stage = -1], call |-> Nothing]
    [] p.stage = -1 ->
         [next |-> [p EXCEPT !.length = @ + byte * ByteSize, !.stage = 0],
          call |-> Nothing]
    [] p.stage < -4 ->
         IF byte # Header[p.stage + HeaderSize + 5]
         THEN [next |-> p, call |-> Fails("not_xzibit")]
         ELSE [next |-> [p EXCEPT !.stage = @ + 1],
               call |-> IF p.stage = -5 THEN Introduce ELSE Nothing]
    [] OTHER -> BottomByte(p, byte)

-----------------------------------------------------------------------------
(* check_for_fd_input.                                                     *)

FdStart == [state |-> "start", through |-> 0, channel |-> 0, length |-> 0,
            buffer |-> <<>>]

FdByte(p, byte) ==
  IF p.length = 0
  THEN [next |-> p, call |-> Fails("null_buffer")]
  ELSE IF p.through + 1 = p.length
  THEN [next |-> [p EXCEPT !.buffer = <<>>, !.through = 0, !.state = "start"],
        call |-> Handle(Block(p.channel, Append(p.buffer, byte)))]
  ELSE [next |-> [p EXCEPT !.buffer = Append(@, byte), !.through = @ + 1],
        call |-> Nothing]

\* The two bytes of the channel and of the length.
FdStep(p, byte) ==
  CASE p.state = "start" /\ p.through = 0 ->
         [next |-> [p EXCEPT !.channel = byte, !.through = 1], call |-> Nothing]
    [] p.state = "start" /\ p.through = 1 ->
         [next |-> [p EXCEPT !.channel = @ + byte * ByteSize, !.through = 0,
                             !.state = "seen_channel"],
          call |-> Nothing]
    [] p.state = "seen_channel" /\ p.through = 0 ->
         [next |-> [p EXCEPT !.length = byte, !.through = 1], call |-> Nothing]
    [] p.state = "seen_channel" /\ p.through = 1 ->
         [next |-> [p EXCEPT !.length = @ + byte * ByteSize, !.through = 0,
                             !.state = "seen_length"],
          call |-> Nothing]
    [] p.state = "seen_length" -> FdByte(p, byte)

=============================================================================
