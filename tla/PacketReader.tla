---------------------------- MODULE PacketReader ----------------------------
(***************************************************************************)
(* server_read_data in server.c: one call takes bytes from the serial line *)
(* until a packet $payload#hh is complete, acknowledges it and hands it to *)
(* process_packet, or gives up when the buffer is full.  The caller's loop *)
(* in rst8_c_trap calls it again for the next packet.                      *)
(***************************************************************************)
EXTENDS Naturals, Sequences

CONSTANTS
  Chars,        \* the bytes the line may deliver
  BufferSize,   \* sizeof(gdbserver_state.buffer)
  PacketSize    \* the PacketSize the Supported query advertises

Dollar == 36
Hash   == 35
Byte   == 0 .. 255
Offset == 0 .. BufferSize - 1

ASSUME CharsAssumption  == Chars \subseteq Byte
ASSUME BufferAssumption == BufferSize \in Nat \ {0, 1}
ASSUME PacketAssumption == PacketSize \in Nat

VARIABLES
  readState,
  buffer,
  read_offset,
  checksum_value,
  checksum,       \* checksum[0], the first digit received
  verdict,        \* what the last byte led to
  since           \* the bytes since the last $, or <<>> when there was none

vars == <<readState, buffer, read_offset, checksum_value, checksum, verdict, since>>

ReadState == {"JUNK", "PACKET_INPROGRESS", "CHECKSUM_B1", "CHECKSUM_B2"}

TypeOK ==
  /\ readState \in ReadState
  /\ buffer \in [Offset -> Byte]
  /\ read_offset \in Offset
  /\ checksum_value \in Byte
  /\ checksum \in Byte
  /\ verdict \in {"more", "accepted", "refused", "overflow"}
  /\ since \in Seq(Chars)

\* A character that is no hexadecimal digit counts as 0.
hex_nibble(c) ==
  CASE c \in 48 .. 57  -> c - 48
    [] c \in 65 .. 70  -> c - 55
    [] c \in 97 .. 102 -> c - 87
    [] OTHER           -> 0

hex_to_char(hi, lo) == 16 * hex_nibble(hi) + hex_nibble(lo)

Init ==
  /\ readState = "JUNK"
  /\ buffer = [k \in Offset |-> 0]
  /\ read_offset = 0
  /\ checksum_value = 0
  /\ checksum = 0
  /\ verdict = "more"
  /\ since = <<>>

\* server_read_data returned for one packet and is called for the next: it starts
\* again in the state JUNK, with nothing read.  Outside a call it is as fresh.
Fresh == verdict \in {"accepted", "overflow"}
Reading == IF Fresh THEN "JUNK" ELSE readState
Filled  == IF Fresh THEN 0 ELSE read_offset

\* A $ always starts a packet, wherever it comes.
StartKeepsOffset == Filled
StartOffset == 0

Start ==
  /\ readState' = "PACKET_INPROGRESS"
  /\ read_offset' = StartOffset
  /\ checksum_value' = 0
  /\ verdict' = "more"
  /\ since' = <<Dollar>>
  /\ UNCHANGED <<buffer, checksum>>

Skip ==
  /\ Reading = "JUNK"
  /\ readState' = "JUNK"
  /\ read_offset' = Filled
  /\ verdict' = "more"
  /\ since' = <<>>
  /\ UNCHANGED <<buffer, checksum_value, checksum>>

\* The loop's condition: there is room for another byte and the NUL.
RoomToTheEnd(offset) == offset < BufferSize
Room(offset) == offset < BufferSize - 1

\* A payload byte.  The one that fills the buffer ends the call in write_error,
\* which marks the end of the buffer with a $ for the console.
SumWithoutCarry(in) == IF checksum_value + in > 255 THEN 255 ELSE checksum_value + in
AddToSum(in) == (checksum_value + in) % 256

Payload(in) ==
  /\ Reading = "PACKET_INPROGRESS"
  /\ in # Hash
  /\ read_offset' = read_offset + 1
  /\ checksum_value' = AddToSum(in)
  /\ \/ /\ Room(read_offset')
        /\ verdict' = "more"
        /\ buffer' = [buffer EXCEPT ![read_offset] = in]
        /\ since' = Append(since, in)
     \/ /\ ~Room(read_offset')
        /\ verdict' = "overflow"
        /\ buffer' = [buffer EXCEPT ![read_offset] = in, ![BufferSize - 1] = Dollar]
        /\ since' = <<>>
  /\ UNCHANGED <<readState, checksum>>

EndOfPayload(in) ==
  /\ Reading = "PACKET_INPROGRESS"
  /\ in = Hash
  /\ readState' = "CHECKSUM_B1"
  /\ verdict' = "more"
  /\ since' = Append(since, in)
  /\ UNCHANGED <<buffer, read_offset, checksum_value, checksum>>

FirstDigit(in) ==
  /\ Reading = "CHECKSUM_B1"
  /\ checksum' = in
  /\ readState' = "CHECKSUM_B2"
  /\ verdict' = "more"
  /\ since' = Append(since, in)
  /\ UNCHANGED <<buffer, read_offset, checksum_value>>

\* The packet is complete: acknowledge it, terminate the payload and process it,
\* or ask for it again.
SecondDigit(in) ==
  /\ Reading = "CHECKSUM_B2"
  /\ IF checksum_value = hex_to_char(checksum, in)
       THEN /\ verdict' = "accepted"
            /\ buffer' = [buffer EXCEPT ![read_offset] = 0]
            /\ UNCHANGED readState
       ELSE /\ verdict' = "refused"
            /\ readState' = "JUNK"
            /\ UNCHANGED buffer
  /\ since' = Append(since, in)
  /\ UNCHANGED <<read_offset, checksum_value, checksum>>

Receive(in) ==
  IF in = Dollar
    THEN Start
    ELSE Skip \/ Payload(in) \/ EndOfPayload(in) \/ FirstDigit(in) \/ SecondDigit(in)

Next == \E in \in Chars : Receive(in)

Spec == Init /\ [][Next]_vars

-----------------------------------------------------------------------------
(* What a packet is, read off the bytes since the last $. *)

\* Sum(s)[n] is the checksum of the first n bytes of s.
Sum(s) ==
  LET sum[n \in 0 .. Len(s)] == IF n = 0 THEN 0 ELSE (sum[n - 1] + s[n]) % 256
  IN sum

\* The bytes are $, a payload without # of the right length, # and two digits.
Complete(s) ==
  /\ Len(s) >= 4
  /\ s[1] = Dollar /\ s[Len(s) - 2] = Hash
  /\ \A n \in 2 .. Len(s) - 3 : s[n] # Hash

PayloadOf(s) == SubSeq(s, 2, Len(s) - 3)

Correct(s) ==
  /\ Complete(s)
  /\ Sum(PayloadOf(s))[Len(s) - 4] = hex_to_char(s[Len(s) - 1], s[Len(s)])

\* Every byte is answered as the bytes since the last $ deserve, whatever came
\* before that $: a correct packet is acknowledged, and nothing else is; a
\* complete one with a wrong checksum is refused, and nothing else is.
AnswersPackets ==
  /\ verdict = "accepted" <=> Correct(since)
  /\ verdict = "refused" <=> Complete(since) /\ ~Correct(since)

\* What process_packet finds in the buffer is the payload the host sent, as a
\* string that ends where the payload ends.
PayloadDelivered ==
  verdict = "accepted" =>
    LET sent == PayloadOf(since)
    IN /\ \A n \in 1 .. Len(sent) : buffer[n - 1] = sent[n]
       /\ Len(sent) \in Offset /\ buffer[Len(sent)] = 0

\* The reader accepts payloads of the size the Supported query advertises.
AdvertisedSizeFits == [][verdict' = "overflow" => Len(since) > PacketSize]_vars
=============================================================================
