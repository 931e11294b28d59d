------------------------------ MODULE BlobCodec ------------------------------
(***************************************************************************)
(* The Kona blob encoding that manifests travel in (blob_coder.go), for    *)
(* any size of field elements and any number of rounds.                    *)
(*                                                                         *)
(* A round takes four field elements.  Each has a header byte with 6       *)
(* usable bits and FE data bytes; the 24 header bits of a round are three  *)
(* more data bytes, x, y and z, that belong after the data of the first    *)
(* three elements.  The first four data bytes of the blob are a version    *)
(* and the length.                                                         *)
(*                                                                         *)
(* The decoder's loop over output and input positions is modelled by where *)
(* each output byte comes from.  The encoder is not part of the program.   *)
(***************************************************************************)
EXTENDS Integers, Sequences

CONSTANTS
  FE,         \* data bytes of a field element (31)
  Rounds,     \* shastaBlobEncodingRounds (1024)
  Payloads,   \* the data that proposers encode
  EditValues, \* bytes that may replace one of the encoding
  MaxEdits    \* bound on the bytes of an encoding that are replaced

Byte == 0..255

ASSUME SizeAssumption == FE \in Nat /\ FE > 4 /\ Rounds \in Nat \ {0}

Span == 4 * FE + 3                          \* data bytes of a round
shastaBlobMaxDataSize == Span * Rounds - 4
shastaBytesPerBlob == 4 * (FE + 1) * Rounds

ASSUME PayloadAssumption ==
  /\ Payloads \subseteq Seq(Byte) /\ EditValues \subseteq Byte /\ MaxEdits \in Nat
  /\ \A d \in Payloads : Len(d) <= shastaBlobMaxDataSize
  /\ shastaBlobMaxDataSize < 256 * 65536   \* the length has three bytes

VARIABLES
  original,  \* what a proposer has encoded
  raw,       \* the blob, a function from 0 .. shastaBytesPerBlob - 1
  edits      \* how many of its bytes were replaced

codecVars == <<original, raw, edits>>

-----------------------------------------------------------------------------
(* Encoding (reference) *)

DataByte(d, p) == IF p < Len(d) THEN d[p + 1] ELSE 0

\* The version and the three bytes of the length.
Preamble(d) == <<0, Len(d) \div 65536, (Len(d) \div 256) % 256, Len(d) % 256>>

\* The header byte of element i in round r.
HeaderByte(d, r, i) ==
  LET x == DataByte(d, Span * r + FE - 4)
      y == DataByte(d, Span * r + 2 * FE - 3)
      z == DataByte(d, Span * r + 3 * FE - 2)
  IN  CASE i = 0 -> x % 64
        [] i = 1 -> (x \div 64) * 16 + (y % 16)
        [] i = 2 -> z % 64
        [] i = 3 -> (z \div 64) * 16 + y \div 16

Encode(d) ==
  [n \in 0..(shastaBytesPerBlob - 1) |->
     LET r == n \div (4 * (FE + 1))
         i == (n \div (FE + 1)) % 4
         b == n % (FE + 1)
         p == Span * r + (FE + 1) * i + (b - 1) - 4
     IN  IF b = 0 THEN HeaderByte(d, r, i)
         ELSE IF p < 0 THEN Preamble(d)[p + 5] ELSE DataByte(d, p)]

-----------------------------------------------------------------------------
(* Decoding *)

ElementHeader(blob, r, i) == blob[(4 * r + i) * (FE + 1)]

\* Mutation: the halves of y are swapped.
reassembleSwapped(blob, r, k) ==
  LET e == [i \in 0..3 |-> ElementHeader(blob, r, i)]
  IN  CASE k = 0 -> (e[0] % 64) + ((e[1] \div 16) % 4) * 64
        [] k = 1 -> (e[3] % 16) + (e[1] % 16) * 16
        [] k = 2 -> (e[2] % 64) + ((e[3] \div 16) % 4) * 64

\* reassembleShastaBlobEncodedBytes: x, y or z of round r, for k = 0, 1 or 2.
reassemble(blob, r, k) ==
  LET e == [i \in 0..3 |-> ElementHeader(blob, r, i)]
  IN  CASE k = 0 -> (e[0] % 64) + ((e[1] \div 16) % 4) * 64
        [] k = 1 -> (e[1] % 16) + (e[3] % 16) * 16
        [] k = 2 -> (e[2] % 64) + ((e[3] \div 16) % 4) * 64

\* output[p], once the round it lies in is decoded.
OutputByte(blob, p) ==
  LET r == (p + 4) \div Span
      k == (p + 4) % Span
      i == k \div (FE + 1)
      j == k % (FE + 1)
  IN  IF j < FE THEN blob[(4 * r + i) * (FE + 1) + 1 + j] ELSE reassemble(blob, r, i)

DeclaredLength(blob) == blob[2] * 65536 + blob[3] * 256 + blob[4]

\* The first round, and more while the output is shorter than the length.
RoundsDecoded(length) == (length + 4 + Span - 1) \div Span

\* Mutation: what follows the data in its last round is not looked at.
TailIsZeroRaw(blob, length, rounds) ==
  \A n \in 4 * (FE + 1) * rounds .. shastaBytesPerBlob - 1 : blob[n] = 0

\* Nothing follows the data, neither in the output nor in the blob.
TailIsZero(blob, length, rounds) ==
  /\ \A p \in length .. Span * rounds - 5 : OutputByte(blob, p) = 0
  /\ \A n \in 4 * (FE + 1) * rounds .. shastaBytesPerBlob - 1 : blob[n] = 0

\* decodeShastaBlob returns no error.  The first header byte is used as it is.
Decodes(blob) ==
  /\ blob[1] = 0
  /\ DeclaredLength(blob) <= shastaBlobMaxDataSize
  /\ LET rounds == RoundsDecoded(DeclaredLength(blob))
     IN  /\ \A e \in 1 .. 4 * rounds - 1 : ElementHeader(blob, e \div 4, e % 4) < 64
         /\ TailIsZero(blob, DeclaredLength(blob), rounds)

decodeShastaBlob(blob) ==
  [p \in 1..DeclaredLength(blob) |-> OutputByte(blob, p - 1)]

-----------------------------------------------------------------------------
(* A blob on its way *)

CodecInit ==
  /\ original \in Payloads
  /\ raw = Encode(original)
  /\ edits = 0

\* A blob that no encoder has made.
Edit(n, value) ==
  /\ edits < MaxEdits
  /\ raw[n] # value
  /\ raw' = [raw EXCEPT ![n] = value]
  /\ edits' = edits + 1
  /\ UNCHANGED original

\* The blob as it was made is read again.
Restore ==
  /\ edits = MaxEdits
  /\ raw' = Encode(original) /\ edits' = 0
  /\ UNCHANGED original

CodecNext ==
  \/ \E n \in 0..(shastaBytesPerBlob - 1), value \in EditValues : Edit(n, value)
  \/ Restore

CodecSpec == CodecInit /\ [][CodecNext]_codecVars

-----------------------------------------------------------------------------
(* Properties *)

\* What an encoder has made decodes to the data, for every length from none to the
\* maximum: every bit of the headers finds its byte again, and the decoder stops
\* in the round where the encoder did.
RoundTrip == edits = 0 => Decodes(raw) /\ decodeShastaBlob(raw) = original

\* A blob that decodes is the encoding of what it decodes to: no stray byte, in the
\* last round or after it, and no longer length is accepted.  Only the upper bits of
\* the very first byte are not looked at.
OneEncoding ==
  Decodes(raw) =>
    LET made == Encode(decodeShastaBlob(raw))
    IN  /\ raw[0] % 64 = made[0]
        /\ \A n \in 1..(shastaBytesPerBlob - 1) : raw[n] = made[n]

=============================================================================
