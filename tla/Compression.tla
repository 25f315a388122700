---------------------------- MODULE Compression ----------------------------
(* The compressed form of a binary program.  The compressor replaces a run   *)
(* it has seen in the current block by the distance to it, counted not in    *)
(* bytes but in ITEMS, where an item is a literal byte or a whole reference; *)
(* the decompressor must number items in exactly the same way.  One state is *)
(* one position of the encoder or one tag of the decoder.  A byte has        *)
(* 2 * Half bits here and a block BlockSize bytes; every limit of the code   *)
(* is scaled with them.                                                      *)
EXTENDS Naturals, Sequences, SequencesExt, FiniteSetsExt

CONSTANTS Half,        \* half the bits of a byte: a tag gives each count Half bits
          BlockSize, TableSize,
          MinMatch,    \* the shortest run that is referenced, 4 in the code
          MaxLiterals, \* 2047 in the code
          HashRange,   \* how many values the hash has
          Inputs,      \* the byte sequences to compress
          Limits,      \* how far a decompression limit stays below the input's length
          Damaged      \* the bytes a damaged stream may have in one place

VARIABLES input, rest, phase, stream, block, position, number, literal, chains, free, checksum, decoder

vars == <<input, rest, phase, stream, block, position, number, literal, chains, free, checksum, decoder>>

ASSUME SizeAssumption ==
  /\ {Half, BlockSize, TableSize, MinMatch, MaxLiterals, HashRange} \subseteq Nat \ {0}
  /\ MinMatch > 1 /\ BlockSize < 2 ^ ((2 * Half - 1) * Half)

ASSUME InputAssumption ==
  /\ Inputs \subseteq Seq(Nat)
  /\ Limits \subseteq Nat
  /\ Damaged \subseteq Nat

Byte == 2 ^ (2 * Half)
Short == 2 ^ Half - 1
None == [length |-> 0, size |-> 0, number |-> 0]

(* The hash is a function of the bytes and a seed; equal bytes collide with *)
(* others as soon as there are more of them than HashRange.                 *)
Hash(bytes, seed) ==
  LET mixed[n \in 0 .. Len(bytes)] ==
        IF n = 0 THEN (seed + Len(bytes)) % HashRange ELSE (mixed[n - 1] * 3 + bytes[n] + 1) % HashRange
  IN  mixed[Len(bytes)]

KeyOf(bytes) == Hash(bytes, 1) % TableSize

Seed == 2 % HashRange

-----------------------------------------------------------------------------
(* Numbers: the position of the highest bit gives how many bytes follow.    *)

IntegerSize(value) == CHOOSE c \in 1 .. Half : value < 2 ^ ((2 * Half - 1) * c)
                                              /\ \A d \in 1 .. c - 1 : value >= 2 ^ ((2 * Half - 1) * d)

Integer(value) ==
  LET count == IntegerSize(value)
  IN  <<2 ^ (2 * Half - count) + (value \div 2 ^ (2 * Half * (count - 1)))>>
        \o [n \in 1 .. count - 1 |-> (value \div 2 ^ (2 * Half * (count - 1 - n))) % Byte]

(* How many bytes a number with this first byte has; Half + 1 if none. *)
NumberCount(first) == Min({c \in 1 .. Half : first \div 2 ^ (2 * Half - c) = 1} \cup {Half + 1})

NumberValue(bytes, count) ==
  LET value[n \in 0 .. count - 1] ==
        IF n = 0 THEN bytes[1] % 2 ^ (2 * Half - count) ELSE value[n - 1] * Byte + bytes[n + 1]
  IN  value[count - 1]

Number(bytes) ==
  IF bytes = <<>> \/ NumberCount(Head(bytes)) > Min({Half, Len(bytes)})
  THEN [ok |-> FALSE, value |-> 0, rest |-> <<>>]
  ELSE [ok |-> TRUE, value |-> NumberValue(bytes, NumberCount(Head(bytes))),
        rest |-> SubSeq(bytes, NumberCount(Head(bytes)) + 1, Len(bytes))]

-----------------------------------------------------------------------------
(* The compressor.  A chain is the list of table entries of one hash key,   *)
(* newest first; the table has TableSize entries for all of them together.  *)

Flushed(reference) ==
  LET length == Len(literal)
  IN  IF length = 0 /\ reference = 0 THEN <<>>
      ELSE <<Min({length, Short}) * 2 ^ Half + reference>>
             \o (IF length >= Short THEN Integer(length) ELSE <<>>) \o literal

(* With no free entry the oldest of the key's own chain gives way, and a    *)
(* key without a chain is not entered at all.                               *)
Insert ==
  /\ number' = number + 1
  /\ IF position + MinMatch > Len(block) THEN UNCHANGED <<chains, free>>
     ELSE LET key == KeyOf(SubSeq(block, position + 1, position + MinMatch))
              entry == [position |-> position, number |-> number]
          IN  /\ free' = IF free > 0 THEN free - 1 ELSE 0
              /\ chains' = [chains EXCEPT ![key] = IF free > 0 THEN <<entry>> \o @
                                                    ELSE IF @ = <<>> THEN @ ELSE <<entry>> \o Front(@)]

(* A match that may run into the bytes it is about to replace. *)
MatchLengthOverlapping(earlier) ==
  Max({l \in 0 .. Len(block) - position : \A n \in 1 .. l : block[earlier + n] = block[position + n]})

(* How far the bytes at an earlier position agree with those at this one,   *)
(* never running into the position itself.                                  *)
MatchLength(earlier) ==
  LET bound == Min({Len(block) - position, position - earlier})
  IN  Max({l \in 0 .. bound : \A n \in 1 .. l : block[earlier + n] = block[position + n]})

ReferenceSize(length, distance) ==
  IntegerSize(distance) + (IF length - MinMatch + 1 < Short THEN 0 ELSE IntegerSize(length - MinMatch + 1))

Better(best, entry) ==
  LET length == MatchLength(entry.position)
      size == ReferenceSize(length, number - entry.number)
  IN  IF length >= MinMatch /\ (best = None \/ best.length + size < length + best.size)
      THEN [length |-> length, size |-> size, number |-> entry.number] ELSE best

BestMatch ==
  IF position + MinMatch > Len(block) THEN None
  ELSE LET chain == chains[KeyOf(SubSeq(block, position + 1, position + MinMatch))]
           best[n \in 0 .. Len(chain)] == IF n = 0 THEN None ELSE Better(best[n - 1], chain[n])
       IN  best[Len(chain)]

NextBlock ==
  /\ phase = "blocks" /\ rest # <<>>
  /\ LET size == Min({BlockSize, Len(rest)})
     IN  /\ block' = SubSeq(rest, 1, size)
         /\ rest' = SubSeq(rest, size + 1, Len(rest))
         /\ checksum' = Hash(SubSeq(rest, 1, size), checksum)
  /\ phase' = "encode" /\ position' = 0 /\ number' = 0
  /\ chains' = [k \in 0 .. TableSize - 1 |-> <<>>] /\ free' = TableSize
  /\ UNCHANGED <<input, stream, literal, decoder>>

EncodeLiteral ==
  /\ phase = "encode" /\ position < Len(block) /\ BestMatch = None
  /\ IF Len(literal) = MaxLiterals
     THEN stream' = stream \o Flushed(0) /\ literal' = <<block[position + 1]>>
     ELSE literal' = Append(literal, block[position + 1]) /\ UNCHANGED stream
  /\ Insert
  /\ position' = position + 1
  /\ UNCHANGED <<input, rest, phase, block, checksum, decoder>>

EncodeReference ==
  /\ phase = "encode" /\ position < Len(block) /\ BestMatch # None
  /\ LET length == BestMatch.length - MinMatch + 1
     IN  stream' = stream \o Flushed(Min({length, Short}))
                     \o (IF length >= Short THEN Integer(length) ELSE <<>>)
                     \o Integer(number - BestMatch.number)
  /\ literal' = <<>>
  /\ Insert
  /\ position' = position + BestMatch.length
  /\ UNCHANGED <<input, rest, phase, block, checksum, decoder>>

EndBlock ==
  /\ phase = "encode" /\ position = Len(block)
  /\ stream' = stream \o Flushed(0) /\ literal' = <<>> /\ phase' = "blocks"
  /\ UNCHANGED <<input, rest, block, position, number, chains, free, checksum, decoder>>

Finish ==
  /\ phase = "blocks" /\ rest = <<>>
  /\ stream' = stream \o <<0, checksum>> /\ phase' = "written"
  /\ UNCHANGED <<input, rest, block, position, number, literal, chains, free, checksum, decoder>>

-----------------------------------------------------------------------------
(* The decompressor works on what is left of the stream, the bytes of its   *)
(* current block, and the position in it of every item numbered so far.     *)

Fresh(bytes, maximum) ==
  [rest |-> bytes, block |-> <<>>, indices |-> <<>>, checksum |-> Seed, output |-> <<>>,
   maximum |-> maximum, status |-> "reading"]

Refuse(d) == [d EXCEPT !.status = "refused"]

AppendBlock(d) ==
  IF Len(d.block) > d.maximum - Len(d.output) THEN Refuse(d) ELSE [d EXCEPT !.output = @ \o d.block]

Close(d) ==
  IF Len(d.rest) # 1 \/ Head(d.rest) # (IF d.block = <<>> THEN d.checksum ELSE Hash(d.block, d.checksum))
  THEN Refuse(d)
  ELSE LET a == AppendBlock(d) IN IF a.status = "refused" THEN a ELSE [a EXCEPT !.status = "done"]

CopyLiterals(d, count) ==
  IF count > MaxLiterals \/ count > BlockSize - Len(d.block) \/ count > Len(d.rest) THEN Refuse(d)
  ELSE [d EXCEPT !.rest = SubSeq(@, count + 1, Len(@)),
                 !.block = @ \o SubSeq(d.rest, 1, count),
                 !.indices = @ \o [n \in 1 .. count |-> Len(d.block) + n - 1]]

Literals(d, count) ==
  IF count < Short THEN CopyLiterals(d, count)
  ELSE LET n == Number(d.rest)
       IN  IF ~n.ok THEN Refuse(d) ELSE CopyLiterals([d EXCEPT !.rest = n.rest], n.value)

(* A reference counted once for every byte it covers. *)
CopyItemPerByte(d, length, source) ==
  IF source > Len(d.block) \/ length > Len(d.block) - source THEN Refuse(d)
  ELSE [d EXCEPT !.block = @ \o SubSeq(@, source + 1, source + length),
                 !.indices = @ \o [n \in 1 .. length |-> Len(d.block) + n]]

CopyItem(d, length, source) ==
  IF source > Len(d.block) \/ length > Len(d.block) - source THEN Refuse(d)
  ELSE [d EXCEPT !.block = @ \o SubSeq(@, source + 1, source + length),
                 !.indices = Append(@, Len(d.block))]

CopyRun(d, count) ==
  IF count = 0 \/ count + MinMatch - 1 > BlockSize - Len(d.block) THEN Refuse(d)
  ELSE LET n == Number(d.rest)
       IN  IF ~n.ok \/ n.value = 0 \/ n.value > Len(d.indices) THEN Refuse(d)
           ELSE CopyItem([d EXCEPT !.rest = n.rest], count + MinMatch - 1, d.indices[Len(d.indices) - n.value + 1])

Reference(d, count) ==
  IF d.status = "refused" \/ count = 0 THEN d
  ELSE IF count < Short THEN CopyRun(d, count)
  ELSE LET n == Number(d.rest)
       IN  IF ~n.ok THEN Refuse(d) ELSE CopyRun([d EXCEPT !.rest = n.rest], n.value)

(* A full block is appended at once and the numbering starts again. *)
Roll(d) ==
  IF d.status = "refused" \/ Len(d.block) # BlockSize THEN d
  ELSE LET a == AppendBlock(d)
       IN  IF a.status = "refused" THEN a
           ELSE [a EXCEPT !.checksum = Hash(d.block, @), !.block = <<>>, !.indices = <<>>]

DecodeTag(d, tag) == Roll(Reference(Literals(d, tag \div 2 ^ Half), tag % 2 ^ Half))

Decompress ==
  /\ phase = "written"
  /\ \E cut \in Limits : cut <= Len(input) /\ decoder' = Fresh(stream, Len(input) - cut)
  /\ phase' = "decode"
  /\ UNCHANGED <<input, rest, stream, block, position, number, literal, chains, free, checksum>>

(* The stream was damaged or cut short since it was written. *)
Damage ==
  /\ phase = "written"
  /\ \/ \E i \in 1 .. Len(stream), b \in Damaged : b # stream[i] /\ stream' = [stream EXCEPT ![i] = b]
     \/ \E i \in 0 .. Len(stream) - 1 : stream' = SubSeq(stream, 1, i)
  /\ decoder' = Fresh(stream', Len(input))
  /\ phase' = "damaged"
  /\ UNCHANGED <<input, rest, block, position, number, literal, chains, free, checksum>>

Decode ==
  /\ phase \in {"decode", "damaged"} /\ decoder.status = "reading"
  /\ decoder' = IF decoder.rest = <<>> THEN Refuse(decoder)
                ELSE IF Head(decoder.rest) = 0 THEN Close([decoder EXCEPT !.rest = Tail(@)])
                ELSE DecodeTag([decoder EXCEPT !.rest = Tail(@)], Head(decoder.rest))
  /\ UNCHANGED <<input, rest, phase, stream, block, position, number, literal, chains, free, checksum>>

Init ==
  /\ input \in Inputs /\ rest = input
  /\ phase = "blocks" /\ stream = <<>> /\ block = <<>> /\ position = 0 /\ number = 0 /\ literal = <<>>
  /\ chains = [k \in 0 .. TableSize - 1 |-> <<>>] /\ free = TableSize /\ checksum = Seed
  /\ decoder = Fresh(<<>>, 0)

Next == NextBlock \/ EncodeLiteral \/ EncodeReference \/ EndBlock \/ Finish \/ Decompress \/ Damage \/ Decode

Spec == Init /\ [][Next]_vars

-----------------------------------------------------------------------------
(* An undamaged stream gives back exactly the bytes it was made from when    *)
(* the limit admits them, and is refused otherwise (compress, decompress).   *)
RoundTrip ==
  phase = "decode" /\ decoder.status # "reading" =>
    IF decoder.maximum >= Len(input) THEN decoder.status = "done" /\ decoder.output = input
    ELSE decoder.status = "refused"

(* Whatever a stream holds, the decompressor stays inside its block, inside  *)
(* its table of item positions and inside the caller's limit, every item it  *)
(* has numbered lies in the bytes it has produced, and items are numbered in *)
(* the order of their positions (Decompressor::run).                         *)
DecoderBounded ==
  /\ Len(decoder.block) < BlockSize \/ decoder.status = "refused"
  /\ Len(decoder.indices) <= Len(decoder.block)
  /\ Len(decoder.output) <= decoder.maximum
  /\ \A i \in 1 .. Len(decoder.indices) :
       /\ decoder.indices[i] < Len(decoder.block)
       /\ i > 1 => decoder.indices[i - 1] < decoder.indices[i]
=============================================================================
