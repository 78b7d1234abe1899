------------------------------ MODULE Storage -------------------------------
(* The byte buffer of the TraCI protocol, after foreign/tcpip/storage.cpp.      *)
(* What is written is a sequence of bytes, most significant byte first.  A      *)
(* buffer that is read is a record: its bytes, how many of them are read        *)
(* (iter_), what has been thrown while reading it ("" when nothing), and the    *)
(* value that the last read returned.  A double is the image of its eight bytes *)
(* in the memory of a little endian machine.                                    *)
EXTENDS Integers, Sequences, SequencesExt

Byte == 0..255

-----------------------------------------------------------------------------
(* Writing.                                                                   *)

\* A value out of range throws: nothing with this mark in it is ever sent.
OutOfRange == <<-1>>

writeUnsignedByte(value) == IF value \in Byte THEN <<value>> ELSE OutOfRange

writeByte(value) == IF value \in -128..127 THEN <<(value + 256) % 256>> ELSE OutOfRange

writeInt(value) ==
  <<(value \div 16777216) % 256, (value \div 65536) % 256, (value \div 256) % 256, value % 256>>

\* writeByEndianess on a little endian machine: the last byte in memory is the first one sent.
writeDouble(image) == Reverse(image)

writeString(s) == writeInt(Len(s)) \o s

writeStringList(list) ==
  FoldLeft(LAMBDA bytes, s : bytes \o writeString(s), writeInt(Len(list)), list)

-----------------------------------------------------------------------------
(* Reading.                                                                   *)

\* A storage with the given content, its iterator at the first byte.
Storage(bytes) == [store |-> bytes, iter |-> 0, thrown |-> "", value |-> <<>>]

Remaining(s) == Len(s.store) - s.iter

checkReadSafe(s, num) == Remaining(s) >= num

Throws(s) == s.thrown # ""

\* The first exception ends the reading.
Throw(s, exception) == IF Throws(s) THEN s ELSE [s EXCEPT !.thrown = exception]

\* Reads num bytes and returns Value of them; throws when there are not as many, or has thrown before.
Read(s, num, Value(_)) ==
  IF Throws(s) \/ ~checkReadSafe(s, num)
    THEN Throw(s, "invalid_argument")
    ELSE [s EXCEPT !.iter = @ + num, !.value = Value(SubSeq(s.store, s.iter + 1, s.iter + num))]

readUnsignedByte(s) == Read(s, 1, LAMBDA b : b[1])

readByte(s) == Read(s, 1, LAMBDA b : IF b[1] < 128 THEN b[1] ELSE b[1] - 256)

readInt(s) ==
  Read(s, 4, LAMBDA b : (IF b[1] < 128 THEN b[1] ELSE b[1] - 256) * 16777216
                          + b[2] * 65536 + b[3] * 256 + b[4])

\* readByEndianess: the first byte received is the last one in memory.
readDouble(s) == Read(s, 8, Reverse)

\* Goes on with a storage unless it has thrown.
Then(s, Continued(_)) == IF Throws(s) THEN s ELSE Continued(s)

readString(s) == Then(readInt(s), LAMBDA r : Read(r, r.value, LAMBDA b : b))

\* The values read so far with the one that has been read after them.
Appended(values, next) == IF Throws(next) THEN next ELSE [next EXCEPT !.value = Append(values, @)]

\* Reads n values with Reader; the value is the sequence of them.
ReadMany(s, n, Reader(_)) ==
  FoldLeft(LAMBDA r, i : Appended(r.value, Reader(r)), [s EXCEPT !.value = <<>>], [i \in 1..n |-> i])

readStringList(s) == Then(readInt(s), LAMBDA r : ReadMany(r, r.value, readString))

\* Lengths and sizes of the protocol: a byte of zero is followed by the length as an integer.
LongForm(short) == IF ~Throws(short) /\ short.value = 0 THEN readInt(short) ELSE short

readLength(s) == LongForm(readUnsignedByte(s))
=============================================================================
