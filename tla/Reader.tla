------------------------------- MODULE Reader -------------------------------
(***************************************************************************)
(* ByteArrayReader and WASMReader: what is read at a cursor.  The bytes that   *)
(* may be read are a sequence s, the buffer up to its end or to the barrier;    *)
(* a cursor p counts the bytes consumed.  Reading gives the cursor after and    *)
(* the value; the cursors Refused and Aborted stand for a ParserError and for   *)
(* an assertion that failed, and reading goes no further from them.              *)
(***************************************************************************)
EXTENDS Integers, Opcodes, SequencesExt

CONSTANTS Width32, Width64   \* the bits of the 32 and 64 bit integers

ASSUME Width32 \in Nat \ {0} /\ Width64 \in Nat \ {0}

Refused == -1
Aborted == -2

Result(at, value) == [at |-> at, value |-> value]
Stop(at) == Result(at, 0)

(* What follows a reading, if it did not stop; and the test of a value. *)
Then(r, Rest(_, _)) == IF r.at < 0 THEN r ELSE Rest(r.value, r.at)
Checked(ok, at, value) == IF ok THEN Result(at, value) ELSE Stop(Refused)

(****************************** ByteArrayReader ******************************)

(* assertValidPos. *)
readBytes(s, p, n) == Checked(p + n <= Len(s), p + n, SubSeq(s, p + 1, p + n))
read(s, p) == Then(readBytes(s, p, 1), LAMBDA bytes, at : Result(at, bytes[1]))
hasMoreBytes(s, p) == p < Len(s)

(* setBarrier looks at the end of the buffer, not at a barrier already there. *)
setBarrier(buffer, p, n) == Checked(p + n <= Len(buffer), p, p + n)

(********************************** LEB128 **********************************)

(* The bytes of a number: up to the first without its continuation bit. *)
Lengths(s, p, longest) ==
  { k \in 1..longest : /\ p + k <= Len(s) /\ s[p + k] < 128
                       /\ \A j \in 1..(k - 1) : s[p + j] >= 128 }
readDigits(s, p, longest) ==
  IF Lengths(s, p, longest) = {} THEN Stop(Refused)
  ELSE readBytes(s, p, CHOOSE k \in Lengths(s, p, longest) : TRUE)
Number(digits) == FoldLeft(LAMBDA v, b : v * 128 + (b % 128), 0, Reverse(digits))
MaxBytes(width) == (width + 6) \div 7

\* A plausible slip, for the mutants: the last byte the width needs is refused.
readULEB128Shorter(s, p, width) ==
  Then(readDigits(s, p, width \div 7), LAMBDA digits, at : Result(at, Number(digits) % 2^width))

(* Bits beyond the width are shifted out. *)
readULEB128(s, p, width) ==
  Then(readDigits(s, p, MaxBytes(width)), LAMBDA digits, at : Result(at, Number(digits) % 2^width))

Signed(v, width) == IF v % 2^width >= 2^(width - 1) THEN (v % 2^width) - 2^width ELSE v % 2^width
Extension(digits, width) ==
  IF Last(digits) % 128 >= 64 /\ 7 * Len(digits) < width THEN 2^(7 * Len(digits)) ELSE 0

\* A plausible slip, for the mutants: the sign of a short number is not extended.
readSLEB128Unextended(s, p, width, beyond) ==
  Then(readDigits(s, p, Len(s)), LAMBDA digits, at :
    Result(at, IF Len(digits) > MaxBytes(width) THEN beyond ELSE Signed(Number(digits), width)))

(* The signed reader does not count its bytes: one beyond the width is shifted
   by more than the width, which may give any value, here the argument beyond. *)
readSLEB128(s, p, width, beyond) ==
  Then(readDigits(s, p, Len(s)), LAMBDA digits, at :
    Result(at, IF Len(digits) > MaxBytes(width) THEN beyond ELSE Signed(Number(digits) - Extension(digits, width), width)))

readULEB128Int32(s, p) == readULEB128(s, p, Width32)

(********************************** compounds *********************************)

(* NumEntries, then that many of what Item reads.  An entry takes a byte at
   least, so that the entries read are no more than the bytes left. *)
readMany(Item(_, _), s, p) ==
  Then(readULEB128Int32(s, p), LAMBDA num, at :
    LET upTo[i \in Nat] ==
          IF i = 0 THEN Result(at, <<>>)
          ELSE Then(upTo[i - 1], LAMBDA entries, next :
                 Then(Item(s, next), LAMBDA entry, end : Result(end, Append(entries, entry)))) IN
    upTo[IF num > Len(s) - at THEN Len(s) - at + 1 ELSE num])

(* utf8::find_invalid of the utf8 library: the well-formed sequences of
   the encoding, without surrogates and overlong forms. *)
Continues(s, i, n) == i + n <= Len(s) /\ \A j \in 1..n : s[i + j] \in \h80..\hBF
ValidUTF8(s) ==
  LET from[i \in 1..(Len(s) + 1)] ==
        \/ i > Len(s)
        \/ s[i] < \h80 /\ from[i + 1]
        \/ s[i] \in \hC2..\hDF /\ Continues(s, i, 1) /\ from[i + 2]
        \/ /\ s[i] \in \hE0..\hEF /\ Continues(s, i, 2) /\ from[i + 3]
           /\ s[i] = \hE0 => s[i + 1] >= \hA0
           /\ s[i] = \hED => s[i + 1] < \hA0
        \/ /\ s[i] \in \hF0..\hF4 /\ Continues(s, i, 3) /\ from[i + 4]
           /\ s[i] = \hF0 => s[i + 1] >= \h90
           /\ s[i] = \hF4 => s[i + 1] < \h90 IN
  from[1]

readUTF8StringVector(s, p) ==
  Then(readULEB128Int32(s, p), LAMBDA size, at :
    Then(readBytes(s, at, size), LAMBDA name, end : Checked(ValidUTF8(name), end, name)))

ValueTypeByte == \h7F :> "I32" @@ \h7E :> "I64" @@ \h7D :> "F32" @@ \h7C :> "F64" @@ \h7B :> "V128"
readValueType(s, p) ==
  Then(read(s, p), LAMBDA byte, at : Checked(byte \in DOMAIN ValueTypeByte, at, ValueTypeByte[byte]))

readFunctionType(s, p) ==
  Then(read(s, p), LAMBDA magic, at :
    Then(readMany(readValueType, s, at), LAMBDA params, next :
      Then(readMany(readValueType, s, next), LAMBDA results, end :
        Checked(magic = \h60, end, [params |-> params, results |-> results]))))

(* readMemoryType, and readTableType after its element type.  MemoryType and
   TableType assert that the maximum is not below the minimum. *)
Limits(min, max) == [min |-> min, max |-> max]
readLimits(s, p) ==
  Then(read(s, p), LAMBDA magic, at :
    Then(readULEB128Int32(s, at), LAMBDA min, next :
      CASE magic = 0 -> Result(next, Limits(min, {}))
        [] magic = 1 -> Then(readULEB128Int32(s, next), LAMBDA max, end :
                          IF max < min THEN Stop(Aborted) ELSE Result(end, Limits(min, {max})))
        [] OTHER -> Stop(Refused)))
readTableType(s, p) ==
  Then(read(s, p), LAMBDA elem, at : IF elem = \h70 THEN readLimits(s, at) ELSE Stop(Refused))

readGlobalType(s, p) ==
  Then(readValueType(s, p), LAMBDA type, at :
    Then(read(s, at), LAMBDA mut, end : Checked(mut \in {0, 1}, end, [type |-> type, var |-> mut = 1])))

readIndex(s, p) == Then(readULEB128Int32(s, p), LAMBDA index, at : Result(at, [index |-> index]))

Described(kind, r) == Then(r, LAMBDA type, at : Result(at, [kind |-> kind, type |-> type]))
readImportDescriptor(s, p) ==
  Then(read(s, p), LAMBDA magic, at :
    CASE magic = 0 -> Described("function", readIndex(s, at))
      [] magic = 1 -> Described("table", readTableType(s, at))
      [] magic = 2 -> Described("memory", readLimits(s, at))
      [] magic = 3 -> Described("global", readGlobalType(s, at))
      [] OTHER -> Stop(Refused))

DescriptorKind == 0 :> "function" @@ 1 :> "table" @@ 2 :> "memory" @@ 3 :> "global"
readExportDescriptor(s, p) ==
  Then(read(s, p), LAMBDA magic, at :
    Then(readULEB128Int32(s, at), LAMBDA index, end :
      Checked(magic \in 0..3, end, [kind |-> DescriptorKind[magic], index |-> index])))

(* A block has no result, one, or the type of an index, which is -1 else. *)
BlockType(results, index) == [results |-> results, index |-> index]
readBlockResultType(s, p, beyond) ==
  Then(read(s, p), LAMBDA first, at :
    CASE first = \h40 -> Result(at, BlockType(<<>>, -1))
      [] first \in \h41..\h7F -> Then(readValueType(s, p), LAMBDA type, end : Result(end, BlockType(<<type>>, -1)))
      [] OTHER -> Then(readSLEB128(s, p, Width64, beyond), LAMBDA index, end :
                    Checked(index > 0 /\ index < 2^Width32 - 1, end, BlockType(<<>>, index))))
=============================================================================
