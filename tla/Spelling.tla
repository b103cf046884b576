-------------------------------- MODULE Spelling --------------------------------
(***************************************************************************)
(* What the bytes of a module are, said from the module: a sequence of tokens,  *)
(* which an encoder turns into bytes and a matcher finds in bytes.  Neither uses  *)
(* the readers.  The bytes of opcodes are those Instruction.defs declares.       *)
(***************************************************************************)
EXTENDS Parser

(****************************** Instruction.defs *****************************)


Spelled(prefix, table) ==
  [op \in Range(table) |-> prefix \o << CHOOSE b \in DOMAIN table : table[b] = op >>]

Numeric ==
  Rows(<< Row(\h41, << <<"I32", "Const">>, <<"I64", "Const">>, <<"F32", "Const">>, <<"F64", "Const">> >>),
          Row(\h45, Of("I32", <<"Eqz">> \o IntTests)), Row(\h50, Of("I64", <<"Eqz">> \o IntTests)),
          Row(\h5B, Of("F32", FPTests)), Row(\h61, Of("F64", FPTests)),
          Row(\h67, Of("I32", IntArithmetic)), Row(\h79, Of("I64", IntArithmetic)),
          Row(\h8B, Of("F32", FPArithmetic)), Row(\h99, Of("F64", FPArithmetic)) >>)

(* An operation on lanes stands at the same distance from the first of its shape
   in all shapes; a shape lacks some, and the others keep their places. *)
Gap == <<"none">>
IntLaneRow(first, s, third, wider, narrower) ==
  Row(first, Of(s, <<"Abs", "Neg", third, "AllTrue", "Bitmask">>) \o From(s, "Narrow", <<wider>>) \o Wider(s, narrower)
            \o Of(s, SaturatingLane) \o <<Gap>> \o Of(s, <<"Mul">> \o MinMax \o <<"DotI16x8S", "AvgrU">> \o ExtMuls))
FPLaneRow(first, s) == Row(first, Of(s, <<"Abs", "Neg">>) \o <<Gap>> \o Of(s, <<"Sqrt", "Add", "Sub">> \o LaneArithmetic))
Rounding ==
  Rows(<< Row(\h67, Of("F32x4", <<"Ceil", "Floor", "Trunc", "Nearest">>)), Row(\h74, Of("F64x2", <<"Ceil", "Floor">>)),
          Row(\h7A, Of("F64x2", <<"Trunc">>)), Row(\h94, Of("F64x2", <<"Nearest">>)),
          Row(\h7C, Of("I16x8", <<"ExtAddPairwiseS", "ExtAddPairwiseU">>)),
          Row(\h7E, Of("I32x4", <<"ExtAddPairwiseS", "ExtAddPairwiseU">>)),
          Row(\hF8, From("I32x4", "TruncSat", <<"F32x4">>) \o From("F32x4", "Convert", <<"I32x4">>)
                   \o From("I32x4", "TruncSatZero", <<"F64x2">>) \o From("F64x2", "ConvertLow", <<"I32x4">>)) >>)

Declared ==
  Rows(<< Spelled(<<>>, ControlBytes), Spelled(<<>>, MemoryBytes), Spelled(<<>>, Numeric), Spelled(<<>>, ConversionBytes),
          Spelled(<<\hFC>>, SaturationBytes),
          Spelled(<<\hFD>>, VectorAccessBytes), Spelled(<<\hFD>>, LaneTestBytes), Spelled(<<\hFD>>, Rounding),
          Spelled(<<\hFD>>, IntLaneRow(\h60, "I8x16", "Popcnt", "I16x8", "none")),
          Spelled(<<\hFD>>, IntLaneRow(\h80, "I16x8", "Q15MulRSatS", "I32x4", "I8x16")),
          Spelled(<<\hFD>>, IntLaneRow(\hA0, "I32x4", "none", "none", "I16x8")),
          Spelled(<<\hFD>>, IntLaneRow(\hC0, "I64x2", "none", "none", "I32x4")),
          Spelled(<<\hFD>>, FPLaneRow(\hE0, "F32x4")), Spelled(<<\hFD>>, FPLaneRow(\hEC, "F64x2")) >>)

(*********************************** tokens ***********************************)

Token(kind, value, width, body) == [kind |-> kind, value |-> value, width |-> width, body |-> body]
Bytes(s)      == [i \in DOMAIN s |-> Token("byte", s[i], 0, <<>>)]
Unread         == << Token("any", 0, 0, <<>>) >>
U(n)          == << Token("unsigned", n, Width32, <<>>) >>
S(n, width)   == << Token("signed", n, width, <<>>) >>
(* The size of body, then body: the last entry of the code section may go
   beyond the end of the section. *)
Sizing(body)  == << Token("sized", 0, Width32, body) >>
Loosely(body) == << Token("loosely sized", 0, Width32, body) >>
Many(Spell(_), s) == U(Len(s)) \o Each(Spell, s)
Text(name)    == U(Len(name)) \o Bytes(name)

TypeByte == [I32 |-> \h7F, I64 |-> \h7E, F32 |-> \h7D, F64 |-> \h7C, V128 |-> \h7B]
Flag(b) == Bytes(<< IF b THEN 1 ELSE 0 >>)
Type(t) == Bytes(<< TypeByte[t] >>)
FunctionType(f) == Bytes(<<\h60>>) \o Many(Type, f.params) \o Many(Type, f.results)
LimitsOf(l) == Flag(l.max # {}) \o U(l.min) \o Each(U, SetToSeq(l.max))
TableType(l) == Bytes(<<\h70>>) \o LimitsOf(l)
GlobalType(g) == Type(g.type) \o Flag(g.var)
Kind(k) == Bytes(<< CASE k = "function" -> 0 [] k = "table" -> 1 [] k = "memory" -> 2 [] k = "global" -> 3 >>)
Import(i) ==
  Text(i.names[1]) \o Text(i.names[2]) \o Kind(i.kind) \o
  CASE i.kind = "function" -> U(i.type.index)
    [] i.kind = "table"    -> TableType(i.type)
    [] i.kind = "memory"   -> LimitsOf(i.type)
    [] i.kind = "global"   -> GlobalType(i.type)
Export(e) == Text(e.name) \o Kind(e.kind) \o U(e.index)
Opened(b) ==
  CASE b.results # <<>> -> Type(b.results[1])
    [] b.results = <<>> /\ b.index = -1 -> Bytes(<<\h40>>)
    [] OTHER -> S(b.index, Width64)

Argument(kind, a) ==
  CASE kind = "index"    -> U(a[1])
    [] kind = "indices"  -> Many(U, a)
    [] kind = "signed32" -> S(a[1], Width32)
    [] kind = "signed64" -> S(a[1], Width64)
    [] kind = "reserved" -> Unread
    [] kind \in {"lane", "4 bytes", "8 bytes", "16 bytes"} -> Bytes(a)
Arguments(inst) ==
  FlattenSeq([i \in DOMAIN inst.args |-> Argument(Immediates(inst.op)[i], inst.args[i])])

RECURSIVE Expression(_)
Instruction(inst) ==
  Bytes(Declared[inst.op]) \o
  IF inst.op \notin Structured THEN Arguments(inst)
  ELSE Opened(inst.type) \o Expression(inst.bodies[1]) \o
       (IF Len(inst.bodies) = 2 THEN Bytes(<<\h05>>) \o Expression(inst.bodies[2]) ELSE <<>>) \o Bytes(<<\h0B>>)
Expression(expr) == Each(Instruction, expr)
Ended(expr) == Expression(expr) \o Bytes(<<\h0B>>)

Global(g)  == GlobalType(g.type) \o Ended(g.init)
Element(e) == U(e.table) \o Ended(e.offset) \o Many(U, e.init)
Local(l)   == U(l[1]) \o Type(l[2])
Code(f)    == Sizing(Many(Local, f.locals) \o Ended(f.body))
Data(d)    == U(d.memory) \o Ended(d.offset) \o Text(d.init)
FunctionIndex(f) == U(f.type.index)
OfTable(t)  == TableType(t.type)
OfMemory(t) == LimitsOf(t.type)

(* The sections in their order, with whether they can be left out. *)
Section(number, content, absent) == [number |-> number, content |-> content, absent |-> absent]
Listing(number, Spell(_), s) == Section(number, Sizing(Many(Spell, s)), s = <<>>)
Sections(M) ==
  << Listing(1, FunctionType, M.types), Listing(2, Import, M.imports), Listing(3, FunctionIndex, M.functions),
     Listing(4, OfTable, M.tables), Listing(5, OfMemory, M.memories), Listing(6, Global, M.globals),
     Listing(7, Export, M.exports), Section(8, Sizing(Each(U, M.start)), M.start = <<>>), Listing(9, Element, M.elements),
     Section(10, Loosely(Many(Code, M.functions)), \A f \in ToSet(M.functions) : f.body = <<>> /\ f.locals = <<>>),
     Listing(11, Data, M.data) >>

(***************************** tokens and bytes *******************************)

Digits(n, k) == [i \in 1..k |-> ((n \div 128^(i - 1)) % 128) + (IF i < k THEN 128 ELSE 0)]
(* The fewest bytes of a number, and pad more if the width has room. *)
Length(t) ==
  CHOOSE k \in 1..MaxBytes(t.width) :
    /\ IF t.kind = "signed" THEN t.value \in -(2^(7 * k - 1))..(2^(7 * k - 1) - 1) ELSE t.value < 128^k
    /\ k = 1 \/ IF t.kind = "signed" THEN t.value \notin -(2^(7 * k - 8))..(2^(7 * k - 8) - 1) ELSE t.value >= 128^(k - 1)
Padded(t, pad) == Digits(t.value, Min({MaxBytes(t.width), Length(t) + pad}))

RECURSIVE Encoded(_, _)
Encoded(tokens, pad) ==
  Each(LAMBDA t :
         CASE t.kind = "byte" -> <<t.value>>
           [] t.kind = "any"  -> <<0>>
           [] t.kind \in {"unsigned", "signed"} -> Padded(t, pad)
           [] t.kind \in {"sized", "loosely sized"} ->
                LET body == Encoded(t.body, pad) IN Padded([t EXCEPT !.value = Len(body)], pad) \o body,
       tokens)

(* A number of k bytes has the bits of n, as far as the width goes; where it
   has no more bits, n has zeros or the sign. *)
Bit(n, i) == (n \div 2^i) % 2
Ends(s, p) == { k \in 1..(Len(s) - p) : s[p + k] < 128 /\ \A j \in 1..(k - 1) : s[p + j] >= 128 }
IsNumber(s, p, k, n, t) ==
  LET past == IF t.kind = "signed" THEN Bit(s[p + k], 6) ELSE 0 IN
  \/ k > MaxBytes(t.width) /\ t.kind = "signed"
  \/ /\ k <= MaxBytes(t.width)
     /\ \A i \in 0..(t.width - 1) : Bit(n, i) = IF i \div 7 < k THEN Bit(s[p + 1 + (i \div 7)], i % 7) ELSE past

(* Where the tokens end that begin after p, or Refused. *)
RECURSIVE Found(_, _, _)
FoundSized(t, s, p) ==
  LET sizes == { <<k, n>> \in Ends(s, p) \X (0..(Len(s) - p)) : IsNumber(s, p, k, n, t) } IN
  IF sizes = {} THEN Refused
  ELSE LET size == CHOOSE z \in sizes : TRUE
           end  == Found(t.body, s, p + size[1])
           fits == IF t.kind = "sized" THEN end = p + size[1] + size[2] ELSE end >= p + size[1] + size[2] IN
       IF p + size[1] + size[2] <= Len(s) /\ fits THEN end ELSE Refused
FoundToken(t, s, p) ==
  CASE p < 0 -> Refused
    [] p >= 0 /\ t.kind = "byte" -> IF p < Len(s) /\ s[p + 1] = t.value THEN p + 1 ELSE Refused
    [] p >= 0 /\ t.kind = "any"  -> IF p < Len(s) THEN p + 1 ELSE Refused
    [] p >= 0 /\ t.kind \in {"unsigned", "signed"} ->
         IF \E k \in Ends(s, p) : IsNumber(s, p, k, t.value, t) THEN p + (CHOOSE k \in Ends(s, p) : TRUE) ELSE Refused
    [] p >= 0 /\ t.kind \in {"sized", "loosely sized"} -> FoundSized(t, s, p)
Found(tokens, s, p) ==
  LET upTo[i \in 0..Len(tokens)] == IF i = 0 THEN p ELSE FoundToken(tokens[i], s, upTo[i - 1]) IN upTo[Len(tokens)]

(* Custom sections may stand anywhere. *)
SizeOf(s, p) == LET k == CHOOSE k \in Ends(s, p) : TRUE IN
  << k, CHOOSE n \in 0..Len(s) : IsNumber(s, p, k, n, U(0)[1]) >>
RECURSIVE FoundSections(_, _, _, _)
FoundSections(sections, done, s, p) ==
  LET number == s[p + 1]
      size   == SizeOf(s, p + 1) IN
  IF p = Len(s) THEN \A i \in (done + 1)..11 : sections[i].absent
  ELSE IF number = 0 THEN FoundSections(sections, done, s, p + 1 + size[1] + size[2])
  ELSE /\ number \in (done + 1)..11 /\ \A i \in (done + 1)..(number - 1) : sections[i].absent
       /\ LET end == Found(sections[number].content, s, p + 1) IN end >= 0 /\ FoundSections(sections, number, s, end)

IsSpelling(s, M) == Len(s) >= 8 /\ SubSeq(s, 1, 8) = Header /\ FoundSections(Sections(M), 0, s, 8)

(***************************** modules and names *****************************)

Named(entry) == U(entry[1]) \o Text(entry[2])
ByIndex(set) == SetToSortSeq(set, LAMBDA a, b : a[1] < b[1])
NamesOfLocals(n, f) == U(f) \o Many(Named, ByIndex({ <<l[2], l[3]>> : l \in { l \in n.locals : l[1] = f } }))
NamePayload(n) ==
  Text(NameTag)
  \o (IF n.module # <<>> THEN Bytes(<<0>>) \o Sizing(Text(n.module[1])) ELSE <<>>)
  \o (IF n.functions # {} THEN Bytes(<<1>>) \o Sizing(Many(Named, ByIndex(n.functions))) ELSE <<>>)
  \o (IF n.locals # {}
      THEN Bytes(<<2>>) \o Sizing(Many(LAMBDA f : NamesOfLocals(n, f), SetToSortSeq({ l[1] : l \in n.locals }, LAMBDA a, b : a < b)))
      ELSE <<>>)

(* The encoding of a module: the name section is last, as the name extension
   has it. *)
Encoding(M, n, pad) ==
  Header
  \o Each(LAMBDA part : IF part.absent THEN <<>> ELSE <<part.number>> \o Encoded(part.content, pad), Sections(M))
  \o IF n = NoNames THEN <<>> ELSE <<0>> \o Encoded(Sizing(NamePayload(n)), pad)

(********************************* properties ********************************)

(* What is accepted says the module that is built, every byte of it: numbers have
   the value of their bits with the sign extended, entities are in the order of
   the bytes, bodies in the block that opened them, and nothing is read twice or
   skipped but custom sections and the bytes the format reserves. *)
AcceptedIsSpelled == status = "accepted" => IsSpelling(Buffer, Module)

(* A module that is spelled as Instruction.defs and the format have it, in numbers
   of any length the width allows, is accepted as that module with its names. *)
SpelledIsAccepted ==
  status \in {"accepted", "refused", "aborted"} =>
    \A meant \in input.meant : status = "accepted" /\ Module = meant.module /\ names = meant.names
=============================================================================
