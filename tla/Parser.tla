-------------------------------- MODULE Parser --------------------------------
(***************************************************************************)
(* Parser::parse with the delegate that builds a module: header, sections,      *)
(* their entries, and in them expressions, an instruction a step.  The module    *)
(* built is a BytecodeModule with whole expressions; locals stay the groups they  *)
(* are written in.                                                              *)
(***************************************************************************)
EXTENDS InstructionParser

CONSTANTS
  Inputs,    \* the buffers to parse: [bytes, meant], see Spelling
  AnyNumber  \* what a shift beyond the width of an integer may give

VARIABLES
  input,     \* the buffer
  cursor,    \* ByteArrayReader::Cursor
  barrier,   \* ByteArrayReader::Barrier; the end of the buffer when there is none
  status,    \* the function at work, or how parse() ended
  section,   \* [number, entries]: SectionMagicNumber and the entries still to read
  outer,     \* EnteringBarrierStatus of a code entry
  head,      \* what an entry has before its expression
  CExpr,     \* ExprBuilderDelegate::CExpr
  Scopes,    \* ExprBuilderDelegate::Scopes, with what was opened in each
  Module,    \* ModuleBuilderDelegate::Module
  names      \* customsections::Name
vars == <<input, cursor, barrier, status, section, outer, head, CExpr, Scopes, Module, names>>

Buffer == input.bytes
Readable == SubSeq(Buffer, 1, barrier)

EmptyModule ==
  [types |-> <<>>, imports |-> <<>>, functions |-> <<>>, tables |-> <<>>, memories |-> <<>>, globals |-> <<>>,
   exports |-> <<>>, start |-> <<>>, elements |-> <<>>, data |-> <<>>]
NoNames == [module |-> <<>>, functions |-> {}, locals |-> {}]

Init ==
  /\ input \in Inputs
  /\ cursor = 0 /\ barrier = Len(Buffer) /\ outer = 0
  /\ status = "header" /\ section = [number |-> 0, entries |-> 0] /\ head = <<>>
  /\ CExpr = <<>> /\ Scopes = <<>>
  /\ Module = EmptyModule /\ names = NoNames

(* An exception leaves parse(), an assertion the program. *)
Throw(r) ==
  /\ r.at < 0
  /\ status' = IF r.at = Aborted THEN "aborted" ELSE "refused"
  /\ UNCHANGED <<input, cursor, barrier, section, outer, head, CExpr, Scopes, Module, names>>

(********************************** sections **********************************)

Header == << \h00, \h61, \h73, \h6D, \h01, \h00, \h00, \h00 >>
readHeader(s, p) == Then(readBytes(s, p, Len(Header)), LAMBDA bytes, at : Checked(bytes = Header, at, 0))
ParseHeader ==
  /\ status = "header"
  /\ \E magic \in {readHeader(Buffer, cursor)} :
       \/ Throw(magic)
       \/ /\ magic.at >= 0 /\ cursor' = magic.at /\ status' = "sections"
          /\ UNCHANGED <<input, barrier, section, outer, head, CExpr, Scopes, Module, names>>

(* WASMSectionOrderPolicy: section.number is PreviousSectionNumber. *)
InOrder(number) == number = 0 \/ number > section.number

(* The number of the next section and where it ends. *)
NextSection ==
  Then(read(Buffer, cursor), LAMBDA number, at :
    Then(readULEB128Int32(Buffer, at), LAMBDA size, next :
      Then(setBarrier(Buffer, next, size), LAMBDA end, begin :
        Checked(InOrder(number) /\ number \in 0..11, begin, [number |-> number, end |-> end]))))
AtSection == status = "sections" /\ hasMoreBytes(Buffer, cursor)
RefuseSection == AtSection /\ Throw(NextSection)

(* enterCodeSection asserts that there is a body for every function. *)
EnterSection(number, end, p) ==
  Then(readULEB128Int32(SubSeq(Buffer, 1, end), p), LAMBDA count, at :
    IF number = 10 /\ count # Len(Module.functions) THEN Stop(Aborted) ELSE Result(at, count))

ParseSection ==
  /\ AtSection
  /\ \E next \in {NextSection} : next.at >= 0 /\ next.value.number \notin {0, 8}
       /\ \E count \in {EnterSection(next.value.number, next.value.end, next.at)} :
            \/ Throw(count)
            \/ /\ count.at >= 0 /\ cursor' = count.at /\ barrier' = next.value.end
               /\ section' = [number |-> next.value.number, entries |-> count.value] /\ status' = "entries"
               /\ UNCHANGED <<input, outer, head, CExpr, Scopes, Module, names>>

(* The end of a section: it has no bytes left, and there is no barrier. *)
Leave(at) == cursor' = at /\ barrier' = Len(Buffer) /\ status' = "sections"

Whole(s, r) == Then(r, LAMBDA value, at : Checked(~hasMoreBytes(s, at), at, value))
readStart(s, p) == Whole(s, readULEB128Int32(s, p))
ParseStartSection ==
  /\ AtSection
  /\ \E next \in {NextSection} : next.at >= 0 /\ next.value.number = 8
       /\ \E start \in {readStart(SubSeq(Buffer, 1, next.value.end), next.at)} :
            \/ Throw(start)
            \/ /\ start.at >= 0 /\ Leave(start.at)
               /\ section' = [section EXCEPT !.number = 8] /\ Module' = [Module EXCEPT !.start = <<start.value>>]
               /\ UNCHANGED <<input, outer, head, CExpr, Scopes, names>>

(******************************* the name section *****************************)

(* A subsection is read if its number is next; bytes it has too many are left
   to what follows.  Body reads from the size on. *)
Subsection(number, Body(_, _, _), payload, r) ==
  Then(r, LAMBDA n, p :
    IF ~hasMoreBytes(payload, p) \/ payload[p + 1] # number THEN r
    ELSE Then(readULEB128Int32(payload, p + 1), LAMBDA size, at :
           Then(setBarrier(payload, at, size), LAMBDA end, begin : Body(SubSeq(payload, 1, end), begin, n))))

ModuleName(s, p, n) ==
  Then(readUTF8StringVector(s, p), LAMBDA name, at : Result(at, [n EXCEPT !.module = <<name>>]))
IndexAndName(s, p) ==
  Then(readULEB128Int32(s, p), LAMBDA index, at :
    Then(readUTF8StringVector(s, at), LAMBDA name, end : Result(end, <<index, name>>)))
LocalsOfFunction(s, p) ==
  Then(readULEB128Int32(s, p), LAMBDA index, at :
    Then(readMany(IndexAndName, s, at), LAMBDA locals, end :
      Result(end, { <<index, l[1], l[2]>> : l \in ToSet(locals) })))
FunctionNames(s, p, n) ==
  Then(readMany(IndexAndName, s, p), LAMBDA entries, at :
    Result(at, [n EXCEPT !.functions = @ \cup ToSet(entries)]))
LocalNames(s, p, n) ==
  Then(readMany(LocalsOfFunction, s, p), LAMBDA entries, at :
    Result(at, [n EXCEPT !.locals = @ \cup UNION ToSet(entries)]))

(* Name::parse, on the payload alone; the entries are sorted, so that only
   which there are remains. *)
readNames(payload) ==
  Whole(payload, Subsection(2, LocalNames, payload,
                   Subsection(1, FunctionNames, payload,
                     Subsection(0, ModuleName, payload, Result(0, names)))))

NameTag == << \h6E, \h61, \h6D, \h65 >>
readCustom(s, p) ==
  Then(readUTF8StringVector(s, p), LAMBDA tag, at :
    IF tag # NameTag THEN Result(Len(s), names)
    ELSE Then(readNames(SubSeq(s, at + 1, Len(s))), LAMBDA found, end : Result(Len(s), found)))
ParseCustomSection ==
  /\ AtSection
  /\ \E next \in {NextSection} : next.at >= 0 /\ next.value.number = 0
       /\ \E found \in {readCustom(SubSeq(Buffer, 1, next.value.end), next.at)} :
            \/ Throw(found)
            \/ /\ found.at >= 0 /\ Leave(found.at) /\ names' = found.value
               /\ UNCHANGED <<input, section, outer, head, CExpr, Scopes, Module>>

(*********************************** entries **********************************)

readImport(s, p) ==
  Then(readUTF8StringVector(s, p), LAMBDA from, at :
    Then(readUTF8StringVector(s, at), LAMBDA name, next :
      Then(readImportDescriptor(s, next), LAMBDA what, end :
        Result(end, [kind |-> what.kind, type |-> what.type, names |-> <<from, name>>]))))
readFunction(s, p) ==
  Then(readIndex(s, p), LAMBDA type, at : Result(at, [type |-> type, locals |-> <<>>, body |-> <<>>]))
OfType(r) == Then(r, LAMBDA type, at : Result(at, [type |-> type]))
readExport(s, p) ==
  Then(readUTF8StringVector(s, p), LAMBDA name, at :
    Then(readExportDescriptor(s, at), LAMBDA what, end :
      Result(end, [name |-> name, kind |-> what.kind, index |-> what.index])))

Field == 1 :> "types" @@ 2 :> "imports" @@ 3 :> "functions" @@ 4 :> "tables" @@ 5 :> "memories" @@ 6 :> "globals"
         @@ 7 :> "exports" @@ 9 :> "elements" @@ 11 :> "data"
readEntry(s, p) ==
  CASE section.number = 1 -> readFunctionType(s, p)
    [] section.number = 2 -> readImport(s, p)
    [] section.number = 3 -> readFunction(s, p)
    [] section.number = 4 -> OfType(readTableType(s, p))
    [] section.number = 5 -> OfType(readLimits(s, p))
    [] section.number = 7 -> readExport(s, p)

AtEntry == status = "entries" /\ section.entries > 0
NextEntry == [section EXCEPT !.entries = @ - 1]

ParseEntry ==
  /\ AtEntry /\ section.number \in {1, 2, 3, 4, 5, 7}
  /\ \E entry \in {readEntry(Readable, cursor)} :
       \/ Throw(entry)
       \/ /\ entry.at >= 0 /\ cursor' = entry.at /\ section' = NextEntry
          /\ Module' = [Module EXCEPT ![Field[section.number]] = Append(@, entry.value)]
          /\ UNCHANGED <<input, barrier, status, outer, head, CExpr, Scopes, names>>

(* A code entry: its size, which becomes the barrier, and its locals. *)
readLocals(s, p) ==
  Then(readULEB128Int32(s, p), LAMBDA count, at :
    Then(readValueType(s, at), LAMBDA type, end : Result(end, <<count, type>>)))
readCodeHead(s, p) ==
  Then(readULEB128Int32(s, p), LAMBDA size, at :
    Then(setBarrier(Buffer, at, size), LAMBDA end, begin :
      Then(readMany(readLocals, SubSeq(Buffer, 1, end), begin), LAMBDA locals, next :
        Result(next, [locals |-> locals, end |-> end]))))

(* What stands before the expression of an entry. *)
readHead(s, p) ==
  CASE section.number = 6         -> readGlobalType(s, p)
    [] section.number \in {9, 11} -> readULEB128Int32(s, p)
    [] section.number = 10        -> readCodeHead(s, p)

Peek(byte) == hasMoreBytes(Readable, cursor) /\ Buffer[cursor + 1] = byte
CodeIndex == Len(Module.functions) - section.entries + 1   \* the index of the entry
BeginExpression ==
  /\ AtEntry /\ section.number \in {6, 9, 10, 11}
  /\ \E first \in {readHead(Readable, cursor)} :
     \/ Throw(first)
     \/ /\ first.at >= 0 /\ cursor' = first.at /\ status' = "expression" /\ CExpr' = <<>>
        /\ IF section.number = 10
           THEN /\ barrier' = first.value.end /\ outer' = barrier
                /\ Module' = [Module EXCEPT !.functions[CodeIndex].locals = first.value.locals] /\ UNCHANGED head
           ELSE head' = first.value /\ UNCHANGED <<barrier, outer, Module>>
        /\ UNCHANGED <<input, section, Scopes, names>>

(* And after it; a code entry is all read. *)
readTail(s, p) ==
  CASE section.number = 6  -> Result(p, <<>>)
    [] section.number = 9  -> readMany(readULEB128Int32, s, p)
    [] section.number = 10 -> Checked(~hasMoreBytes(s, p), p, <<>>)
    [] section.number = 11 -> Then(readULEB128Int32(s, p), LAMBDA size, at : readBytes(s, at, size))
Entry(tail) ==
  CASE section.number = 6  -> [type |-> head, init |-> CExpr]
    [] section.number = 9  -> [table |-> head, offset |-> CExpr, init |-> tail]
    [] section.number = 11 -> [memory |-> head, offset |-> CExpr, init |-> tail]

EndExpression ==
  /\ status = "expression" /\ Scopes = <<>> /\ Peek(\h0B)
  /\ \E tail \in {readTail(Readable, cursor + 1)} :
     \/ Throw(tail)
     \/ /\ tail.at >= 0 /\ cursor' = tail.at /\ section' = NextEntry /\ status' = "entries"
        /\ IF section.number = 10
           THEN /\ Module' = [Module EXCEPT !.functions[CodeIndex].body = CExpr]
                /\ barrier' = outer /\ outer' = 0 /\ UNCHANGED head
           ELSE /\ Module' = [Module EXCEPT ![Field[section.number]] = Append(@, Entry(tail.value))]
                /\ head' = <<>> /\ UNCHANGED <<barrier, outer>>
        /\ CExpr' = <<>> /\ UNCHANGED <<input, Scopes, names>>

LeaveSection ==
  /\ status = "entries" /\ section.entries = 0
  /\ \E end \in {Checked(~hasMoreBytes(Readable, cursor), cursor, 0)} :
     \/ Throw(end)
     \/ end.at >= 0 /\ Leave(cursor) /\ UNCHANGED <<input, section, outer, head, CExpr, Scopes, Module, names>>

(********************************* expressions ********************************)

(* parseInstructions: the bytes at which the innermost construct ends. *)
Terminating == IF Scopes # <<>> /\ Last(Scopes).open = "If" THEN {\h05, \h0B} ELSE {\h0B}

addInst(expr, inst) == Append(expr, inst)

OnInstruction ==
  /\ status = "expression" /\ ~\E byte \in Terminating : Peek(byte)
  /\ \E any \in AnyNumber :
     \E inst \in {readInstruction(Readable, cursor, any)} :
       \/ Throw(inst)
       \/ /\ inst.at >= 0 /\ cursor' = inst.at
          /\ IF inst.value.op \in Structured
             THEN CExpr' = <<>> /\ Scopes' = Append(Scopes, [open |-> inst.value.op[2], expr |-> addInst(CExpr, inst.value)])
             ELSE CExpr' = addInst(CExpr, inst.value) /\ UNCHANGED Scopes
          /\ UNCHANGED <<input, barrier, status, section, outer, head, Module, names>>

(* getCurrentScopeEnclosingInst, with the bodies given. *)
Enclosing(bodies) ==
  LET expr == Last(Scopes).expr IN [expr EXCEPT ![Len(expr)].bodies = bodies]

OnElse ==
  /\ status = "expression" /\ Scopes # <<>> /\ Last(Scopes).open = "If" /\ Peek(\h05)
  /\ cursor' = cursor + 1 /\ CExpr' = <<>>
  /\ Scopes' = Append(Front(Scopes), [open |-> "Else", expr |-> Enclosing(<<CExpr, <<>> >>)])
  /\ UNCHANGED <<input, barrier, status, section, outer, head, Module, names>>

(* exitInstBlock, exitInstLoop and exitInstIf: the body ended is the last. *)
OnEnd ==
  /\ status = "expression" /\ Scopes # <<>> /\ Peek(\h0B)
  /\ cursor' = cursor + 1 /\ Scopes' = Front(Scopes)
  /\ CExpr' = Enclosing(Append(Front(Last(Last(Scopes).expr).bodies), CExpr))
  /\ UNCHANGED <<input, barrier, status, section, outer, head, Module, names>>

Finish ==
  /\ status = "sections" /\ ~hasMoreBytes(Buffer, cursor) /\ status' = "accepted"
  /\ UNCHANGED <<input, cursor, barrier, section, outer, head, CExpr, Scopes, Module, names>>

(* A ParserError makes the driver exit, a module goes to validation. *)
Gone == status \in {"accepted", "refused", "aborted"} /\ UNCHANGED vars

Next ==
  \/ ParseHeader \/ RefuseSection \/ ParseSection \/ ParseStartSection \/ ParseCustomSection \/ Finish
  \/ ParseEntry \/ BeginExpression \/ EndExpression \/ LeaveSection
  \/ OnInstruction \/ OnElse \/ OnEnd
  \/ Gone
Spec == Init /\ [][Next]_vars
=============================================================================
