------------------------- MODULE BuildGraph_proofs -------------------------
(***************************************************************************)
(* The tables of the scanner are consistent on every program: the types,   *)
(* the stack of files in progress, the map from files to vertices, and the *)
(* counters and components of the vertices.  Only what is completely known *)
(* is replaced, once, and the analysis takes nothing back that it has      *)
(* learnt.                                                                 *)
(***************************************************************************)
EXTENDS BuildGraphProperties, FiniteSetTheorems, TLAPS

(***************************************************************************)
(* What the phases say of clang's stack, and what m_needs_replacing says   *)
(* of the map: with the three invariants of the scan, it is inductive.     *)
(***************************************************************************)
ScanState ==
  /\ phase \in {"preprocess", "end"} <=> frames # <<>>
  /\ phase # "preprocess" => pending = NoFile
  /\ \A u \in DOMAIN m_needs_replacing :
       u \in DOMAIN id_to_node /\ m_needs_replacing[u].path = u[1]

IInv == TypeOK /\ StackInSync /\ VerticesIdentified /\ ScanState

-----------------------------------------------------------------------------
(* Lemmas about the operators of the scan. *)

LEMMA SeqHead ==
  ASSUME NEW S, NEW s \in Seq(S), s # <<>>
  PROVE  /\ Len(s) \in Nat /\ Len(s) >= 1 /\ 1 \in DOMAIN s
         /\ Head(s) \in S /\ Head(s) = s[1] /\ Tail(s) \in Seq(S)
         /\ Len(Tail(s)) = Len(s) - 1
         /\ DOMAIN s = 1..Len(s) /\ DOMAIN Tail(s) = 1..(Len(s) - 1)
         /\ \A i \in 1..(Len(s) - 1) : Tail(s)[i] = s[i + 1]
OBVIOUS

LEMMA SeqPush ==
  ASSUME NEW S, NEW s \in Seq(S), NEW x \in S
  PROVE  /\ <<x>> \o s \in Seq(S) /\ Len(<<x>> \o s) = Len(s) + 1
         /\ (<<x>> \o s)[1] = x
         /\ \A i \in DOMAIN (<<x>> \o s) :
              i # 1 => i - 1 \in DOMAIN s /\ (<<x>> \o s)[i] = s[i - 1]
OBVIOUS

LEMMA SeqExcept ==
  ASSUME NEW S, NEW s \in Seq(S), NEW i \in DOMAIN s, NEW x \in S
  PROVE  /\ [s EXCEPT ![i] = x] \in Seq(S)
         /\ Len([s EXCEPT ![i] = x]) = Len(s)
         /\ DOMAIN [s EXCEPT ![i] = x] = DOMAIN s
OBVIOUS

(* An item has the fields its kind has.                                    *)
LEMMA ItemFields ==
  ASSUME NEW item \in Item
  PROVE  /\ item.op = "include" => item.file \in File
         /\ item.op \in {"tokens", "override_size", "override_tokens"} =>
              item.n \in Nat
         /\ item.op \in {"define", "undef"} => item.macro \in MacroName
BY DEF Item

LEMMA MadeItems ==
  /\ \A f \in File : Include(f) \in Item
  /\ \A m \in MacroName : Define(m) \in Item /\ Undef(m) \in Item
  /\ Once \in Item
BY DEF Item, Include, Define, Undef, Once

LEMMA ProgramFields ==
  ASSUME NEW p \in Program
  PROVE  /\ p.script \in [File -> Seq(Item)] /\ p.size \in [File -> Nat]
         /\ p.sources \in Seq(File) /\ p.forced \in Seq(File)
         /\ p.absent \subseteq File /\ p.external \subseteq File
         /\ p.precompiled \subseteq File /\ p.macros \subseteq MacroName
BY DEF Program

LEMMA ContentsTyped ==
  ASSUME TypeOK, NEW f \in File
  PROVE  Contents(f) \in Seq(Item) /\ FileSize(f) \in Nat
<1>1. CASE f \in DOMAIN overwrites
  <2>1. overwrites[f] \in Seq(Item) /\ <<Once>> \in Seq(Item)
    BY <1>1, MadeItems DEF TypeOK
  <2>2. Contents(f) = <<Once>> \o overwrites[f]
    BY <1>1 DEF Contents
  <2>3. Contents(f) \in Seq(Item)
    BY <2>1, <2>2
  <2> QED BY <1>1, <2>3 DEF FileSize
<1>2. CASE f \notin DOMAIN overwrites
  BY <1>2, ProgramFields DEF TypeOK, Contents, FileSize
<1> QED BY <1>1, <1>2

LEMMA UniqueIDTyped ==
  ASSUME NEW f \in File
  PROVE  UniqueIDOf(f) \in UniqueID /\ UniqueIDOf(f)[1] = f
<1>1. (f \in DOMAIN overwrites) \in BOOLEAN
  OBVIOUS
<1>2. \A x \in BOOLEAN : <<f, x>> \in UniqueID /\ <<f, x>>[1] = f
  BY DEF UniqueID
<1> QED BY <1>1, <1>2, Zenon DEF UniqueIDOf

LEMMA EmplaceKeeps ==
  ASSUME NEW map, NEW k, NEW value
  PROVE  /\ DOMAIN Emplace(map, k, value) = DOMAIN map \cup {k}
         /\ \A x \in DOMAIN map : Emplace(map, k, value)[x] = map[x]
         /\ k \notin DOMAIN map => Emplace(map, k, value)[k] = value
BY DEF Emplace

LEMMA NewRecords ==
  /\ \A n \in Nat : NewFileState(n) \in FileState
  /\ \A u \in UniqueID : NewInProgress(u) \in InProgress
  /\ \A f \in File, e, p \in BOOLEAN : FileNode(f, e, p) \in Node
BY DEF NewFileState, FileState, NewInProgress, InProgress, FileNode, Node,
       ZeroCost, Cost, NoValue

(* The file in progress has its entry and its vertex.                      *)
LEMMA Back ==
  ASSUME IInv, phase \in {"preprocess", "end"}
  PROVE  /\ frames # <<>> /\ m_stack # <<>>
         /\ frames \in Seq(Frame) /\ Head(frames) \in Frame
         /\ Head(frames) = frames[1] /\ 1 \in DOMAIN frames
         /\ Head(m_stack) \in InProgress /\ Head(m_stack) = m_stack[1]
         /\ 1 \in DOMAIN m_stack
         /\ Head(m_stack).id = UniqueIDOf(Head(frames).file)
         /\ Head(m_stack).id \in DOMAIN id_to_node
         /\ BackState \in FileState
         /\ BackState.v \in DOMAIN nodes /\ nodes[BackState.v] \in Node
         /\ nodes[BackState.v].path = Head(frames).file
<1>1. frames # <<>> /\ frames \in Seq(Frame) /\ m_stack \in Seq(InProgress)
  BY DEF IInv, ScanState, TypeOK
<1>2. Len(m_stack) = Len(frames)
  BY DEF IInv, StackInSync
<1>3. m_stack # <<>>
  BY <1>1, <1>2
<1>4. /\ 1 \in DOMAIN m_stack /\ Head(m_stack) = m_stack[1]
      /\ Head(m_stack) \in InProgress
      /\ 1 \in DOMAIN frames /\ Head(frames) = frames[1]
      /\ Head(frames) \in Frame
  BY <1>1, <1>3, SeqHead
<1>5. /\ Head(m_stack).id = UniqueIDOf(Head(frames).file)
      /\ Head(m_stack).id \in DOMAIN id_to_node
  BY <1>4 DEF IInv, StackInSync
<1>6. BackState \in FileState
  BY <1>5 DEF IInv, TypeOK, BackState
<1>7. /\ BackState.v \in DOMAIN nodes
      /\ nodes[BackState.v].path = Head(frames).file
  BY <1>4, <1>5, UniqueIDTyped DEF IInv, VerticesIdentified, BackState, Frame
<1>8. nodes[BackState.v] \in Node
  BY <1>7 DEF IInv, TypeOK
<1> QED BY <1>1, <1>3, <1>4, <1>5, <1>6, <1>7, <1>8

-----------------------------------------------------------------------------
(* Lemmas about clang's reading of the program. *)

LEMMA OnlyIncludesPredefined ==
  ASSUME TypeOK, InPredefines
  PROVE  /\ Head(predefines).op = "include"
         /\ Head(predefines) \in Item
         /\ Tail(predefines) \in Seq({Include(f) : f \in File})
<1>1. predefines \in Seq({Include(f) : f \in File}) /\ predefines # <<>>
  BY DEF TypeOK, InPredefines
<1>2. /\ Head(predefines) \in {Include(f) : f \in File}
      /\ Tail(predefines) \in Seq({Include(f) : f \in File})
  BY <1>1, SeqHead
<1>3. PICK f \in File : Head(predefines) = Include(f)
  BY <1>2
<1>4. Include(f) \in Item /\ Include(f).op = "include"
  BY MadeItems DEF Include
<1> QED BY <1>2, <1>3, <1>4

LEMMA NextItem ==
  ASSUME IInv, Preprocessing, Remaining # <<>>
  PROVE  Head(Remaining) \in Item
<1>1. frames # <<>> /\ Head(frames) \in Frame
  BY Back DEF Preprocessing
<1>2. CASE InPredefines
  BY <1>2, OnlyIncludesPredefined DEF Remaining, IInv
<1>3. CASE ~InPredefines
  <2>1. Remaining = Head(frames).rest /\ Head(frames).rest \in Seq(Item)
    BY <1>1, <1>3 DEF Remaining, Frame
  <2> QED BY <2>1, SeqHead
<1> QED BY <1>2, <1>3

(* A step over an item leaves the stack of clang as it is.                 *)
LEMMA AdvanceTyped ==
  ASSUME IInv, Preprocessing, Remaining # <<>>, Advance
  PROVE  /\ frames' \in Seq(Frame) /\ predefines' \in Seq({Include(f) : f \in File})
         /\ Len(frames') = Len(frames)
         /\ \A i \in DOMAIN frames : frames'[i].file = frames[i].file
<1>1. /\ frames # <<>> /\ frames \in Seq(Frame) /\ frames[1] \in Frame
      /\ 1 \in DOMAIN frames /\ Head(frames) = frames[1]
      /\ predefines \in Seq({Include(f) : f \in File})
  BY Back DEF Preprocessing, IInv, TypeOK
<1>2. CASE InPredefines
  BY <1>1, <1>2, OnlyIncludesPredefined DEF Advance, IInv
<1>3. CASE ~InPredefines
  <2>1. predefines' = predefines
    BY <1>3 DEF Advance
  <2>2. frames[1].rest \in Seq(Item) /\ frames[1].rest # <<>>
    BY <1>1, <1>3 DEF Remaining, Frame
  <2>3. Tail(frames[1].rest) \in Seq(Item)
    BY <2>2
  <2>4. [frames[1] EXCEPT !.rest = Tail(@)] \in Frame
    BY <1>1, <2>3 DEF Frame
  <2>5. frames' = [frames EXCEPT ![1] = [frames[1] EXCEPT !.rest = Tail(@)]]
    BY <1>1, <1>3 DEF Advance
  <2>6. frames' \in Seq(Frame) /\ Len(frames') = Len(frames)
    BY <1>1, <2>4, <2>5, SeqExcept
  <2>7. \A i \in DOMAIN frames : frames'[i].file = frames[i].file
    BY <1>1, <2>5 DEF Frame
  <2> QED BY <2>1, <2>6, <2>7, <1>1
<1> QED BY <1>2, <1>3

-----------------------------------------------------------------------------
(* Lemmas about what a step leaves alone. *)

LEMMA SameTables ==
  ASSUME IInv, UNCHANGED <<id_to_node, nodes, overwrites>>
  PROVE  VerticesIdentified'
BY DEF IInv, VerticesIdentified, UniqueIDOf

LEMMA SameStack ==
  ASSUME IInv, UNCHANGED overwrites,
         DOMAIN id_to_node \subseteq DOMAIN id_to_node',
         Len(frames') = Len(frames),
         DOMAIN m_stack' = DOMAIN m_stack, Len(m_stack') = Len(m_stack),
         \A i \in DOMAIN m_stack : m_stack'[i].id = m_stack[i].id,
         \A i \in DOMAIN frames : frames'[i].file = frames[i].file,
         pending' # NoFile => UniqueIDOf(pending') \in DOMAIN id_to_node',
         phase' # "end"
  PROVE  StackInSync'
<1>1. \A f : UniqueIDOf(f)' = UniqueIDOf(f')
  BY DEF UniqueIDOf
<1>2. DOMAIN m_stack = DOMAIN frames
  BY DEF IInv, TypeOK, StackInSync
<1> QED BY <1>1, <1>2 DEF IInv, StackInSync, UniqueIDOf

LEMMA UnchangedKeepsIInv ==
  ASSUME IInv, UNCHANGED vars
  PROVE  IInv'
BY DEF IInv, TypeOK, StackInSync, VerticesIdentified, ScanState, UniqueIDOf,
       vars, ppVars, resultVars

(* A step over one item leaves the files in progress, the files of the map *)
(* and their vertices alone.                                               *)
LEMMA ItemStep ==
  ASSUME IInv, phase = "preprocess", TypeOK',
         UNCHANGED <<phase, pending, nodes, overwrites, m_needs_replacing>>,
         DOMAIN id_to_node' = DOMAIN id_to_node,
         \A u \in DOMAIN id_to_node : id_to_node'[u].v = id_to_node[u].v,
         DOMAIN m_stack' = DOMAIN m_stack, Len(m_stack') = Len(m_stack),
         \A i \in DOMAIN m_stack : m_stack'[i].id = m_stack[i].id,
         Len(frames') = Len(frames),
         \A i \in DOMAIN frames : frames'[i].file = frames[i].file
  PROVE  IInv'
<1>1. StackInSync'
  BY SameStack DEF IInv, StackInSync, UniqueIDOf
<1>2. VerticesIdentified'
  BY DEF IInv, VerticesIdentified, UniqueIDOf
<1>3. ScanState'
  BY DEF IInv, TypeOK, ScanState
<1> QED BY <1>1, <1>2, <1>3 DEF IInv

(* The top of either stack is replaced.                                    *)
LEMMA TopUpdated ==
  ASSUME IInv, phase \in {"preprocess", "end"}, NEW p \in InProgress,
         p.id = m_stack[1].id, m_stack' = [m_stack EXCEPT ![1] = p]
  PROVE  /\ m_stack' \in Seq(InProgress) /\ Len(m_stack') = Len(m_stack)
         /\ DOMAIN m_stack' = DOMAIN m_stack
         /\ \A i \in DOMAIN m_stack : m_stack'[i].id = m_stack[i].id
<1>1. m_stack \in Seq(InProgress) /\ 1 \in DOMAIN m_stack
  BY Back DEF IInv, TypeOK
<1> QED BY <1>1, SeqExcept

LEMMA FrameUpdated ==
  ASSUME IInv, phase \in {"preprocess", "end"}, NEW p \in Frame,
         p.file = frames[1].file, frames' = [frames EXCEPT ![1] = p]
  PROVE  /\ frames' \in Seq(Frame) /\ Len(frames') = Len(frames)
         /\ \A i \in DOMAIN frames : frames'[i].file = frames[i].file
<1>1. frames \in Seq(Frame) /\ 1 \in DOMAIN frames
  BY Back
<1> QED BY <1>1, SeqExcept

-----------------------------------------------------------------------------
(* Every action preserves the invariant: the items without an inclusion.   *)

LEMMA LexTokensKeeps ==
  ASSUME IInv, LexTokens
  PROVE  IInv'
<1> USE DEF LexTokens, Lexing, Preprocessing, resultVars
<1>1. Head(Remaining).n \in Nat
  BY NextItem, ItemFields
<1>2. frames' \in Seq(Frame) /\ predefines' \in Seq({Include(f) : f \in File})
  BY AdvanceTyped
<1>3. lexed' \in Nat
  BY <1>1 DEF IInv, TypeOK
<1>4. TypeOK'
  BY <1>2, <1>3, SMTT(30) DEF IInv, TypeOK
<1> QED BY <1>4, AdvanceTyped, ItemStep

LEMMA SkipExcludedKeeps ==
  ASSUME IInv, SkipExcluded
  PROVE  IInv'
<1> USE DEF SkipExcluded, Lexing, Preprocessing, resultVars
<1>1. TypeOK'
  BY AdvanceTyped DEF IInv, TypeOK
<1> QED BY <1>1, AdvanceTyped, ItemStep

LEMMA PragmaOnceKeeps ==
  ASSUME IInv, PragmaOnce
  PROVE  IInv'
<1> USE DEF PragmaOnce, Lexing, Preprocessing, resultVars
<1>1. TypeOK'
  BY AdvanceTyped, Back DEF IInv, TypeOK, Frame
<1> QED BY <1>1, AdvanceTyped, ItemStep

LEMMA PragmaDirectiveKeeps ==
  ASSUME IInv, PragmaDirective
  PROVE  IInv'
<1> USE DEF PragmaDirective, Lexing, Preprocessing, resultVars
<1> DEFINE item == Head(Remaining)
           top == m_stack[1]
           newTop == IF item.op = "override_size"
                     THEN [top EXCEPT !.overridden_file_size = item.n]
                     ELSE [top EXCEPT !.overridden_token_count = item.n]
<1>1. top \in InProgress /\ 1 \in DOMAIN m_stack /\ m_stack \in Seq(InProgress)
  BY Back DEF IInv, TypeOK
<1>2. item.n \in Nat
  BY NextItem, ItemFields
<1>3. newTop \in InProgress /\ newTop.id = top.id
  BY <1>1, <1>2 DEF InProgress
<1>4. m_stack' = [m_stack EXCEPT ![1] = newTop]
  BY <1>1
<1> HIDE DEF newTop
<1>5. /\ m_stack' \in Seq(InProgress) /\ Len(m_stack') = Len(m_stack)
      /\ DOMAIN m_stack' = DOMAIN m_stack
      /\ \A i \in DOMAIN m_stack : m_stack'[i].id = m_stack[i].id
  BY <1>3, <1>4, TopUpdated
<1>6. TypeOK'
  BY <1>5, AdvanceTyped DEF IInv, TypeOK
<1> QED BY <1>5, <1>6, AdvanceTyped, ItemStep

LEMMA IfOrIfndefKeeps ==
  ASSUME IInv, IfOrIfndef
  PROVE  IInv'
<1> USE DEF Lexing, Preprocessing, resultVars
<1> DEFINE kind == IF Head(Remaining).op = "if" THEN "If" ELSE "Ifndef"
           top == m_stack[1]
           newTop == [top EXCEPT !.seen_first = IF @ = "None" THEN kind ELSE @]
           current == frames[1]
<1>1. /\ top \in InProgress /\ 1 \in DOMAIN m_stack
      /\ m_stack \in Seq(InProgress)
      /\ current \in Frame /\ 1 \in DOMAIN frames /\ frames \in Seq(Frame)
      /\ current = Head(frames)
  BY Back DEF IfOrIfndef, IInv, TypeOK
<1>2. newTop \in InProgress /\ newTop.id = top.id
  BY <1>1 DEF InProgress
<1>3. m_stack' = [m_stack EXCEPT ![1] = newTop]
  BY <1>1 DEF IfOrIfndef
<1>4. /\ m_stack' \in Seq(InProgress) /\ Len(m_stack') = Len(m_stack)
      /\ DOMAIN m_stack' = DOMAIN m_stack
      /\ \A i \in DOMAIN m_stack : m_stack'[i].id = m_stack[i].id
  <2> HIDE DEF newTop
  <2> QED BY <1>2, <1>3, TopUpdated DEF IfOrIfndef
<1>5. PICK p \in Frame :
        p.file = current.file /\ frames' = [frames EXCEPT ![1] = p]
  <2> DEFINE cut == [current EXCEPT !.rest = <<>>]
             first == current.rest = Contents(current.file)
             next == [current EXCEPT !.rest = Tail(@), !.candidate = first]
  <2>1. CASE current.file \in macros
    <3>1. cut \in Frame /\ cut.file = current.file
      <4>1. <<>> \in Seq(Item)
        OBVIOUS
      <4> QED BY <1>1, <4>1, Zenon DEF Frame
    <3>2. frames' = [frames EXCEPT ![1] = cut]
      BY <1>1, <2>1 DEF IfOrIfndef
    <3> QED BY <3>1, <3>2
  <2>2. CASE current.file \notin macros
    <3>1. first \in BOOLEAN
      OBVIOUS
    <3>2. Tail(current.rest) \in Seq(Item)
      <4>1. Remaining # <<>> /\ Head(Remaining).op # "include"
        BY DEF IfOrIfndef
      <4>2. Remaining = current.rest
        <5>1. CASE InPredefines
          BY <4>1, <5>1, OnlyIncludesPredefined DEF Remaining, IInv
        <5>2. CASE ~InPredefines
          BY <1>1, <5>2 DEF Remaining
        <5> QED BY <5>1, <5>2
      <4>3. current.rest \in Seq(Item)
        BY <1>1 DEF Frame
      <4> QED BY <4>1, <4>2, <4>3, SeqHead
    <3>3. next \in Frame /\ next.file = current.file
      <4> HIDE DEF first
      <4> QED BY <1>1, <3>1, <3>2 DEF Frame
    <3>4. frames' = [frames EXCEPT ![1] = next]
      BY <1>1, <2>2 DEF IfOrIfndef
    <3> QED BY <3>3, <3>4
  <2> QED BY <2>1, <2>2
<1>6. /\ frames' \in Seq(Frame) /\ Len(frames') = Len(frames)
      /\ \A i \in DOMAIN frames : frames'[i].file = frames[i].file
  BY <1>5, FrameUpdated DEF IfOrIfndef
<1>7. TypeOK'
  BY <1>4, <1>6 DEF IfOrIfndef, IInv, TypeOK
<1> QED BY <1>4, <1>6, <1>7, ItemStep DEF IfOrIfndef

LEMMA RecordDirectiveTyped ==
  ASSUME IInv, phase = "preprocess", NEW item \in Item, RecordDirective(item)
  PROVE  /\ DOMAIN id_to_node' = DOMAIN id_to_node
         /\ \A u \in DOMAIN id_to_node :
              /\ id_to_node'[u] \in FileState
              /\ id_to_node'[u].v = id_to_node[u].v
<1> DEFINE k == Head(m_stack).id
           old == id_to_node[k]
           new == [old EXCEPT !.replacement_contents = Append(@, item)]
<1>1. /\ k \in DOMAIN id_to_node
      /\ \A u \in DOMAIN id_to_node : id_to_node[u] \in FileState
  BY Back DEF IInv, TypeOK
<1>2. Append(old.replacement_contents, item) \in Seq(Item)
  BY <1>1 DEF FileState
<1>3. new \in FileState /\ new.v = old.v
  BY <1>1, <1>2 DEF FileState
<1>4. id_to_node' \in {id_to_node, [id_to_node EXCEPT ![k] = new]}
  BY <1>1 DEF RecordDirective
<1> HIDE DEF k, new
<1> QED BY <1>1, <1>3, <1>4

LEMMA MacroDefinedKeeps ==
  ASSUME IInv, MacroDefined
  PROVE  IInv'
<1> USE DEF Lexing, Preprocessing, resultVars
<1> DEFINE m == Head(Remaining).macro
<1>1. m \in MacroName /\ Define(m) \in Item
  BY NextItem, ItemFields, MadeItems DEF MacroDefined
<1>2. /\ DOMAIN id_to_node' = DOMAIN id_to_node
      /\ \A u \in DOMAIN id_to_node :
           id_to_node'[u] \in FileState /\ id_to_node'[u].v = id_to_node[u].v
  BY <1>1, RecordDirectiveTyped DEF MacroDefined
<1>3. TypeOK'
  BY <1>1, <1>2, AdvanceTyped DEF MacroDefined, IInv, TypeOK
<1> QED BY <1>2, <1>3, AdvanceTyped, ItemStep DEF MacroDefined

LEMMA MacroUndefinedKeeps ==
  ASSUME IInv, MacroUndefined
  PROVE  IInv'
<1> USE DEF Lexing, Preprocessing, resultVars
<1> DEFINE m == Head(Remaining).macro
<1>1. m \in MacroName /\ Undef(m) \in Item
  BY NextItem, ItemFields, MadeItems DEF MacroUndefined
<1>2. /\ DOMAIN id_to_node' = DOMAIN id_to_node
      /\ \A u \in DOMAIN id_to_node :
           id_to_node'[u] \in FileState /\ id_to_node'[u].v = id_to_node[u].v
  <2>1. CASE m \in macros
    BY <2>1, <1>1, RecordDirectiveTyped DEF MacroUndefined
  <2>2. CASE m \notin macros
    BY <2>2 DEF MacroUndefined, IInv, TypeOK
  <2> QED BY <2>1, <2>2
<1>3. TypeOK'
  BY <1>2, AdvanceTyped DEF MacroUndefined, IInv, TypeOK
<1> QED BY <1>2, <1>3, AdvanceTyped, ItemStep DEF MacroUndefined

-----------------------------------------------------------------------------
(* Inclusion. *)

LEMMA MissingIncludeKeeps ==
  ASSUME IInv, MissingInclude
  PROVE  IInv'
<1> USE DEF MissingInclude, Lexing, Preprocessing
<1>1. Head(Remaining).file \in File
  BY NextItem, ItemFields
<1>2. TypeOK'
  BY <1>1, AdvanceTyped DEF IInv, TypeOK
<1> QED BY <1>2, AdvanceTyped, ItemStep

LEMMA InclusionFromDoneKeeps ==
  ASSUME IInv, InclusionFromDone
  PROVE  IInv'
<1> USE DEF InclusionFromDone, IncludingFile, Lexing, Preprocessing, resultVars
<1>1. /\ frames' \in Seq(Frame)
      /\ predefines' \in Seq({Include(f) : f \in File})
      /\ Len(frames') = Len(frames)
      /\ \A i \in DOMAIN frames : frames'[i].file = frames[i].file
  BY AdvanceTyped
<1>2. pending' \in File
  BY NextItem, ItemFields
<1>3. TypeOK'
  BY <1>1, <1>2 DEF IInv, TypeOK
<1>4. StackInSync'
  BY <1>1, <1>2, SameStack DEF UniqueIDOf
<1>5. VerticesIdentified'
  BY SameTables
<1>6. ScanState'
  BY <1>1 DEF IInv, TypeOK, ScanState
<1> QED BY <1>3, <1>4, <1>5, <1>6 DEF IInv

LEMMA FailKeeps ==
  ASSUME IInv, NEW a \in {"source_inserted", "include_not_inserted",
                           "cost_unset"}, Fail(a)
  PROVE  IInv'
BY DEF Fail, IInv, TypeOK, StackInSync, VerticesIdentified, ScanState,
       UniqueIDOf, ppVars, resultVars

LEMMA FileSkippedKeeps ==
  ASSUME IInv, FileSkipped
  PROVE  IInv'
BY DEF FileSkipped, Inclusion, IInv, TypeOK, StackInSync, VerticesIdentified,
       ScanState, UniqueIDOf, resultVars

LEMMA EnterFileKeeps ==
  ASSUME IInv, EnterFile
  PROVE  IInv'
<1> USE DEF EnterFile, Inclusion, resultVars
<1> DEFINE uid == UniqueIDOf(pending)
           top == m_stack[1]
           newTop == [top EXCEPT !.c.token_count = lexed - accounted]
           below == [m_stack EXCEPT ![1] = newTop]
           frame == [file |-> pending, rest |-> Contents(pending),
                     candidate |-> FALSE]
<1>1. pending \in File /\ uid \in DOMAIN id_to_node
  BY DEF IInv, TypeOK, StackInSync
<1>2. /\ NewInProgress(uid) \in InProgress /\ NewInProgress(uid).id = uid
  BY <1>1, UniqueIDTyped, NewRecords DEF NewInProgress
<1>3. frame \in Frame /\ frame.file = pending
  BY <1>1, ContentsTyped DEF Frame, IInv
<1>4. /\ top \in InProgress /\ 1 \in DOMAIN m_stack
      /\ m_stack \in Seq(InProgress) /\ frames \in Seq(Frame)
  BY Back DEF IInv, TypeOK
<1>5. newTop \in InProgress /\ newTop.id = top.id
  <2>1. lexed - accounted \in Int
    BY DEF IInv, TypeOK
  <2> QED BY <1>4, <2>1 DEF InProgress, Cost
<1>6. /\ below \in Seq(InProgress) /\ Len(below) = Len(m_stack)
      /\ DOMAIN below = DOMAIN m_stack
      /\ \A i \in DOMAIN m_stack : below[i].id = m_stack[i].id
  <2> HIDE DEF newTop
  <2> QED BY <1>4, <1>5, SeqExcept
<1>7. m_stack' = <<NewInProgress(uid)>> \o below /\ frames' = <<frame>> \o frames
  BY <1>4
<1> HIDE DEF below, frame
<1>8. /\ m_stack' \in Seq(InProgress) /\ Len(m_stack') = Len(m_stack) + 1
      /\ m_stack'[1].id = uid
      /\ \A i \in DOMAIN m_stack' :
           i # 1 => i - 1 \in DOMAIN m_stack /\ m_stack'[i].id = m_stack[i - 1].id
  <2> DEFINE new == NewInProgress(uid)
  <2> HIDE DEF new
  <2>1. /\ new \in InProgress /\ new.id = uid /\ m_stack' = <<new>> \o below
    BY <1>2, <1>7 DEF new
  <2>2. /\ <<new>> \o below \in Seq(InProgress)
        /\ Len(<<new>> \o below) = Len(below) + 1
        /\ (<<new>> \o below)[1] = new
        /\ \A i \in DOMAIN (<<new>> \o below) : i # 1 =>
             i - 1 \in DOMAIN below /\ (<<new>> \o below)[i] = below[i - 1]
    BY <2>1, <1>6, SeqPush
  <2> QED BY <2>1, <2>2, <1>6
<1>9. /\ frames' \in Seq(Frame) /\ Len(frames') = Len(frames) + 1
      /\ frames'[1].file = pending
      /\ \A i \in DOMAIN frames' : i # 1 => frames'[i].file = frames[i - 1].file
  <2>1. /\ <<frame>> \o frames \in Seq(Frame)
        /\ Len(<<frame>> \o frames) = Len(frames) + 1
        /\ (<<frame>> \o frames)[1] = frame
        /\ \A i \in DOMAIN (<<frame>> \o frames) : i # 1 =>
             i - 1 \in DOMAIN frames /\ (<<frame>> \o frames)[i] = frames[i - 1]
    BY <1>3, <1>4, SeqPush
  <2> QED BY <2>1, <1>3, <1>7
<1>10. TypeOK'
  BY <1>8, <1>9 DEF IInv, TypeOK
<1>11. StackInSync'
  <2>1. Len(m_stack') = Len(frames')
    BY <1>8, <1>9 DEF IInv, StackInSync
  <2>2. ASSUME NEW i \in DOMAIN m_stack'
        PROVE  /\ m_stack'[i].id = UniqueIDOf(frames'[i].file)
               /\ m_stack'[i].id \in DOMAIN id_to_node
    <3>1. CASE i = 1
      BY <3>1, <1>1, <1>8, <1>9
    <3>2. CASE i # 1
      <4>1. i \in DOMAIN frames'
        BY <1>8, <1>9, <2>1
      <4> QED BY <3>2, <4>1, <1>8, <1>9 DEF IInv, StackInSync
    <3> QED BY <3>1, <3>2
  <2> QED BY <2>1, <2>2 DEF StackInSync, UniqueIDOf
<1>12. VerticesIdentified'
  BY SameTables
<1>13. ScanState'
  BY <1>9 DEF IInv, ScanState
<1> QED BY <1>10, <1>11, <1>12, <1>13 DEF IInv

-----------------------------------------------------------------------------
(* Leaving a file. *)

LEMMA LeavingCostTyped ==
  ASSUME IInv, phase = "preprocess"
  PROVE  LeavingCost \in Cost
<1>1. Head(m_stack) \in InProgress /\ Head(frames).file \in File
  BY Back DEF Frame
<1>2. FileSize(Head(frames).file) \in Nat
  BY <1>1, ContentsTyped DEF IInv
<1>3. lexed - accounted \in Int
  BY DEF IInv, TypeOK
<1> QED BY <1>1, <1>2, <1>3 DEF LeavingCost, InProgress, Cost, NoValue

LEMMA PlusTyped ==
  ASSUME NEW a \in Cost, NEW b \in Cost
  PROVE  Plus(a, b) \in Cost
BY DEF Plus, Cost

LEMMA MarkedProcessedTyped ==
  ASSUME IInv, phase = "preprocess", id_to_node' = MarkedProcessed
  PROVE  /\ DOMAIN id_to_node' = DOMAIN id_to_node
         /\ \A u \in DOMAIN id_to_node :
              /\ id_to_node'[u] \in FileState
              /\ id_to_node'[u].v = id_to_node[u].v
<1> DEFINE k == Head(m_stack).id
           new == [id_to_node[k] EXCEPT !.fully_processed = TRUE]
<1>1. /\ k \in DOMAIN id_to_node
      /\ \A u \in DOMAIN id_to_node : id_to_node[u] \in FileState
  BY Back DEF IInv, TypeOK
<1>2. new \in FileState /\ new.v = id_to_node[k].v
  BY <1>1 DEF FileState
<1>3. id_to_node' = [id_to_node EXCEPT ![k] = new]
  BY <1>1 DEF MarkedProcessed
<1> HIDE DEF k, new
<1> QED BY <1>1, <1>2, <1>3

LEMMA MarkedGuardedTyped ==
  ASSUME IInv, phase = "preprocess", nodes' = MarkedGuarded(BackState.v)
  PROVE  /\ nodes' \in Seq(Node) /\ DOMAIN nodes' = DOMAIN nodes
         /\ \A v \in DOMAIN nodes : nodes'[v].path = nodes[v].path
<1> DEFINE w == BackState.v
           new == [nodes[w] EXCEPT !.is_guarded = TRUE,
                                   !.underlying_cost = LeavingCost]
<1>1. w \in DOMAIN nodes /\ nodes[w] \in Node /\ nodes \in Seq(Node)
  BY Back DEF IInv, TypeOK
<1>2. LeavingCost \in Cost
  BY LeavingCostTyped
<1>3. new \in Node /\ new.path = nodes[w].path
  BY <1>1, <1>2 DEF Node
<1>4. nodes' = [nodes EXCEPT ![w] = new]
  BY <1>1 DEF MarkedGuarded
<1> HIDE DEF w, new
<1> QED BY <1>1, <1>3, <1>4, SeqExcept

LEMMA SameVertices ==
  ASSUME IInv, UNCHANGED overwrites, DOMAIN nodes' = DOMAIN nodes,
         \A v \in DOMAIN nodes : nodes'[v].path = nodes[v].path,
         DOMAIN id_to_node' = DOMAIN id_to_node,
         \A u \in DOMAIN id_to_node : id_to_node'[u].v = id_to_node[u].v
  PROVE  VerticesIdentified'
BY DEF IInv, VerticesIdentified, UniqueIDOf

(* The file on top leaves both stacks.                                     *)
LEMMA StacksPopped ==
  ASSUME IInv, LeavingFile, frames' = Tail(frames),
         UNCHANGED <<phase, pending, overwrites>>,
         DOMAIN id_to_node' = DOMAIN id_to_node,
         m_stack' \in Seq(InProgress), Len(m_stack') = Len(m_stack) - 1,
         \A i \in 1..(Len(m_stack) - 1) : m_stack'[i].id = m_stack[i + 1].id
  PROVE  frames' \in Seq(Frame) /\ frames' # <<>> /\ StackInSync'
<1>1. frames \in Seq(Frame) /\ m_stack \in Seq(InProgress) /\ Len(frames) > 1
  BY DEF IInv, TypeOK, LeavingFile
<1>2. /\ frames' \in Seq(Frame) /\ Len(frames') = Len(frames) - 1
      /\ \A i \in 1..(Len(frames) - 1) : frames'[i] = frames[i + 1]
  BY <1>1, SeqHead
<1>3. frames' # <<>>
  BY <1>1, <1>2, SMTT(30)
<1>4. Len(m_stack') = Len(frames') /\ Len(m_stack) = Len(frames)
  BY <1>2 DEF IInv, StackInSync
<1>5. ASSUME NEW i \in DOMAIN m_stack'
      PROVE  /\ m_stack'[i].id = UniqueIDOf(frames'[i].file)
             /\ m_stack'[i].id \in DOMAIN id_to_node
  <2>1. i \in 1..(Len(m_stack) - 1) /\ i + 1 \in DOMAIN m_stack
    BY <1>1, <1>4, <1>5
  <2> QED BY <2>1, <1>2, <1>4 DEF IInv, StackInSync
<1>6. pending' = NoFile /\ phase' = "preprocess"
  BY DEF LeavingFile, Preprocessing
<1> QED BY <1>2, <1>3, <1>4, <1>5, <1>6 DEF StackInSync, UniqueIDOf

LEMMA ControllingTyped ==
  ASSUME IInv, phase = "preprocess"
  PROVE  Controlling \subseteq File
BY Back DEF Controlling, IInv, TypeOK, Frame

LEMMA ExitUnguardedKeeps ==
  ASSUME IInv, ExitUnguarded
  PROVE  IInv'
<1> USE DEF LeavingFile, Preprocessing
<1> DEFINE below == Tail(m_stack)
           old == below[1]
           new == [old EXCEPT !.c = Plus(@, LeavingCost)]
<1>1. /\ m_stack \in Seq(InProgress) /\ m_stack # <<>> /\ Len(m_stack) > 1
      /\ below \in Seq(InProgress) /\ below # <<>> /\ 1 \in DOMAIN below
      /\ Len(below) = Len(m_stack) - 1
      /\ \A i \in 1..(Len(m_stack) - 1) : below[i] = m_stack[i + 1]
  <2>1. m_stack \in Seq(InProgress) /\ m_stack # <<>> /\ Len(m_stack) > 1
    BY DEF IInv, TypeOK, StackInSync, ExitUnguarded
  <2> QED BY <2>1, SeqHead
<1>2. old \in InProgress /\ LeavingCost \in Cost
  BY <1>1, LeavingCostTyped DEF ExitUnguarded
<1>3. new \in InProgress /\ new.id = old.id
  BY <1>2, PlusTyped DEF InProgress
<1>4. m_stack' = [below EXCEPT ![1] = new]
  BY <1>1 DEF ExitUnguarded, CostPushedToIncluder
<1> HIDE DEF new, below
<1>5. /\ m_stack' \in Seq(InProgress) /\ Len(m_stack') = Len(m_stack) - 1
      /\ \A i \in 1..(Len(m_stack) - 1) : m_stack'[i].id = m_stack[i + 1].id
  BY <1>1, <1>3, <1>4, SeqExcept
<1>6. /\ DOMAIN id_to_node' = DOMAIN id_to_node
      /\ \A u \in DOMAIN id_to_node :
           id_to_node'[u] \in FileState /\ id_to_node'[u].v = id_to_node[u].v
  BY MarkedProcessedTyped DEF ExitUnguarded
<1>7. frames' \in Seq(Frame) /\ frames' # <<>> /\ StackInSync'
  BY <1>5, <1>6, StacksPopped DEF ExitUnguarded, LeaveFile
<1>8. TypeOK'
  <2>1. BackState.v \in Nat /\ Controlling \subseteq File
    BY Back, ControllingTyped DEF ExitUnguarded, FileState
  <2> QED BY <2>1, <1>5, <1>6, <1>7 DEF ExitUnguarded, LeaveFile, IInv, TypeOK
<1>9. VerticesIdentified'
  BY <1>6, SameVertices DEF ExitUnguarded, LeaveFile
<1>10. ScanState'
  BY <1>6, <1>7 DEF ExitUnguarded, LeaveFile, IInv, ScanState
<1> QED BY <1>7, <1>8, <1>9, <1>10 DEF IInv

(* The stack of files in progress once a guarded file has been popped.     *)
LEMMA TailPopped ==
  ASSUME IInv, LeavingFile, m_stack' = Tail(m_stack)
  PROVE  /\ m_stack' \in Seq(InProgress) /\ Len(m_stack') = Len(m_stack) - 1
         /\ \A i \in 1..(Len(m_stack) - 1) : m_stack'[i].id = m_stack[i + 1].id
<1>1. m_stack \in Seq(InProgress) /\ m_stack # <<>>
  BY Back DEF IInv, TypeOK, LeavingFile, Preprocessing
<1> QED BY <1>1, SeqHead

LEMMA ExitGuardedAgainKeeps ==
  ASSUME IInv, ExitGuardedAgain
  PROVE  IInv'
<1> USE DEF LeavingFile, Preprocessing
<1>1. /\ m_stack' \in Seq(InProgress) /\ Len(m_stack') = Len(m_stack) - 1
      /\ \A i \in 1..(Len(m_stack) - 1) : m_stack'[i].id = m_stack[i + 1].id
  BY TailPopped DEF ExitGuardedAgain
<1>2. frames' \in Seq(Frame) /\ frames' # <<>> /\ StackInSync'
  BY <1>1, StacksPopped DEF ExitGuardedAgain, LeaveFile
<1>3. TypeOK'
  BY <1>1, <1>2, ControllingTyped DEF ExitGuardedAgain, LeaveFile, IInv, TypeOK
<1>4. VerticesIdentified'
  BY SameTables DEF ExitGuardedAgain, LeaveFile
<1>5. ScanState'
  BY <1>2 DEF ExitGuardedAgain, LeaveFile, IInv, ScanState
<1> QED BY <1>2, <1>3, <1>4, <1>5 DEF IInv

LEMMA ExitGuardedFirstKeeps ==
  ASSUME IInv, ExitGuardedFirst
  PROVE  IInv'
<1> USE DEF LeavingFile, Preprocessing
<1> DEFINE k == Head(m_stack).id
           new == [contents |-> BackState.replacement_contents,
                   path |-> Head(frames).file, v |-> BackState.v]
<1>1. /\ m_stack' \in Seq(InProgress) /\ Len(m_stack') = Len(m_stack) - 1
      /\ \A i \in 1..(Len(m_stack) - 1) : m_stack'[i].id = m_stack[i + 1].id
  BY TailPopped DEF ExitGuardedFirst
<1>2. /\ DOMAIN id_to_node' = DOMAIN id_to_node
      /\ \A u \in DOMAIN id_to_node :
           id_to_node'[u] \in FileState /\ id_to_node'[u].v = id_to_node[u].v
  BY MarkedProcessedTyped DEF ExitGuardedFirst
<1>3. /\ nodes' \in Seq(Node) /\ DOMAIN nodes' = DOMAIN nodes
      /\ \A v \in DOMAIN nodes : nodes'[v].path = nodes[v].path
  BY MarkedGuardedTyped DEF ExitGuardedFirst
<1>4. frames' \in Seq(Frame) /\ frames' # <<>> /\ StackInSync'
  BY <1>1, <1>2, StacksPopped DEF ExitGuardedFirst, LeaveFile
<1>5. /\ k \in DOMAIN id_to_node /\ k \in UniqueID /\ new.path = k[1]
      /\ new \in ReplaceWith
  <2>1. /\ k \in DOMAIN id_to_node /\ Head(frames).file \in File
        /\ k = UniqueIDOf(Head(frames).file) /\ BackState \in FileState
    BY Back DEF ExitGuardedFirst, Frame
  <2>2. k \in UniqueID /\ k[1] = Head(frames).file
    BY <2>1, UniqueIDTyped
  <2> QED BY <2>1, <2>2 DEF ReplaceWith, FileState
<1>6. /\ DOMAIN m_needs_replacing' \subseteq DOMAIN m_needs_replacing \cup {k}
      /\ \A u \in DOMAIN m_needs_replacing' :
           m_needs_replacing'[u] \in ReplaceWith
      /\ \A u \in DOMAIN m_needs_replacing' :
           u \in DOMAIN id_to_node /\ m_needs_replacing'[u].path = u[1]
  <2>1. /\ \A u \in DOMAIN m_needs_replacing : m_needs_replacing[u] \in ReplaceWith
        /\ \A u \in DOMAIN m_needs_replacing :
             u \in DOMAIN id_to_node /\ m_needs_replacing[u].path = u[1]
    BY DEF IInv, TypeOK, ScanState
  <2>2. \/ m_needs_replacing' = m_needs_replacing
        \/ m_needs_replacing' = Emplace(m_needs_replacing, k, new)
    BY DEF ExitGuardedFirst
  <2> HIDE DEF k, new
  <2>3. CASE m_needs_replacing' = m_needs_replacing
    BY <2>1, <2>3
  <2>4. CASE m_needs_replacing' = Emplace(m_needs_replacing, k, new)
    <3>1. DOMAIN m_needs_replacing' = DOMAIN m_needs_replacing \cup {k}
      BY <2>4, EmplaceKeeps
    <3>2. \A u \in DOMAIN m_needs_replacing :
            m_needs_replacing'[u] = m_needs_replacing[u]
      BY <2>4 DEF Emplace
    <3>3. k \notin DOMAIN m_needs_replacing => m_needs_replacing'[k] = new
      BY <2>4, EmplaceKeeps
    <3> QED BY <3>1, <3>2, <3>3, <2>1, <1>5
  <2> QED BY <2>2, <2>3, <2>4
<1>7. TypeOK'
  <2>1. DOMAIN m_needs_replacing' \subseteq UniqueID
    BY <1>5, <1>6 DEF IInv, TypeOK
  <2> QED BY <2>1, <1>1, <1>2, <1>3, <1>4, <1>6, ControllingTyped
          DEF ExitGuardedFirst, LeaveFile, IInv, TypeOK
<1>8. VerticesIdentified'
  BY <1>2, <1>3, SameVertices DEF ExitGuardedFirst, LeaveFile
<1>9. ScanState'
  BY <1>2, <1>4, <1>6 DEF ExitGuardedFirst, LeaveFile, IInv, ScanState
<1> QED BY <1>4, <1>7, <1>8, <1>9 DEF IInv

LEMMA EndOfMainFileKeeps ==
  ASSUME IInv, EndOfMainFile
  PROVE  IInv'
<1> USE DEF Preprocessing
<1> DEFINE w == BackState.v
           newNode == [nodes[w] EXCEPT !.underlying_cost = LeavingCost]
           top == m_stack[1]
           newTop == [top EXCEPT !.c = LeavingCost]
<1>1. /\ w \in DOMAIN nodes /\ nodes[w] \in Node /\ nodes \in Seq(Node)
      /\ top \in InProgress /\ 1 \in DOMAIN m_stack
      /\ m_stack \in Seq(InProgress)
  BY Back DEF EndOfMainFile, IInv, TypeOK
<1>2. LeavingCost \in Cost
  BY LeavingCostTyped DEF EndOfMainFile
<1>3. newNode \in Node /\ newNode.path = nodes[w].path
  BY <1>1, <1>2 DEF Node
<1>4. newTop \in InProgress /\ newTop.id = top.id
  BY <1>1, <1>2 DEF InProgress
<1>5. /\ nodes' = [nodes EXCEPT ![w] = newNode]
      /\ m_stack' = [m_stack EXCEPT ![1] = newTop]
  BY <1>1 DEF EndOfMainFile
<1> HIDE DEF w, newNode, newTop
<1>6. /\ nodes' \in Seq(Node) /\ DOMAIN nodes' = DOMAIN nodes
      /\ \A v \in DOMAIN nodes : nodes'[v].path = nodes[v].path
  <2>1. w \in DOMAIN nodes /\ nodes \in Seq(Node)
    BY <1>1
  <2> QED BY <2>1, <1>3, <1>5, SeqExcept
<1>7. /\ m_stack' \in Seq(InProgress) /\ Len(m_stack') = Len(m_stack)
      /\ DOMAIN m_stack' = DOMAIN m_stack
      /\ \A i \in DOMAIN m_stack : m_stack'[i].id = m_stack[i].id
  BY <1>4, <1>5, TopUpdated DEF EndOfMainFile
<1>8. TypeOK'
  BY <1>6, <1>7 DEF EndOfMainFile, ppVars, IInv, TypeOK
<1>9. StackInSync'
  BY <1>7 DEF EndOfMainFile, ppVars, IInv, StackInSync, UniqueIDOf
<1>10. VerticesIdentified'
  BY <1>6, SameVertices DEF EndOfMainFile
<1>11. ScanState'
  BY DEF EndOfMainFile, ppVars, IInv, ScanState
<1> QED BY <1>8, <1>9, <1>10, <1>11 DEF IInv

-----------------------------------------------------------------------------
(* The replacement of files at the end of a translation unit. *)

LEMMA ReplacementKnown ==
  ASSUME IInv, NEW f \in ReplacedPaths
  PROVE  /\ ReplacementOf(f) \in NeedsReplacing
         /\ ReplacementOf(f) \in DOMAIN id_to_node
         /\ ReplacementOf(f) = UniqueIDOf(f)
         /\ f \in File
         /\ m_needs_replacing[ReplacementOf(f)] \in ReplaceWith
<1> DEFINE r == ReplacementOf(f)
<1>1. PICK i \in NeedsReplacing : m_needs_replacing[i].path = f
  BY DEF ReplacedPaths
<1>2. r \in NeedsReplacing /\ m_needs_replacing[r].path = f
  BY <1>1 DEF ReplacementOf
<1>3. r \in DOMAIN id_to_node /\ r[1] = f
  BY <1>2 DEF IInv, ScanState, NeedsReplacing
<1>4. r = UniqueIDOf(f)
  BY <1>3 DEF IInv, VerticesIdentified
<1>5. m_needs_replacing[r] \in ReplaceWith
  BY <1>2 DEF IInv, TypeOK, NeedsReplacing
<1>6. f \in File
  BY <1>2, <1>5 DEF ReplaceWith
<1> QED BY <1>2, <1>3, <1>4, <1>5, <1>6

LEMMA EntriesMovedIdentify ==
  ASSUME IInv, id_to_node' = EntriesMoved, nodes' = nodes,
         DOMAIN overwrites' = DOMAIN overwrites \cup ReplacedPaths
  PROVE  /\ VerticesIdentified'
         /\ DOMAIN id_to_node' \subseteq UniqueID
         /\ \A u \in DOMAIN id_to_node' : id_to_node'[u] \in FileState
<1> DEFINE kept == DOMAIN id_to_node \ NeedsReplacing
           moved == {<<f, TRUE>> : f \in ReplacedPaths}
<1>1. /\ DOMAIN id_to_node' = kept \cup moved
      /\ \A u \in kept : id_to_node'[u] = id_to_node[u]
      /\ \A u \in moved \ kept :
           id_to_node'[u] = id_to_node[ReplacementOf(u[1])]
  BY DEF EntriesMoved
<1>2. ASSUME NEW u \in kept PROVE u[1] \notin ReplacedPaths
  <2>1. SUFFICES ASSUME u[1] \in ReplacedPaths PROVE FALSE
    OBVIOUS
  <2>2. ReplacementOf(u[1]) = UniqueIDOf(u[1])
    BY <2>1, ReplacementKnown
  <2>3. u = UniqueIDOf(u[1])
    BY <1>2 DEF IInv, VerticesIdentified
  <2>4. ReplacementOf(u[1]) \in NeedsReplacing
    BY <2>1, ReplacementKnown
  <2> QED BY <1>2, <2>2, <2>3, <2>4
<1>3. ASSUME NEW f \in ReplacedPaths
      PROVE  /\ <<f, TRUE>> \in DOMAIN id_to_node'
             /\ id_to_node'[<<f, TRUE>>] = id_to_node[UniqueIDOf(f)]
             /\ UniqueIDOf(f) \in DOMAIN id_to_node
             /\ <<f, TRUE>> \in UniqueID
  <2>1. <<f, TRUE>> \in moved \ kept
    BY <1>2
  <2>2. f \in File
    BY ReplacementKnown
  <2> QED BY <2>1, <2>2, <1>1, ReplacementKnown DEF UniqueID
<1>4. ASSUME NEW u \in kept PROVE u = UniqueIDOf(u[1])'
  <2>1. u = UniqueIDOf(u[1])
    BY <1>4 DEF IInv, VerticesIdentified
  <2>2. (u[1] \in DOMAIN overwrites') = (u[1] \in DOMAIN overwrites)
    BY <1>2, <1>4
  <2> QED BY <2>1, <2>2 DEF UniqueIDOf
<1>5. ASSUME NEW f \in ReplacedPaths PROVE <<f, TRUE>> = UniqueIDOf(f)'
  BY <1>5, Zenon DEF UniqueIDOf
<1>6. ASSUME NEW f \in ReplacedPaths
      PROVE  /\ id_to_node'[<<f, TRUE>>] \in FileState
             /\ id_to_node'[<<f, TRUE>>].v \in DOMAIN nodes
             /\ nodes[id_to_node'[<<f, TRUE>>].v].path = f
  <2>1. f \in File
    BY ReplacementKnown
  <2> QED BY <2>1, <1>3, UniqueIDTyped DEF IInv, TypeOK, VerticesIdentified
<1>7. ASSUME NEW u \in DOMAIN id_to_node'
      PROVE  /\ u \in UniqueID
             /\ id_to_node'[u] \in FileState
             /\ id_to_node'[u].v \in DOMAIN nodes
             /\ nodes[id_to_node'[u].v].path = u[1]
             /\ u = UniqueIDOf(u[1])'
  <2>1. CASE u \in kept
    BY <2>1, <1>1, <1>4 DEF IInv, TypeOK, VerticesIdentified
  <2>2. CASE u \in moved
    <3>1. PICK f \in ReplacedPaths : u = <<f, TRUE>>
      BY <2>2
    <3>2. u[1] = f
      BY <3>1
    <3> QED BY <3>1, <3>2, <1>3, <1>5, <1>6
  <2> QED BY <2>1, <2>2, <1>1
<1>8. ASSUME NEW v \in DOMAIN nodes
      PROVE  \E u \in DOMAIN id_to_node' : id_to_node'[u].v = v
  <2>1. PICK u \in DOMAIN id_to_node : id_to_node[u].v = v
    BY DEF IInv, VerticesIdentified
  <2>2. CASE u \in kept
    BY <2>1, <2>2, <1>1
  <2>3. CASE u \in NeedsReplacing
    <3>1. u[1] \in ReplacedPaths
      BY <2>3 DEF IInv, ScanState, NeedsReplacing, ReplacedPaths
    <3>2. u = UniqueIDOf(u[1])
      BY <2>1 DEF IInv, VerticesIdentified
    <3> QED BY <3>1, <3>2, <2>1, <1>3
  <2> QED BY <2>1, <2>2, <2>3
<1> QED BY <1>7, <1>8 DEF VerticesIdentified

LEMMA EndSourceFileActionKeeps ==
  ASSUME IInv, EndSourceFileAction
  PROVE  IInv'
<1>1. DOMAIN overwrites' = DOMAIN overwrites \cup ReplacedPaths
  BY DEF EndSourceFileAction
<1>2. /\ VerticesIdentified'
      /\ DOMAIN id_to_node' \subseteq UniqueID
      /\ \A u \in DOMAIN id_to_node' : id_to_node'[u] \in FileState
  BY <1>1, EntriesMovedIdentify DEF EndSourceFileAction, resultVars
<1>3. /\ DOMAIN overwrites' \subseteq File
      /\ \A f \in DOMAIN overwrites' : overwrites'[f] \in Seq(Item)
  <2>1. ASSUME NEW f \in ReplacedPaths
        PROVE f \in File /\ overwrites'[f] \in Seq(Item)
    BY ReplacementKnown DEF EndSourceFileAction, ReplaceWith
  <2>2. ASSUME NEW f \in DOMAIN overwrites, f \notin ReplacedPaths
        PROVE f \in File /\ overwrites'[f] \in Seq(Item)
    BY <2>2 DEF EndSourceFileAction, IInv, TypeOK
  <2> QED BY <2>1, <2>2, <1>1
<1>4. m_replaced' \subseteq Nat
  BY DEF EndSourceFileAction, NeedsReplacing, ReplaceWith, IInv, TypeOK
<1>5. TypeOK'
  <2>1. /\ DOMAIN m_needs_replacing' = {}
        /\ m_stack' \in Seq(InProgress) /\ frames' \in Seq(Frame)
        /\ phase' = "idle"
    BY DEF EndSourceFileAction
  <2>2. UNCHANGED <<program, abort, started, predefines, pending, macros, once,
                    controlling, lexed, accounted, nodes, edges, sources,
                    unguarded_files, missing_includes>>
    BY DEF EndSourceFileAction, resultVars
  <2> QED BY <2>1, <2>2, <1>2, <1>3, <1>4 DEF IInv, TypeOK
<1>6. StackInSync' /\ ScanState'
  BY DEF EndSourceFileAction, IInv, StackInSync, ScanState
<1> QED BY <1>2, <1>5, <1>6 DEF IInv

LEMMA FinishKeeps ==
  ASSUME IInv, Finish
  PROVE  IInv'
BY DEF Finish, IInv, TypeOK, StackInSync, VerticesIdentified, ScanState,
       UniqueIDOf, ppVars, resultVars

-----------------------------------------------------------------------------
(* A file that is met for the first time. *)

\* A map and a sequence of nodes that have their types and agree as
\* VerticesIdentified says.
Identified(map, ns) ==
  /\ DOMAIN map \subseteq UniqueID
  /\ \A u \in DOMAIN map : map[u] \in FileState
  /\ \A u \in DOMAIN map :
       /\ map[u].v \in DOMAIN ns
       /\ ns[map[u].v].path = u[1]
       /\ u = UniqueIDOf(u[1])
  /\ \A v \in DOMAIN ns : \E u \in DOMAIN map : map[u].v = v

LEMMA VertexAdded ==
  ASSUME IInv, NEW f \in File, UniqueIDOf(f) \notin DOMAIN id_to_node,
         NEW n \in Node, n.path = f,
         NEW ns, ns = Append(nodes, n),
         NEW map, map = Emplace(id_to_node, UniqueIDOf(f),
                                NewFileState(Len(nodes) + 1))
  PROVE  /\ ns \in Seq(Node) /\ Len(nodes) + 1 \in DOMAIN ns
         /\ \A v \in DOMAIN nodes : v \in DOMAIN ns
         /\ DOMAIN map = DOMAIN id_to_node \cup {UniqueIDOf(f)}
         /\ Identified(map, ns)
<1> DEFINE uid == UniqueIDOf(f)
           new == NewFileState(Len(nodes) + 1)
<1>1. nodes \in Seq(Node) /\ Len(nodes) + 1 \in Nat
  BY DEF IInv, TypeOK
<1>2. /\ ns \in Seq(Node) /\ DOMAIN ns = DOMAIN nodes \cup {Len(nodes) + 1}
      /\ ns[Len(nodes) + 1] = n
      /\ \A v \in DOMAIN nodes : ns[v] = nodes[v]
  BY <1>1
<1>3. /\ DOMAIN map = DOMAIN id_to_node \cup {uid}
      /\ \A u \in DOMAIN id_to_node : map[u] = id_to_node[u]
      /\ map[uid] = new
  BY DEF Emplace
<1>4. new \in FileState /\ new.v = Len(nodes) + 1
  BY <1>1, NewRecords DEF NewFileState
<1>5. uid \in UniqueID /\ uid[1] = f
  BY UniqueIDTyped
<1> HIDE DEF new, uid
<1>6. DOMAIN map \subseteq UniqueID
  BY <1>3, <1>5 DEF IInv, TypeOK
<1>7. \A u \in DOMAIN map : map[u] \in FileState
  BY <1>3, <1>4 DEF IInv, TypeOK
<1>8. ASSUME NEW u \in DOMAIN map
      PROVE  /\ map[u].v \in DOMAIN ns /\ ns[map[u].v].path = u[1]
             /\ u = UniqueIDOf(u[1])
  <2>1. CASE u \in DOMAIN id_to_node
    BY <2>1, <1>2, <1>3 DEF IInv, VerticesIdentified
  <2>2. CASE u = uid
    BY <2>2, <1>2, <1>3, <1>4, <1>5 DEF uid
  <2> QED BY <2>1, <2>2, <1>3
<1>9. ASSUME NEW v \in DOMAIN ns PROVE \E u \in DOMAIN map : map[u].v = v
  <2>1. CASE v \in DOMAIN nodes
    <3>1. PICK u \in DOMAIN id_to_node : id_to_node[u].v = v
      BY <2>1 DEF IInv, VerticesIdentified
    <3> QED BY <3>1, <1>3
  <2>2. CASE v = Len(nodes) + 1
    BY <2>2, <1>3, <1>4
  <2> QED BY <2>1, <2>2, <1>2
<1>10. Identified(map, ns)
  BY <1>6, <1>7, <1>8, <1>9 DEF Identified
<1> QED BY <1>2, <1>3, <1>10 DEF uid

LEMMA EnterSourceKeeps ==
  ASSUME IInv, EnterSource
  PROVE  IInv'
<1> DEFINE f == NextSource
           uid == UniqueIDOf(f)
           vertex == Len(nodes) + 1
           frame == [file |-> f, rest |-> Contents(f), candidate |-> FALSE]
           top == NewInProgress(uid)
<1>1. program \in Program /\ program.sources \in Seq(File)
      /\ program.forced \in Seq(File) /\ program.macros \subseteq MacroName
  BY ProgramFields DEF IInv, TypeOK
<1>2. f \in File
  <2>1. started + 1 \in DOMAIN program.sources
    BY <1>1 DEF EnterSource, MoreSources, IInv, TypeOK
  <2> QED BY <1>1, <2>1 DEF NextSource
<1>3. frame \in Frame /\ frame.file = f
  BY <1>2, ContentsTyped DEF Frame, IInv
<1>4. top \in InProgress /\ top.id = uid
  BY <1>2, UniqueIDTyped, NewRecords DEF NewInProgress
<1>5. FileNode(f, FALSE, FALSE) \in Node /\ FileNode(f, FALSE, FALSE).path = f
  BY <1>2, NewRecords DEF FileNode
<1>6. /\ nodes' \in Seq(Node)
      /\ DOMAIN id_to_node' = DOMAIN id_to_node \cup {uid}
      /\ Identified(id_to_node', nodes')
  <2> DEFINE n == FileNode(f, FALSE, FALSE)
  <2>1. /\ uid \notin DOMAIN id_to_node
        /\ nodes' = Append(nodes, n)
        /\ id_to_node' = Emplace(id_to_node, uid, NewFileState(Len(nodes) + 1))
    BY DEF EnterSource
  <2>2. n \in Node /\ n.path = f
    BY <1>5
  <2> DEFINE ns == nodes'
             map == id_to_node'
  <2> HIDE DEF n, f, ns, map
  <2>3. /\ f \in File /\ n \in Node /\ n.path = f
        /\ uid \notin DOMAIN id_to_node /\ ns = Append(nodes, n)
        /\ map = Emplace(id_to_node, uid, NewFileState(Len(nodes) + 1))
    BY <2>1, <2>2, <1>2 DEF ns, map
  <2>4. ns \in Seq(Node)
    BY ONLY IInv, <2>3, VertexAdded
  <2>5. Identified(map, ns)
    BY ONLY IInv, <2>3, VertexAdded
  <2>6. DOMAIN map = DOMAIN id_to_node \cup {uid}
    BY ONLY IInv, <2>3, VertexAdded
  <2> QED BY <2>4, <2>5, <2>6 DEF ns, map
<1>7. predefines' \in Seq({Include(g) : g \in File})
  <2>1. predefines' = [i \in 1..Len(program.forced) |-> Include(program.forced[i])]
    BY <1>1 DEF EnterSource
  <2>2. \A i \in 1..Len(program.forced) :
          Include(program.forced[i]) \in {Include(g) : g \in File}
    BY <1>1
  <2>3. Len(program.forced) \in Nat
    BY <1>1
  <2> QED BY <2>1, <2>2, <2>3
<1>8. m_stack' = <<top>> /\ frames' = <<frame>>
  BY DEF EnterSource
<1>9. vertex \in Nat
  BY DEF IInv, TypeOK
<1> HIDE DEF frame, top
<1>10. TypeOK'
  <2>1. m_stack' \in Seq(InProgress) /\ frames' \in Seq(Frame)
    BY <1>3, <1>4, <1>8
  <2>2. sources' \in Seq(Nat) /\ started' \in Nat
    BY <1>9 DEF EnterSource, IInv, TypeOK
  <2>3. phase' = "preprocess" /\ macros' \subseteq MacroName
    BY <1>1 DEF EnterSource
  <2> QED BY <2>1, <2>2, <2>3, <1>6, <1>7
          DEF EnterSource, Identified, IInv, TypeOK
<1>11. StackInSync'
  <2>1. Len(m_stack') = 1 /\ Len(frames') = 1 /\ DOMAIN m_stack' = {1}
        /\ m_stack'[1].id = uid /\ frames'[1].file = f
    BY <1>3, <1>4, <1>8
  <2>2. pending' = NoFile /\ phase' = "preprocess" /\ overwrites' = overwrites
    BY DEF EnterSource, MoreSources, IInv, ScanState
  <2> QED BY <2>1, <2>2, <1>6 DEF StackInSync, UniqueIDOf
<1>12. VerticesIdentified'
  BY <1>6 DEF EnterSource, VerticesIdentified, Identified, UniqueIDOf
<1>13. ScanState'
  <2>1. frames' # <<>>
    BY <1>8
  <2> QED BY <2>1, <1>6 DEF EnterSource, MoreSources, IInv, ScanState
<1> QED BY <1>10, <1>11, <1>12, <1>13 DEF IInv

LEMMA WithIncomingTyped ==
  ASSUME NEW ns \in Seq(Node), NEW from \in DOMAIN ns, NEW to \in DOMAIN ns
  PROVE  /\ WithIncoming(ns, from, to) \in Seq(Node)
         /\ DOMAIN WithIncoming(ns, from, to) = DOMAIN ns
         /\ \A v \in DOMAIN ns : WithIncoming(ns, from, to)[v].path = ns[v].path
<1> DEFINE old == ns[to]
           new == [old EXCEPT
             !.internal_incoming = IF ns[from].is_external THEN @ ELSE @ + 1,
             !.external_incoming = IF ns[from].is_external THEN @ + 1 ELSE @]
           internal == IF ns[from].is_external THEN old.internal_incoming
                       ELSE old.internal_incoming + 1
           external == IF ns[from].is_external THEN old.external_incoming + 1
                       ELSE old.external_incoming
<1>1. old \in Node
  OBVIOUS
<1>2. new \in Node /\ new.path = old.path
  <2>1. internal \in Nat /\ external \in Nat
    BY <1>1, SMTT(30) DEF Node
  <2>2. new = [old EXCEPT !.internal_incoming = internal,
                          !.external_incoming = external]
    OBVIOUS
  <2> HIDE DEF new, internal, external, old
  <2> QED BY <1>1, <2>1, <2>2, ZenonT(30) DEF Node
<1>3. WithIncoming(ns, from, to) = [ns EXCEPT ![to] = new]
  BY DEF WithIncoming
<1> HIDE DEF new
<1> QED BY <1>2, <1>3, SeqExcept

LEMMA ComponentSet ==
  ASSUME NEW ns \in Seq(Node), NEW w \in DOMAIN ns, NEW x \in Nat
  PROVE  /\ [ns EXCEPT ![w].component = x] \in Seq(Node)
         /\ DOMAIN [ns EXCEPT ![w].component = x] = DOMAIN ns
         /\ \A v \in DOMAIN ns :
              [ns EXCEPT ![w].component = x][v].path = ns[v].path
<1> DEFINE new == [ns[w] EXCEPT !.component = x]
<1>1. ns[w] \in Node
  OBVIOUS
<1>2. new \in Node /\ new.path = ns[w].path
  BY <1>1 DEF Node
<1>3. [ns EXCEPT ![w].component = x] = [ns EXCEPT ![w] = new]
  OBVIOUS
<1> HIDE DEF new
<1> QED BY <1>2, <1>3, SeqExcept

LEMMA WithComponentTyped ==
  ASSUME NEW ns \in Seq(Node), NEW from \in DOMAIN ns, NEW to \in DOMAIN ns
  PROVE  /\ WithComponent(ns, from, to) \in Seq(Node)
         /\ DOMAIN WithComponent(ns, from, to) = DOMAIN ns
         /\ \A v \in DOMAIN ns : WithComponent(ns, from, to)[v].path = ns[v].path
<1> DEFINE first == [ns EXCEPT ![to].component = from]
           both == [first EXCEPT ![from].component = to]
<1>1. from \in Nat /\ to \in Nat
  OBVIOUS
<1>2. /\ first \in Seq(Node) /\ DOMAIN first = DOMAIN ns
      /\ \A v \in DOMAIN ns : first[v].path = ns[v].path
  BY <1>1, ComponentSet
<1>3. /\ both \in Seq(Node) /\ DOMAIN both = DOMAIN first
      /\ \A v \in DOMAIN first : both[v].path = first[v].path
  <2> HIDE DEF first
  <2> QED BY <1>1, <1>2, ComponentSet
<1>4. WithComponent(ns, from, to) \in {ns, both}
  BY DEF WithComponent
<1> HIDE DEF first, both
<1> QED BY <1>2, <1>3, <1>4

LEMMA IdentifiedKept ==
  ASSUME NEW map, NEW ns, Identified(map, ns), NEW map2, NEW ns2,
         DOMAIN map2 = DOMAIN map, DOMAIN ns2 = DOMAIN ns,
         \A u \in DOMAIN map : map2[u] \in FileState /\ map2[u].v = map[u].v,
         \A v \in DOMAIN ns : ns2[v].path = ns[v].path
  PROVE  Identified(map2, ns2)
BY SMTT(30) DEF Identified

LEMMA InclusionDirectiveGuard ==
  ASSUME InclusionDirective
  PROVE  IncludingFile /\ phase = "preprocess" /\ phase' = "preprocess"
<1>1. IncludingFile /\ phase' = phase
  BY Zenon DEF InclusionDirective
<1> QED BY <1>1 DEF IncludingFile, Lexing, Preprocessing

LEMMA InclusionDirectiveKeeps ==
  ASSUME IInv, InclusionDirective
  PROVE  IInv'
<1> USE DEF IncludingFile, Lexing, Preprocessing
<1> DEFINE f == Head(Remaining).file
           uid == UniqueIDOf(f)
           known == uid \in DOMAIN id_to_node
           k == Head(m_stack).id
           from == BackState.v
           to == IF known THEN id_to_node[uid].v ELSE Len(nodes) + 1
           node == FileNode(f, f \in program.external, IsPrecompiled(f))
           nodes1 == IF known THEN nodes ELSE Append(nodes, node)
           map1 == Emplace(id_to_node, uid, NewFileState(to))
           linked == WithComponent(WithIncoming(nodes1, from, to), from, to)
           old == map1[k]
           recorded == [old EXCEPT !.replacement_contents =
                          Append(@, Include(f))]
<1>1. f \in File /\ Include(f) \in Item
  BY InclusionDirectiveGuard, NextItem, ItemFields, MadeItems
<1>2. k \in DOMAIN id_to_node /\ from \in DOMAIN nodes
  BY InclusionDirectiveGuard, Back
<1>3. uid \in UniqueID /\ uid[1] = f
  BY <1>1, UniqueIDTyped
<1>4. /\ nodes1 \in Seq(Node) /\ from \in DOMAIN nodes1 /\ to \in DOMAIN nodes1
      /\ Identified(map1, nodes1)
      /\ DOMAIN map1 = DOMAIN id_to_node \cup {uid}
  <2>1. CASE known
    <3>1. nodes1 = nodes /\ to = id_to_node[uid].v
      BY <2>1
    <3>2. to \in DOMAIN nodes
      BY <2>1, <3>1 DEF IInv, VerticesIdentified
    <3>3. /\ DOMAIN map1 = DOMAIN id_to_node
          /\ \A u \in DOMAIN id_to_node : map1[u] = id_to_node[u]
      BY <2>1 DEF Emplace
    <3> HIDE DEF map1, nodes1, to
    <3>4. Identified(map1, nodes)
      BY <3>3 DEF Identified, IInv, TypeOK, VerticesIdentified
    <3> QED BY <1>2, <2>1, <3>1, <3>2, <3>3, <3>4 DEF IInv, TypeOK
  <2>2. CASE ~known
    <3>1. node \in Node /\ node.path = f
      <4>1. (f \in program.external) \in BOOLEAN
        OBVIOUS
      <4>2. IsPrecompiled(f) \in BOOLEAN
        BY DEF IsPrecompiled
      <4>3. \A e, p \in BOOLEAN : FileNode(f, e, p) \in Node
        BY <1>1, NewRecords
      <4>4. node \in Node
        BY <4>1, <4>2, <4>3, Zenon
      <4> QED BY <4>4 DEF FileNode
    <3>2. /\ nodes1 = Append(nodes, node) /\ to = Len(nodes) + 1
          /\ map1 = Emplace(id_to_node, uid, NewFileState(Len(nodes) + 1))
      BY <2>2
    <3> HIDE DEF node, nodes1, map1, to, f
    <3>3. /\ f \in File /\ node \in Node /\ node.path = f
          /\ uid \notin DOMAIN id_to_node /\ nodes1 = Append(nodes, node)
          /\ map1 = Emplace(id_to_node, uid, NewFileState(Len(nodes) + 1))
      BY <1>1, <2>2, <3>1, <3>2
    <3>4. nodes1 \in Seq(Node)
      BY ONLY IInv, <3>3, VertexAdded
    <3>5. Identified(map1, nodes1)
      BY ONLY IInv, <3>3, VertexAdded
    <3>6. DOMAIN map1 = DOMAIN id_to_node \cup {uid}
      BY ONLY IInv, <3>3, VertexAdded
    <3>7. Len(nodes) + 1 \in DOMAIN nodes1
      BY ONLY IInv, <3>3, VertexAdded
    <3>8. from \in DOMAIN nodes1
      BY <1>2, <3>3 DEF IInv, TypeOK
    <3> QED BY <3>2, <3>4, <3>5, <3>6, <3>7, <3>8
  <2> QED BY <2>1, <2>2
<1>5. /\ \/ nodes' = nodes1 /\ edges' = edges /\ id_to_node' = map1
         \/ /\ nodes' = linked
            /\ \E r \in BOOLEAN : edges' = edges \cup
                 {[from |-> from, to |-> to, is_removable |-> r]}
            /\ id_to_node' \in
                 {map1, [map1 EXCEPT ![k].replacement_contents =
                                       Append(@, Include(f))]}
      /\ pending' = f /\ Advance
      /\ UNCHANGED <<program, phase, abort, started, macros, once, controlling,
                     lexed, m_stack, accounted, m_needs_replacing, m_replaced,
                     sources, unguarded_files, missing_includes, overwrites>>
  <2>1. CASE HasEdge(from, to)
    BY <2>1, Zenon DEF InclusionDirective
  <2>2. CASE ~HasEdge(from, to)
    <3> DEFINE r == ~InPredefines /\ ~IsComponent(nodes1, from, to)
    <3>1. r \in BOOLEAN
      OBVIOUS
    <3>2. edges' = edges \cup {[from |-> from, to |-> to, is_removable |-> r]}
      BY <2>2, Zenon DEF InclusionDirective
    <3>3. \E q \in BOOLEAN : edges' = edges \cup
            {[from |-> from, to |-> to, is_removable |-> q]}
      BY <3>1, <3>2, Zenon
    <3> QED BY <2>2, <3>3, Zenon DEF InclusionDirective
  <2> QED BY <2>1, <2>2
<1>6. /\ linked \in Seq(Node) /\ DOMAIN linked = DOMAIN nodes1
      /\ \A v \in DOMAIN nodes1 : linked[v].path = nodes1[v].path
  <2> HIDE DEF nodes1, from, to
  <2> DEFINE counted == WithIncoming(nodes1, from, to)
  <2>1. /\ counted \in Seq(Node) /\ DOMAIN counted = DOMAIN nodes1
        /\ \A v \in DOMAIN nodes1 : counted[v].path = nodes1[v].path
    BY <1>4, WithIncomingTyped
  <2> HIDE DEF counted
  <2>2. /\ WithComponent(counted, from, to) \in Seq(Node)
        /\ DOMAIN WithComponent(counted, from, to) = DOMAIN counted
        /\ \A v \in DOMAIN counted :
             WithComponent(counted, from, to)[v].path = counted[v].path
    <3>1. counted \in Seq(Node) /\ from \in DOMAIN counted /\ to \in DOMAIN counted
      BY <1>4, <2>1
    <3> QED BY ONLY <3>1, WithComponentTyped
  <2> QED BY <2>1, <2>2 DEF counted
<1>7. k \in DOMAIN map1 /\ \A u \in DOMAIN map1 : map1[u] \in FileState
  BY <1>2, <1>4 DEF Identified
<1>8. recorded \in FileState /\ recorded.v = old.v
  <2>1. old \in FileState
    BY <1>7
  <2> HIDE DEF old
  <2>2. Append(old.replacement_contents, Include(f)) \in Seq(Item)
    BY <1>1, <2>1 DEF FileState
  <2> QED BY <2>1, <2>2 DEF FileState
<1>9. from \in Nat /\ to \in Nat
  BY <1>4
<1>10. id_to_node' \in {map1, [map1 EXCEPT ![k] = recorded]}
  BY <1>5, <1>7
<1> HIDE DEF f, k, from, to, node, nodes1, map1, linked, old, recorded
<1>11. /\ nodes' \in Seq(Node) /\ DOMAIN nodes' = DOMAIN nodes1
       /\ \A v \in DOMAIN nodes1 : nodes'[v].path = nodes1[v].path
  BY <1>4, <1>5, <1>6
<1>12. /\ DOMAIN id_to_node' = DOMAIN map1
       /\ \A u \in DOMAIN map1 :
            id_to_node'[u] \in FileState /\ id_to_node'[u].v = map1[u].v
  BY <1>7, <1>8, <1>10 DEF old
<1>13. Identified(id_to_node', nodes')
  <2> HIDE DEF nodes1, map1
  <2> QED BY ONLY <1>4, <1>11, <1>12, IdentifiedKept
<1>14. edges' \subseteq Edge
  <2>1. edges \subseteq Edge
    BY DEF IInv, TypeOK
  <2> QED BY <1>5, <1>9, <2>1 DEF Edge
<1>15. /\ frames' \in Seq(Frame)
       /\ predefines' \in Seq({Include(g) : g \in File})
       /\ Len(frames') = Len(frames)
       /\ \A i \in DOMAIN frames : frames'[i].file = frames[i].file
  BY <1>5, AdvanceTyped DEF InclusionDirective
<1>16. TypeOK'
  BY <1>1, <1>5, <1>11, <1>13, <1>14, <1>15 DEF Identified, IInv, TypeOK
<1>17. StackInSync'
  <2>1. UniqueIDOf(pending') \in DOMAIN id_to_node'
    BY <1>4, <1>5, <1>12
  <2>2. DOMAIN id_to_node \subseteq DOMAIN id_to_node'
    BY <1>4, <1>12
  <2>3. phase' = "preprocess"
    BY InclusionDirectiveGuard
  <2> QED BY <1>5, <1>15, <2>1, <2>2, <2>3, SameStack
<1>18. VerticesIdentified'
  BY <1>5, <1>13 DEF VerticesIdentified, Identified, UniqueIDOf
<1>19. ScanState'
  <2>1. phase' = "preprocess" /\ frames # <<>> /\ frames' # <<>>
    <3>1. phase = "preprocess" /\ phase' = phase
      BY ONLY InclusionDirectiveGuard, InclusionDirective
    <3>2. frames \in Seq(Frame) /\ frames # <<>>
      BY ONLY <3>1, Back, IInv
    <3>3. Len(frames') = Len(frames) /\ frames' \in Seq(Frame)
      BY <1>15
    <3> QED BY ONLY <3>1, <3>2, <3>3
  <2>2. DOMAIN id_to_node \subseteq DOMAIN id_to_node'
    BY <1>4, <1>12
  <2> QED BY <1>5, <2>1, <2>2 DEF IInv, ScanState
<1> QED BY <1>16, <1>17, <1>18, <1>19 DEF IInv

-----------------------------------------------------------------------------
LEMMA InductiveInvariant == Spec => []IInv
<1>1. Init => IInv
  BY ProgramsAssumption, NoFileAssumption
  DEF Init, IInv, TypeOK, StackInSync, VerticesIdentified, ScanState
<1>2. IInv /\ [Next]_vars => IInv'
  <2> SUFFICES ASSUME IInv, [Next]_vars PROVE IInv'
    OBVIOUS
  <2>1. CASE EnterSource \/ SourceSeenBefore
    BY <2>1, EnterSourceKeeps, FailKeeps DEF SourceSeenBefore
  <2>2. CASE Scan
    <3>1. CASE LexTokens \/ SkipExcluded \/ PragmaOnce \/ PragmaDirective
      BY <3>1, LexTokensKeeps, SkipExcludedKeeps, PragmaOnceKeeps,
         PragmaDirectiveKeeps
    <3>2. CASE IfOrIfndef \/ MacroDefined \/ MacroUndefined
      BY <3>2, IfOrIfndefKeeps, MacroDefinedKeeps, MacroUndefinedKeeps
    <3>3. CASE MissingInclude \/ InclusionDirective \/ InclusionFromDone
      BY <3>3, MissingIncludeKeeps, InclusionDirectiveKeeps,
         InclusionFromDoneKeeps
    <3>4. CASE NewIncludeFromDone \/ EnterFile \/ FileSkipped
      BY <3>4, FailKeeps, EnterFileKeeps, FileSkippedKeeps
      DEF NewIncludeFromDone
    <3>5. CASE ExitUnguarded \/ ExitGuardedFirst \/ CostAssignedTwice
      BY <3>5, ExitUnguardedKeeps, ExitGuardedFirstKeeps, FailKeeps
      DEF CostAssignedTwice
    <3>6. CASE ExitGuardedAgain \/ EndOfMainFile
      BY <3>6, ExitGuardedAgainKeeps, EndOfMainFileKeeps
    <3> QED BY <2>2, <3>1, <3>2, <3>3, <3>4, <3>5, <3>6 DEF Scan
  <2>3. CASE EndSourceFileAction \/ Finish
    BY <2>3, EndSourceFileActionKeeps, FinishKeeps
  <2>4. CASE Stutter \/ UNCHANGED vars
    BY <2>4, UnchangedKeepsIInv DEF Stutter
  <2> QED BY <2>1, <2>2, <2>3, <2>4 DEF Next
<1> QED BY <1>1, <1>2, PTL DEF Spec

(* The types of graph.hpp and build_graph.cpp hold in every analysis.      *)
THEOREM TypesPreserved == Spec => []TypeOK
<1>1. IInv => TypeOK
  BY DEF IInv
<1> QED BY <1>1, InductiveInvariant, PTL

(* m_stack follows clang's include stack, and every file on it is found in *)
(* the map under the id the file system gives it: the asserts at lines 487 *)
(* and 492 cannot fail, whatever the program.                              *)
THEOREM StackFollowsClang == Spec => []StackInSync
<1>1. IInv => StackInSync
  BY DEF IInv
<1> QED BY <1>1, InductiveInvariant, PTL

(* Files and vertices correspond one to one in every analysis, across the  *)
(* replacement of files between translation units.                         *)
THEOREM FilesAreVertices == Spec => []VerticesIdentified
<1>1. IInv => VerticesIdentified
  BY DEF IInv
<1> QED BY <1>1, InductiveInvariant, PTL

-----------------------------------------------------------------------------
(***************************************************************************)
(* The edges of the include graph and the counters of its vertices: there  *)
(* is one edge for a pair of files, and every edge is counted once, on the *)
(* side its includer is on.                                                *)
(***************************************************************************)

(* The edges to v from files that are external, or that are not.           *)
In(es, ns, v, external) ==
  {e \in es : e.to = v /\ ns[e.from].is_external = external}

CountsEdges(es, ns) ==
  /\ IsFiniteSet(es)
  /\ \A e \in es : e.from \in DOMAIN ns /\ e.to \in DOMAIN ns
  /\ \A d, e \in es : d.from = e.from /\ d.to = e.to => d = e
  /\ \A v \in DOMAIN ns :
       /\ ns[v].internal_incoming = Cardinality(In(es, ns, v, FALSE))
       /\ ns[v].external_incoming = Cardinality(In(es, ns, v, TRUE))

(* The invariant: with the types it gives IncomingCounted.                 *)
EdgesCounted == CountsEdges(edges, nodes)

SameCounters(n, m) ==
  /\ n.is_external = m.is_external
  /\ n.internal_incoming = m.internal_incoming
  /\ n.external_incoming = m.external_incoming

-----------------------------------------------------------------------------
(* Lemmas about a graph that grows. *)

(* Nothing else of a vertex matters to the counters.                       *)
LEMMA CountsKept ==
  ASSUME NEW es, NEW ns, NEW ns2, CountsEdges(es, ns), DOMAIN ns2 = DOMAIN ns,
         \A v \in DOMAIN ns : SameCounters(ns2[v], ns[v])
  PROVE  CountsEdges(es, ns2)
<1>1. \A e \in es : ns2[e.from].is_external = ns[e.from].is_external
  BY DEF CountsEdges, SameCounters
<1>2. \A v, x : In(es, ns2, v, x) = In(es, ns, v, x)
  BY <1>1 DEF In
<1>3. \A v \in DOMAIN ns2 :
        /\ ns2[v].internal_incoming = Cardinality(In(es, ns2, v, FALSE))
        /\ ns2[v].external_incoming = Cardinality(In(es, ns2, v, TRUE))
  <2> TAKE v \in DOMAIN ns2
  <2>1. SameCounters(ns2[v], ns[v])
    OBVIOUS
  <2>2. /\ ns[v].internal_incoming = Cardinality(In(es, ns, v, FALSE))
        /\ ns[v].external_incoming = Cardinality(In(es, ns, v, TRUE))
    BY DEF CountsEdges
  <2>3. /\ In(es, ns2, v, FALSE) = In(es, ns, v, FALSE)
        /\ In(es, ns2, v, TRUE) = In(es, ns, v, TRUE)
    BY <1>2
  <2> QED BY <2>1, <2>2, <2>3 DEF SameCounters
<1>4. /\ IsFiniteSet(es)
      /\ \A e \in es : e.from \in DOMAIN ns2 /\ e.to \in DOMAIN ns2
  BY DEF CountsEdges
<1>5. \A d, e \in es : d.from = e.from /\ d.to = e.to => d = e
  BY DEF CountsEdges
<1> QED BY <1>3, <1>4, <1>5 DEF CountsEdges

(* A new vertex has no edges.                                              *)
LEMMA CountsWithVertex ==
  ASSUME NEW es, NEW ns \in Seq(Node), CountsEdges(es, ns), NEW n \in Node,
         n.internal_incoming = 0, n.external_incoming = 0
  PROVE  CountsEdges(es, Append(ns, n))
<1> DEFINE ns2 == Append(ns, n)
           new == Len(ns) + 1
<1>1. /\ DOMAIN ns2 = DOMAIN ns \cup {new} /\ new \notin DOMAIN ns
      /\ ns2[new] = n /\ \A v \in DOMAIN ns : ns2[v] = ns[v]
  OBVIOUS
<1> HIDE DEF ns2, new
<1>2. \A v, x : In(es, ns2, v, x) = In(es, ns, v, x)
  BY <1>1 DEF In, CountsEdges
<1>3. \A x : In(es, ns, new, x) = {}
  BY <1>1 DEF In, CountsEdges
<1>4. ASSUME NEW v \in DOMAIN ns2
      PROVE  /\ ns2[v].internal_incoming = Cardinality(In(es, ns2, v, FALSE))
             /\ ns2[v].external_incoming = Cardinality(In(es, ns2, v, TRUE))
  <2>1. CASE v = new
    <3>1. In(es, ns2, v, FALSE) = {} /\ In(es, ns2, v, TRUE) = {}
      BY <1>2, <1>3, <2>1, Zenon
    <3>2. ns2[v].internal_incoming = 0 /\ ns2[v].external_incoming = 0
      BY <1>1, <2>1
    <3> QED BY <3>1, <3>2, FS_EmptySet
  <2>2. CASE v \in DOMAIN ns
    <3>1. ns2[v] = ns[v]
      BY <1>1, <2>2
    <3>2. /\ ns[v].internal_incoming = Cardinality(In(es, ns, v, FALSE))
          /\ ns[v].external_incoming = Cardinality(In(es, ns, v, TRUE))
      BY <2>2, Zenon DEF CountsEdges
    <3> QED BY <1>2, <3>1, <3>2, Zenon
  <2> QED BY <1>1, <2>1, <2>2
<1>5. \A e \in es : e.from \in DOMAIN ns2 /\ e.to \in DOMAIN ns2
  BY <1>1 DEF CountsEdges
<1> QED BY <1>4, <1>5 DEF CountsEdges, ns2

(* The guess of a component does not touch the counters.                   *)
LEMMA ComponentKeepsCounters ==
  ASSUME NEW ns \in Seq(Node), NEW w \in DOMAIN ns, NEW x \in Nat,
         NEW v \in DOMAIN ns
  PROVE  SameCounters([ns EXCEPT ![w].component = x][v], ns[v])
<1> DEFINE new == [ns[w] EXCEPT !.component = x]
<1>1. ns[w] \in Node
  OBVIOUS
<1>2. SameCounters(new, ns[w])
  BY <1>1 DEF Node, SameCounters
<1>3. [ns EXCEPT ![w].component = x] = [ns EXCEPT ![w] = new]
  OBVIOUS
<1> HIDE DEF new
<1>4. [ns EXCEPT ![w] = new][v] = IF v = w THEN new ELSE ns[v]
  OBVIOUS
<1> QED BY <1>2, <1>3, <1>4 DEF SameCounters

LEMMA WithComponentKeepsCounters ==
  ASSUME NEW ns \in Seq(Node), NEW from \in DOMAIN ns, NEW to \in DOMAIN ns
  PROVE  \A v \in DOMAIN ns : SameCounters(WithComponent(ns, from, to)[v], ns[v])
<1> SUFFICES ASSUME NEW v \in DOMAIN ns
             PROVE  SameCounters(WithComponent(ns, from, to)[v], ns[v])
  OBVIOUS
<1> DEFINE first == [ns EXCEPT ![to].component = from]
           both == [first EXCEPT ![from].component = to]
<1>1. from \in Nat /\ to \in Nat
  OBVIOUS
<1>2. first \in Seq(Node) /\ DOMAIN first = DOMAIN ns
  BY <1>1, ComponentSet
<1>3. SameCounters(first[v], ns[v])
  BY <1>1, ComponentKeepsCounters
<1>4. SameCounters(both[v], first[v])
  <2> HIDE DEF first
  <2> QED BY <1>1, <1>2, ComponentKeepsCounters
<1>5. WithComponent(ns, from, to) \in {ns, both}
  BY DEF WithComponent
<1> HIDE DEF first, both
<1> QED BY <1>3, <1>4, <1>5 DEF SameCounters

(* The counter of the side the includer is on goes up by one.              *)
LEMMA WithIncomingCounts ==
  ASSUME NEW ns \in Seq(Node), NEW from \in DOMAIN ns, NEW to \in DOMAIN ns
  PROVE  LET n == WithIncoming(ns, from, to)[to]
         IN  /\ n.is_external = ns[to].is_external
             /\ n.internal_incoming =
                  IF ns[from].is_external THEN ns[to].internal_incoming
                  ELSE ns[to].internal_incoming + 1
             /\ n.external_incoming =
                  IF ns[from].is_external THEN ns[to].external_incoming + 1
                  ELSE ns[to].external_incoming
             /\ \A v \in DOMAIN ns :
                  v # to => WithIncoming(ns, from, to)[v] = ns[v]
<1> DEFINE old == ns[to]
           internal == IF ns[from].is_external THEN old.internal_incoming
                       ELSE old.internal_incoming + 1
           external == IF ns[from].is_external THEN old.external_incoming + 1
                       ELSE old.external_incoming
           new == [old EXCEPT !.internal_incoming = internal,
                              !.external_incoming = external]
<1>1. old \in Node
  OBVIOUS
<1>2. WithIncoming(ns, from, to) = [ns EXCEPT ![to] = new]
  BY DEF WithIncoming
<1>3. /\ new.is_external = old.is_external
      /\ new.internal_incoming = internal /\ new.external_incoming = external
  <2> HIDE DEF internal, external, old
  <2> QED BY <1>1, ZenonT(30) DEF Node
<1> HIDE DEF new, internal, external
<1>4. /\ WithIncoming(ns, from, to)[to] = new
      /\ \A v \in DOMAIN ns : v # to => WithIncoming(ns, from, to)[v] = ns[v]
  BY <1>2
<1> QED BY <1>3, <1>4 DEF internal, external

(* The new edge of an inclusion is counted where it ends.                  *)
LEMMA CountsWithEdge ==
  ASSUME NEW es, NEW ns \in Seq(Node), CountsEdges(es, ns),
         NEW from \in DOMAIN ns, NEW to \in DOMAIN ns,
         ~\E e \in es : e.from = from /\ e.to = to, NEW r
  PROVE  CountsEdges(es \cup {[from |-> from, to |-> to, is_removable |-> r]},
                     WithIncoming(ns, from, to))
<1> DEFINE edge == [from |-> from, to |-> to, is_removable |-> r]
           es2 == es \cup {edge}
           ns2 == WithIncoming(ns, from, to)
           side == ns[from].is_external
<1>1. edge.from = from /\ edge.to = to /\ edge \notin es
  OBVIOUS
<1>2. side \in BOOLEAN
  <2>1. ns[from] \in Node
    OBVIOUS
  <2> QED BY <2>1 DEF Node
<1> HIDE DEF edge, side
<1>3. DOMAIN ns2 = DOMAIN ns
  BY WithIncomingTyped
<1>4. \A v \in DOMAIN ns : ns2[v].is_external = ns[v].is_external
  BY WithIncomingCounts
<1>5. \A v \in DOMAIN ns : v # to => ns2[v] = ns[v]
  BY WithIncomingCounts
<1>6. /\ ns2[to].internal_incoming = IF side THEN ns[to].internal_incoming
                                     ELSE ns[to].internal_incoming + 1
      /\ ns2[to].external_incoming = IF side THEN ns[to].external_incoming + 1
                                     ELSE ns[to].external_incoming
  BY WithIncomingCounts DEF side
<1> HIDE DEF ns2
<1>7. \A e \in es2 : e.from \in DOMAIN ns2 /\ e.to \in DOMAIN ns2
  BY <1>1, <1>3 DEF CountsEdges
<1>8. \A e \in es2 : ns2[e.from].is_external = ns[e.from].is_external
  BY <1>3, <1>4, <1>7
<1>9. \A v, x : v # to => In(es2, ns2, v, x) = In(es, ns, v, x)
  BY <1>1, <1>8 DEF In
<1>10. \A x : In(es2, ns2, to, x) =
               IF x = side THEN In(es, ns, to, x) \cup {edge}
               ELSE In(es, ns, to, x)
  BY <1>1, <1>8 DEF In, side
<1>11. \A x : /\ IsFiniteSet(In(es, ns, to, x)) /\ edge \notin In(es, ns, to, x)
               /\ Cardinality(In(es, ns, to, x) \cup {edge}) =
                    Cardinality(In(es, ns, to, x)) + 1
  <2> TAKE x
  <2>1. In(es, ns, to, x) \subseteq es
    BY DEF In
  <2>2. IsFiniteSet(In(es, ns, to, x)) /\ edge \notin In(es, ns, to, x)
    BY <1>1, <2>1, FS_Subset DEF CountsEdges
  <2> QED BY <2>2, FS_AddElement
<1>12. ASSUME NEW v \in DOMAIN ns2
       PROVE  /\ ns2[v].internal_incoming = Cardinality(In(es2, ns2, v, FALSE))
              /\ ns2[v].external_incoming = Cardinality(In(es2, ns2, v, TRUE))
  <2>1. CASE v # to
    <3>1. ns2[v] = ns[v] /\ v \in DOMAIN ns
      BY <1>3, <1>5, <2>1
    <3>2. /\ In(es2, ns2, v, FALSE) = In(es, ns, v, FALSE)
          /\ In(es2, ns2, v, TRUE) = In(es, ns, v, TRUE)
      BY <1>9, <2>1
    <3>3. /\ ns[v].internal_incoming = Cardinality(In(es, ns, v, FALSE))
          /\ ns[v].external_incoming = Cardinality(In(es, ns, v, TRUE))
      BY <3>1, Zenon DEF CountsEdges
    <3> QED BY <3>1, <3>2, <3>3, Zenon
  <2>2. CASE v = to /\ side
    <3>1. /\ In(es2, ns2, to, FALSE) = In(es, ns, to, FALSE)
          /\ In(es2, ns2, to, TRUE) = In(es, ns, to, TRUE) \cup {edge}
      BY <1>2, <1>10, <2>2, Zenon
    <3> QED BY <1>6, <1>11, <2>2, <3>1 DEF CountsEdges
  <2>3. CASE v = to /\ ~side
    <3>1. /\ In(es2, ns2, to, TRUE) = In(es, ns, to, TRUE)
          /\ In(es2, ns2, to, FALSE) = In(es, ns, to, FALSE) \cup {edge}
      BY <1>2, <1>10, <2>3, Zenon
    <3> QED BY <1>6, <1>11, <2>3, <3>1 DEF CountsEdges
  <2> QED BY <2>1, <2>2, <2>3
<1>13. \A d, e \in es2 : d.from = e.from /\ d.to = e.to => d = e
  BY <1>1 DEF CountsEdges
<1>14. IsFiniteSet(es2)
  BY FS_AddElement DEF CountsEdges
<1> QED BY <1>7, <1>12, <1>13, <1>14 DEF CountsEdges, edge, ns2

-----------------------------------------------------------------------------
(* The steps of the scanner. *)

(* Leaving a file changes neither edges nor counters.                      *)
LEMMA LeavingKeepsCounters ==
  ASSUME IInv, ExitGuardedFirst \/ EndOfMainFile
  PROVE  /\ edges' = edges /\ DOMAIN nodes' = DOMAIN nodes
         /\ \A v \in DOMAIN nodes : SameCounters(nodes'[v], nodes[v])
<1>1. phase = "preprocess"
  BY DEF ExitGuardedFirst, LeavingFile, EndOfMainFile, Preprocessing
<1>2. BackState.v \in DOMAIN nodes /\ nodes[BackState.v] \in Node
  BY <1>1, Back
<1>3. edges' = edges
  BY DEF ExitGuardedFirst, EndOfMainFile, LeaveFile
<1> DEFINE w == BackState.v
           cost == LeavingCost
           guarded == [nodes[w] EXCEPT !.is_guarded = TRUE,
                                       !.underlying_cost = cost]
           costed == [nodes[w] EXCEPT !.underlying_cost = cost]
<1>4. nodes' \in {[nodes EXCEPT ![w] = guarded], [nodes EXCEPT ![w] = costed]}
  BY DEF ExitGuardedFirst, EndOfMainFile, MarkedGuarded
<1>5. SameCounters(guarded, nodes[w]) /\ SameCounters(costed, nodes[w])
  <2> HIDE DEF cost, w
  <2> QED BY <1>2 DEF SameCounters, Node, w
<1> HIDE DEF guarded, costed, w
<1>6. \A v \in DOMAIN nodes : \A x : [nodes EXCEPT ![w] = x][v] =
                                     IF v = w THEN x ELSE nodes[v]
  OBVIOUS
<1>7. DOMAIN nodes' = DOMAIN nodes
  BY <1>4
<1> QED BY <1>3, <1>4, <1>5, <1>6, <1>7 DEF SameCounters

(* A source starts without edges.                                          *)
LEMMA EnterSourceCounts ==
  ASSUME IInv, EdgesCounted, EnterSource
  PROVE  EdgesCounted'
<1>1. NextSource \in File
  <2>1. program.sources \in Seq(File)
    BY ProgramFields DEF IInv, TypeOK
  <2>2. started + 1 \in DOMAIN program.sources
    BY <2>1 DEF EnterSource, MoreSources, IInv, TypeOK
  <2> QED BY <2>1, <2>2 DEF NextSource
<1> DEFINE n == FileNode(NextSource, FALSE, FALSE)
<1>2. n \in Node /\ n.internal_incoming = 0 /\ n.external_incoming = 0
  BY <1>1, NewRecords DEF FileNode
<1>3. nodes' = Append(nodes, n) /\ edges' = edges
  BY DEF EnterSource
<1> HIDE DEF n
<1>4. nodes \in Seq(Node)
  BY DEF IInv, TypeOK
<1> QED BY <1>2, <1>3, <1>4, CountsWithVertex DEF EdgesCounted

(* A directive adds the vertex of a file that is new, and the edge if the  *)
(* pair of files has none.                                                 *)
LEMMA InclusionDirectiveCounts ==
  ASSUME IInv, EdgesCounted, InclusionDirective
  PROVE  EdgesCounted'
<1> DEFINE f == Head(Remaining).file
           uid == UniqueIDOf(f)
           known == uid \in DOMAIN id_to_node
           from == BackState.v
           to == IF known THEN id_to_node[uid].v ELSE Len(nodes) + 1
           node == FileNode(f, f \in program.external, IsPrecompiled(f))
           nodes1 == IF known THEN nodes ELSE Append(nodes, node)
           counted == WithIncoming(nodes1, from, to)
           linked == WithComponent(counted, from, to)
<1>1. f \in File
  BY InclusionDirectiveGuard, NextItem, ItemFields DEF IncludingFile, Lexing
<1>2. from \in DOMAIN nodes
  BY InclusionDirectiveGuard, Back
<1>3. nodes \in Seq(Node)
  BY DEF IInv, TypeOK
<1>4. /\ nodes1 \in Seq(Node) /\ from \in DOMAIN nodes1 /\ to \in DOMAIN nodes1
      /\ CountsEdges(edges, nodes1)
  <2>1. CASE known
    BY <1>2, <1>3, <2>1 DEF EdgesCounted, IInv, VerticesIdentified
  <2>2. CASE ~known
    <3>1. \A e, p \in BOOLEAN : FileNode(f, e, p) \in Node
      BY <1>1, NewRecords
    <3>2. (f \in program.external) \in BOOLEAN /\ IsPrecompiled(f) \in BOOLEAN
      BY DEF IsPrecompiled
    <3>3. node \in Node
      BY <3>1, <3>2, Zenon
    <3>4. node.internal_incoming = 0 /\ node.external_incoming = 0
      BY DEF FileNode
    <3>5. nodes1 = Append(nodes, node) /\ to = Len(nodes) + 1
      BY <2>2
    <3> HIDE DEF node, nodes1, to, from
    <3> QED BY <1>2, <1>3, <3>3, <3>4, <3>5, CountsWithVertex DEF EdgesCounted
  <2> QED BY <2>1, <2>2
<1>5. CASE HasEdge(from, to)
  <2>1. nodes' = nodes1 /\ edges' = edges
    BY <1>5, Zenon DEF InclusionDirective
  <2> QED BY <1>4, <2>1 DEF EdgesCounted
<1>6. CASE ~HasEdge(from, to)
  <2> DEFINE r == ~InPredefines /\ ~IsComponent(nodes1, from, to)
             edges1 == edges \cup {[from |-> from, to |-> to, is_removable |-> r]}
  <2>1. nodes' = linked /\ edges' = edges1
    BY <1>6, Zenon DEF InclusionDirective
  <2>2. ~\E e \in edges : e.from = from /\ e.to = to
    BY <1>6 DEF HasEdge
  <2> HIDE DEF from, to, nodes1, r
  <2>3. CountsEdges(edges1, counted)
    BY <1>4, <2>2, CountsWithEdge
  <2>4. /\ counted \in Seq(Node) /\ from \in DOMAIN counted
        /\ to \in DOMAIN counted
    BY <1>4, WithIncomingTyped
  <2> HIDE DEF counted, edges1
  <2>5. /\ DOMAIN linked = DOMAIN counted
        /\ \A v \in DOMAIN counted : SameCounters(linked[v], counted[v])
    BY <2>4, WithComponentTyped, WithComponentKeepsCounters
  <2> HIDE DEF linked
  <2> QED BY <2>1, <2>3, <2>5, CountsKept DEF EdgesCounted
<1> QED BY <1>5, <1>6

(* Every other step leaves the graph alone.                                *)
LEMMA GraphUntouched ==
  ASSUME [Next]_vars, ~EnterSource, ~InclusionDirective, ~ExitGuardedFirst,
         ~EndOfMainFile
  PROVE  UNCHANGED <<nodes, edges>>
<1> USE DEF resultVars
<1>1. CASE SourceSeenBefore \/ NewIncludeFromDone \/ CostAssignedTwice
  BY <1>1 DEF SourceSeenBefore, NewIncludeFromDone, CostAssignedTwice, Fail
<1>2. CASE LexTokens \/ SkipExcluded \/ PragmaOnce \/ PragmaDirective
             \/ IfOrIfndef
  BY <1>2 DEF LexTokens, SkipExcluded, PragmaOnce, PragmaDirective, IfOrIfndef
<1>3. CASE MacroDefined \/ MacroUndefined \/ MissingInclude
             \/ InclusionFromDone \/ EnterFile \/ FileSkipped
  BY <1>3 DEF MacroDefined, MacroUndefined, MissingInclude, InclusionFromDone,
              EnterFile, FileSkipped
<1>4. CASE ExitUnguarded \/ ExitGuardedAgain
  BY <1>4 DEF ExitUnguarded, ExitGuardedAgain, LeaveFile
<1>5. CASE EndSourceFileAction \/ Finish
  BY <1>5 DEF EndSourceFileAction, Finish
<1>6. CASE Stutter \/ UNCHANGED vars
  BY <1>6 DEF Stutter, vars
<1> QED BY <1>1, <1>2, <1>3, <1>4, <1>5, <1>6 DEF Next, Scan

-----------------------------------------------------------------------------
(* With the types and the tables of IInv, it is inductive.                 *)
LEMMA EdgesAlwaysCounted == Spec => []EdgesCounted
<1>1. Init => EdgesCounted
  BY FS_EmptySet DEF Init, EdgesCounted, CountsEdges
<1>2. IInv /\ EdgesCounted /\ [Next]_vars => EdgesCounted'
  <2> SUFFICES ASSUME IInv, EdgesCounted, [Next]_vars PROVE EdgesCounted'
    OBVIOUS
  <2>1. CASE EnterSource
    BY <2>1, EnterSourceCounts
  <2>2. CASE InclusionDirective
    BY <2>2, InclusionDirectiveCounts
  <2>3. CASE ExitGuardedFirst \/ EndOfMainFile
    BY <2>3, LeavingKeepsCounters, CountsKept DEF EdgesCounted
  <2>4. CASE UNCHANGED <<nodes, edges>>
    BY <2>4 DEF EdgesCounted
  <2> QED BY <2>1, <2>2, <2>3, <2>4, GraphUntouched
<1> QED BY <1>1, <1>2, InductiveInvariant, PTL DEF Spec

(* internal_incoming and external_incoming of every vertex are exact at    *)
(* any moment of every analysis, and no pair of files has two edges,       *)
(* however often unguarded files repeat their directives.                  *)
THEOREM IncomingExact == Spec => []IncomingCounted
<1>1. EdgesCounted => IncomingCounted
  <2> SUFFICES ASSUME EdgesCounted, NEW v \in DOMAIN nodes
               PROVE  LET E == In(edges, nodes, v, FALSE)
                               \cup In(edges, nodes, v, TRUE)
                      IN Cardinality(E) = Cardinality({e.from : e \in E})
    BY DEF EdgesCounted, CountsEdges, IncomingCounted, In
  <2> DEFINE E == In(edges, nodes, v, FALSE) \cup In(edges, nodes, v, TRUE)
             T == {e.from : e \in E}
             g == [e \in E |-> e.from]
  <2>1. IsFiniteSet(E)
    <3>1. E \subseteq edges
      BY DEF In
    <3> QED BY <3>1, FS_Subset DEF EdgesCounted, CountsEdges
  <2>2. \A d, e \in E : d.from = e.from => d = e
    BY DEF In, EdgesCounted, CountsEdges
  <2> HIDE DEF E
  <2>3. g \in Surjection(E, T)
    BY DEF Surjection
  <2>4. g \in Injection(E, T)
    BY <2>2 DEF Injection, IsInjective
  <2> HIDE DEF g, T
  <2>5. Cardinality(T) = Cardinality(E)
    BY <2>1, <2>3, <2>4, FS_Surjection
  <2> QED BY <2>5 DEF T, E
<1> QED BY <1>1, EdgesAlwaysCounted, PTL
-----------------------------------------------------------------------------
(***************************************************************************)
(* The components of the include graph: a file and its component have the  *)
(* same stem, and are each other's component if no third file has it.      *)
(***************************************************************************)
Linked(ns, v, w) ==
  /\ w \in DOMAIN ns /\ w # v
  /\ program.stem[ns[w].path] = program.stem[ns[v].path]
  /\ AtMostTwo(SameStem(ns[v].path)) => ns[w].component = v

Paired(ns) ==
  \A v \in DOMAIN ns : ns[v].component # 0 => Linked(ns, v, ns[v].component)

\* A file has one vertex.
Distinct(ns) ==
  /\ \A v \in DOMAIN ns : ns[v].path \in File
  /\ \A v, w \in DOMAIN ns : ns[v].path = ns[w].path => v = w

(* Nothing else of a vertex matters to the pairs.                          *)
LEMMA PairsKept ==
  ASSUME NEW ns, NEW ns2, Paired(ns), DOMAIN ns2 = DOMAIN ns,
         \A v \in DOMAIN ns : /\ ns2[v].path = ns[v].path
                              /\ ns2[v].component = ns[v].component
  PROVE  Paired(ns2)
BY DEF Paired, Linked

LEMMA PairsWithVertex ==
  ASSUME NEW ns \in Seq(Node), Paired(ns), NEW n, n.component = 0
  PROVE  Paired(Append(ns, n))
<1> DEFINE ns2 == Append(ns, n)
<1>1. /\ DOMAIN ns2 = DOMAIN ns \cup {Len(ns) + 1}
      /\ ns2[Len(ns) + 1] = n /\ \A v \in DOMAIN ns : ns2[v] = ns[v]
  OBVIOUS
<1> HIDE DEF ns2
<1> QED BY <1>1 DEF Paired, Linked, ns2

LEMMA WithIncomingKeepsComponents ==
  ASSUME NEW ns \in Seq(Node), NEW from \in DOMAIN ns, NEW to \in DOMAIN ns
  PROVE  \A v \in DOMAIN ns :
           WithIncoming(ns, from, to)[v].component = ns[v].component
<1> DEFINE old == ns[to]
           internal == IF ns[from].is_external THEN old.internal_incoming
                       ELSE old.internal_incoming + 1
           external == IF ns[from].is_external THEN old.external_incoming + 1
                       ELSE old.external_incoming
           new == [old EXCEPT !.internal_incoming = internal,
                              !.external_incoming = external]
<1>1. old \in Node
  OBVIOUS
<1>2. WithIncoming(ns, from, to) = [ns EXCEPT ![to] = new]
  BY DEF WithIncoming
<1>3. new.component = old.component
  <2> HIDE DEF internal, external, old
  <2> QED BY <1>1 DEF Node
<1> HIDE DEF new
<1> QED BY <1>2, <1>3

(* The header-source guess links two vertices to each other.               *)
LEMMA ComponentsLinked ==
  ASSUME NEW ns \in Seq(Node), NEW from \in DOMAIN ns, NEW to \in DOMAIN ns,
         IsComponent(ns, from, to), ns[from].component = 0
  PROVE  /\ WithComponent(ns, from, to)[from].component = to
         /\ WithComponent(ns, from, to)[to].component = from
         /\ \A v \in DOMAIN ns : v \notin {from, to} =>
              WithComponent(ns, from, to)[v].component = ns[v].component
<1> DEFINE source == [ns[from] EXCEPT !.component = to]
           header == [ns[to] EXCEPT !.component = from]
<1>1. from # to /\ ns[from] \in Node /\ ns[to] \in Node
  BY DEF IsComponent
<1>2. source.component = to /\ header.component = from
  BY <1>1 DEF Node
<1>3. WithComponent(ns, from, to)
        = [[ns EXCEPT ![to] = header] EXCEPT ![from] = source]
  BY <1>1 DEF WithComponent
<1> HIDE DEF source, header
<1> QED BY <1>1, <1>2, <1>3

LEMMA PairsLinked ==
  ASSUME NEW ns \in Seq(Node), NEW from \in DOMAIN ns, NEW to \in DOMAIN ns,
         Paired(ns), Distinct(ns)
  PROVE  Paired(WithComponent(ns, from, to))
<1> DEFINE ns2 == WithComponent(ns, from, to)
<1>1. CASE ~(IsComponent(ns, from, to) /\ ns[from].component = 0)
  BY <1>1 DEF WithComponent
<1>2. CASE IsComponent(ns, from, to) /\ ns[from].component = 0
  <2>1. /\ DOMAIN ns2 = DOMAIN ns
        /\ \A v \in DOMAIN ns : ns2[v].path = ns[v].path
    BY WithComponentTyped
  <2>2. /\ ns2[from].component = to /\ ns2[to].component = from
        /\ \A v \in DOMAIN ns :
             v \notin {from, to} => ns2[v].component = ns[v].component
    BY <1>2, ComponentsLinked
  <2>3. from # to /\ program.stem[ns[from].path] = program.stem[ns[to].path]
    BY <1>2 DEF IsComponent
  <2> HIDE DEF ns2
  <2>4. ASSUME NEW v \in DOMAIN ns2, ns2[v].component # 0
        PROVE  Linked(ns2, v, ns2[v].component)
    <3>1. CASE v \in {from, to}
      BY <2>1, <2>2, <2>3, <3>1 DEF Linked
    <3>2. CASE v \notin {from, to}
      <4>1. PICK c : c = ns[v].component /\ c = ns2[v].component
        BY <2>1, <2>2, <3>2
      <4>2. Linked(ns, v, c)
        BY <2>1, <2>4, <4>1 DEF Paired
      <4>3. CASE c \notin {from, to}
        BY <2>1, <2>2, <4>1, <4>2, <4>3 DEF Linked
      <4>4. CASE c \in {from, to}
        <5>1. {ns[v].path, ns[from].path, ns[to].path}
                \subseteq SameStem(ns[v].path)
          BY <2>1, <2>3, <4>2, <4>4 DEF SameStem, Linked, Distinct
        <5>2. /\ ns[v].path # ns[from].path /\ ns[v].path # ns[to].path
              /\ ns[from].path # ns[to].path
          BY <2>1, <2>3, <3>2 DEF Distinct
        <5>3. ~AtMostTwo(SameStem(ns2[v].path))
          BY <2>1, <5>1, <5>2 DEF AtMostTwo
        <5> QED BY <2>1, <4>1, <4>2, <5>3 DEF Linked
      <4> QED BY <4>3, <4>4
    <3> QED BY <3>1, <3>2
  <2> QED BY <2>4 DEF Paired, ns2
<1> QED BY <1>1, <1>2

LEMMA FilesDistinct ==
  ASSUME NEW map, NEW ns \in Seq(Node),
         \A u, x \in DOMAIN map : u[1] = x[1] => u = x,
         \A u \in DOMAIN map : ns[map[u].v].path = u[1],
         \A v \in DOMAIN ns : \E u \in DOMAIN map : map[u].v = v
  PROVE  Distinct(ns)
<1>1. ASSUME NEW v \in DOMAIN ns PROVE ns[v].path \in File
  <2>1. ns[v] \in Node
    OBVIOUS
  <2> QED BY <2>1 DEF Node
<1>2. ASSUME NEW v \in DOMAIN ns, NEW w \in DOMAIN ns, ns[v].path = ns[w].path
      PROVE  v = w
  <2>1. PICK u \in DOMAIN map : map[u].v = v
    OBVIOUS
  <2>2. PICK x \in DOMAIN map : map[x].v = w
    OBVIOUS
  <2> QED BY <1>2, <2>1, <2>2
<1> QED BY <1>1, <1>2 DEF Distinct

LEMMA InclusionDirectivePairs ==
  ASSUME IInv, IInv', Paired(nodes), InclusionDirective
  PROVE  Paired(nodes')
<1> DEFINE f == Head(Remaining).file
           uid == UniqueIDOf(f)
           known == uid \in DOMAIN id_to_node
           from == BackState.v
           to == IF known THEN id_to_node[uid].v ELSE Len(nodes) + 1
           node == FileNode(f, f \in program.external, IsPrecompiled(f))
           nodes1 == IF known THEN nodes ELSE Append(nodes, node)
           counted == WithIncoming(nodes1, from, to)
           linked == WithComponent(counted, from, to)
<1>1. f \in File
  BY InclusionDirectiveGuard, NextItem, ItemFields DEF IncludingFile, Lexing
<1>2. from \in DOMAIN nodes
  BY InclusionDirectiveGuard, Back
<1>3. nodes \in Seq(Node)
  BY DEF IInv, TypeOK
<1>4. /\ nodes1 \in Seq(Node) /\ from \in DOMAIN nodes1 /\ to \in DOMAIN nodes1
      /\ Paired(nodes1)
  <2>1. CASE known
    BY <1>2, <1>3, <2>1 DEF IInv, VerticesIdentified
  <2>2. CASE ~known
    <3>1. \A e, p \in BOOLEAN : FileNode(f, e, p) \in Node
      BY <1>1, NewRecords
    <3>2. (f \in program.external) \in BOOLEAN /\ IsPrecompiled(f) \in BOOLEAN
      BY DEF IsPrecompiled
    <3>3. node \in Node
      BY <3>1, <3>2, Zenon
    <3>4. node.component = 0
      BY DEF FileNode
    <3>5. nodes1 = Append(nodes, node) /\ to = Len(nodes) + 1
      BY <2>2
    <3> HIDE DEF node, nodes1, to, from
    <3> QED BY <1>2, <1>3, <3>3, <3>4, <3>5, PairsWithVertex
  <2> QED BY <2>1, <2>2
<1>5. CASE HasEdge(from, to)
  <2>1. nodes' = nodes1
    BY <1>5, Zenon DEF InclusionDirective
  <2> QED BY <1>4, <2>1
<1>6. CASE ~HasEdge(from, to)
  <2>1. nodes' = linked
    BY <1>6, Zenon DEF InclusionDirective
  <2> HIDE DEF from, to, nodes1
  <2>2. /\ counted \in Seq(Node) /\ DOMAIN counted = DOMAIN nodes1
        /\ \A v \in DOMAIN nodes1 : counted[v].path = nodes1[v].path
        /\ \A v \in DOMAIN nodes1 : counted[v].component = nodes1[v].component
    BY <1>4, WithIncomingTyped, WithIncomingKeepsComponents
  <2> HIDE DEF counted
  <2> from \in DOMAIN counted /\ to \in DOMAIN counted
    BY <1>4, <2>2
  <2>3. /\ DOMAIN linked = DOMAIN counted
        /\ \A v \in DOMAIN counted : linked[v].path = counted[v].path
    BY <2>2, WithComponentTyped
  <2> HIDE DEF linked
  <2>4. Distinct(counted)
    <3>1. Distinct(nodes')
      <4>1. nodes' \in Seq(Node)
        BY DEF IInv, TypeOK
      <4>2. /\ \A u, x \in DOMAIN id_to_node' : u[1] = x[1] => u = x
            /\ \A u \in DOMAIN id_to_node' :
                 nodes'[id_to_node'[u].v].path = u[1]
            /\ \A v \in DOMAIN nodes' :
                 \E u \in DOMAIN id_to_node' : id_to_node'[u].v = v
        BY DEF IInv, VerticesIdentified, UniqueIDOf
      <4> QED BY <4>1, <4>2, FilesDistinct
    <3> QED BY <2>1, <2>3, <3>1 DEF Distinct
  <2>5. Paired(counted)
    BY <1>4, <2>2, PairsKept
  <2> QED BY <1>4, <2>1, <2>2, <2>4, <2>5, PairsLinked DEF linked
<1> QED BY <1>5, <1>6

(* Leaving a file sets its cost and its guard, and nothing else.           *)
LEMMA LeavingKeepsComponents ==
  ASSUME IInv, ExitGuardedFirst \/ EndOfMainFile
  PROVE  /\ DOMAIN nodes' = DOMAIN nodes
         /\ \A v \in DOMAIN nodes : /\ nodes'[v].path = nodes[v].path
                                    /\ nodes'[v].component = nodes[v].component
<1>1. phase = "preprocess"
  BY DEF ExitGuardedFirst, LeavingFile, EndOfMainFile, Preprocessing
<1>2. BackState.v \in DOMAIN nodes /\ nodes[BackState.v] \in Node
  BY <1>1, Back
<1> DEFINE w == BackState.v
           cost == LeavingCost
           guarded == [nodes[w] EXCEPT !.is_guarded = TRUE,
                                       !.underlying_cost = cost]
           costed == [nodes[w] EXCEPT !.underlying_cost = cost]
<1>3. nodes' \in {[nodes EXCEPT ![w] = guarded], [nodes EXCEPT ![w] = costed]}
  BY DEF ExitGuardedFirst, EndOfMainFile, MarkedGuarded
<1>4. /\ guarded.path = nodes[w].path /\ costed.path = nodes[w].path
      /\ guarded.component = nodes[w].component
      /\ costed.component = nodes[w].component
  <2> HIDE DEF cost, w
  <2> QED BY <1>2 DEF Node, w
<1> HIDE DEF guarded, costed, w
<1>5. \A v \in DOMAIN nodes : \A x : [nodes EXCEPT ![w] = x][v] =
                                     IF v = w THEN x ELSE nodes[v]
  OBVIOUS
<1> QED BY <1>3, <1>4, <1>5

LEMMA ProgramFixed ==
  ASSUME [Next]_vars
  PROVE  program' = program
<1>1. CASE SourceSeenBefore \/ NewIncludeFromDone \/ CostAssignedTwice
  BY <1>1 DEF SourceSeenBefore, NewIncludeFromDone, CostAssignedTwice, Fail
<1>2. CASE LexTokens \/ SkipExcluded \/ PragmaOnce \/ PragmaDirective
             \/ IfOrIfndef
  BY <1>2 DEF LexTokens, SkipExcluded, PragmaOnce, PragmaDirective, IfOrIfndef
<1>3. CASE MacroDefined \/ MacroUndefined \/ MissingInclude
             \/ InclusionFromDone \/ EnterFile \/ FileSkipped
  BY <1>3 DEF MacroDefined, MacroUndefined, MissingInclude, InclusionFromDone,
              EnterFile, FileSkipped
<1>4. CASE ExitUnguarded \/ ExitGuardedFirst \/ ExitGuardedAgain
             \/ EndOfMainFile
  BY <1>4 DEF ExitUnguarded, ExitGuardedFirst, ExitGuardedAgain, LeaveFile,
              EndOfMainFile
<1>5. CASE EnterSource \/ EndSourceFileAction \/ Finish
  BY <1>5 DEF EnterSource, EndSourceFileAction, Finish
<1>6. CASE InclusionDirective
  BY <1>6, Zenon DEF InclusionDirective
<1>7. CASE Stutter \/ UNCHANGED vars
  BY <1>7 DEF Stutter, vars
<1> QED BY <1>1, <1>2, <1>3, <1>4, <1>5, <1>6, <1>7 DEF Next, Scan

LEMMA FilesAlwaysPaired == Spec => []Paired(nodes)
<1>1. Init => Paired(nodes)
  BY DEF Init, Paired
<1>2. IInv /\ IInv' /\ Paired(nodes) /\ [Next]_vars => Paired(nodes)'
  <2> SUFFICES ASSUME IInv, IInv', Paired(nodes), [Next]_vars
               PROVE  Paired(nodes)'
    OBVIOUS
  <2>1. Paired(nodes)' <=> Paired(nodes')
    BY ProgramFixed DEF Paired, Linked, SameStem
  <2>2. CASE EnterSource
    <3>1. nodes' = Append(nodes, FileNode(NextSource, FALSE, FALSE))
      BY <2>2 DEF EnterSource
    <3>2. FileNode(NextSource, FALSE, FALSE).component = 0
      BY DEF FileNode
    <3>3. nodes \in Seq(Node)
      BY DEF IInv, TypeOK
    <3> QED BY <2>1, <3>1, <3>2, <3>3, PairsWithVertex
  <2>3. CASE InclusionDirective
    BY <2>1, <2>3, InclusionDirectivePairs
  <2>4. CASE ExitGuardedFirst \/ EndOfMainFile
    BY <2>1, <2>4, LeavingKeepsComponents, PairsKept
  <2>5. CASE UNCHANGED <<nodes, edges>>
    BY <2>1, <2>5
  <2> QED BY <2>2, <2>3, <2>4, <2>5, GraphUntouched
<1> QED BY <1>1, <1>2, InductiveInvariant, PTL DEF Spec

(* On every program, the component of a file has the file as its           *)
(* component, unless three files share the stem.                           *)
THEOREM ComponentsAlwaysPaired == Spec => []ComponentsPaired
<1>1. Paired(nodes) => ComponentsPaired
  BY DEF Paired, Linked, ComponentsPaired
<1> QED BY <1>1, FilesAlwaysPaired, PTL

-----------------------------------------------------------------------------
(***************************************************************************)
(* The replacement of contents.                                            *)
(***************************************************************************)
Known(map, ns, u) == map[u].fully_processed /\ ns[map[u].v].is_guarded

(* The invariant, on top of IInv: what waits for the end of the            *)
(* translation unit is as well known as what has been replaced, and is not *)
(* replaced yet.                                                           *)
ReplacementsKnown ==
  /\ m_replaced \subseteq DOMAIN nodes
  /\ DOMAIN overwrites = {nodes[v].path : v \in m_replaced}
  /\ \A f \in DOMAIN overwrites : Known(id_to_node, nodes, UniqueIDOf(f))
  /\ \A u \in DOMAIN m_needs_replacing :
       /\ m_needs_replacing[u].v = id_to_node[u].v
       /\ id_to_node[u].v \notin m_replaced
       /\ Known(id_to_node, nodes, u)
  /\ accounted <= lexed

VerticesGrow(ns, ns2) ==
  \A v \in DOMAIN ns :
    /\ v \in DOMAIN ns2
    /\ ns2[v].path = ns[v].path
    /\ ns[v].is_guarded => ns2[v].is_guarded

EntriesGrow(map, map2) ==
  \A u \in DOMAIN map :
    /\ u \in DOMAIN map2
    /\ map2[u].v = map[u].v
    /\ map[u].fully_processed => map2[u].fully_processed

-----------------------------------------------------------------------------
(* Lemmas about vertices and entries. *)

LEMMA VertexUpdated ==
  ASSUME NEW ns \in Seq(Node), NEW w \in DOMAIN ns, NEW n,
         n.path = ns[w].path, ns[w].is_guarded => n.is_guarded
  PROVE  VerticesGrow(ns, [ns EXCEPT ![w] = n])
<1>1. \A v \in DOMAIN ns :
        [ns EXCEPT ![w] = n][v] = IF v = w THEN n ELSE ns[v]
  OBVIOUS
<1>2. DOMAIN [ns EXCEPT ![w] = n] = DOMAIN ns
  OBVIOUS
<1> QED BY <1>1, <1>2 DEF VerticesGrow

LEMMA VertexAppended ==
  ASSUME NEW ns \in Seq(Node), NEW n
  PROVE  VerticesGrow(ns, Append(ns, n))
BY DEF VerticesGrow

LEMMA EntryUpdated ==
  ASSUME NEW map, NEW k \in DOMAIN map, NEW x,
         x.v = map[k].v, map[k].fully_processed => x.fully_processed
  PROVE  EntriesGrow(map, [map EXCEPT ![k] = x])
BY DEF EntriesGrow

LEMMA EntryAdded ==
  ASSUME NEW map, NEW k, NEW x
  PROVE  EntriesGrow(map, Emplace(map, k, x))
<1>1. /\ DOMAIN Emplace(map, k, x) = DOMAIN map \cup {k}
      /\ \A u \in DOMAIN map : Emplace(map, k, x)[u] = map[u]
  BY DEF Emplace
<1> QED BY <1>1 DEF EntriesGrow

LEMMA WithIncomingGrows ==
  ASSUME NEW ns \in Seq(Node), NEW from \in DOMAIN ns, NEW to \in DOMAIN ns
  PROVE  VerticesGrow(ns, WithIncoming(ns, from, to))
<1> DEFINE old == ns[to]
           internal == IF ns[from].is_external THEN old.internal_incoming
                       ELSE old.internal_incoming + 1
           external == IF ns[from].is_external THEN old.external_incoming + 1
                       ELSE old.external_incoming
           new == [old EXCEPT !.internal_incoming = internal,
                              !.external_incoming = external]
<1>1. old \in Node
  OBVIOUS
<1>2. WithIncoming(ns, from, to) = [ns EXCEPT ![to] = new]
  BY DEF WithIncoming
<1>3. new.path = old.path /\ new.is_guarded = old.is_guarded
  <2> HIDE DEF internal, external, old
  <2>1. "path" \in DOMAIN old /\ "is_guarded" \in DOMAIN old
    BY <1>1 DEF Node
  <2> QED BY <2>1, Zenon
<1> HIDE DEF new, internal, external
<1>4. VerticesGrow(ns, [ns EXCEPT ![to] = new])
  BY <1>3, VertexUpdated
<1> QED BY <1>2, <1>4

LEMMA ComponentGrows ==
  ASSUME NEW ns \in Seq(Node), NEW w \in DOMAIN ns, NEW x
  PROVE  VerticesGrow(ns, [ns EXCEPT ![w].component = x])
<1> DEFINE new == [ns[w] EXCEPT !.component = x]
<1>1. ns[w] \in Node
  OBVIOUS
<1>2. new.path = ns[w].path /\ new.is_guarded = ns[w].is_guarded
  BY <1>1 DEF Node
<1>3. [ns EXCEPT ![w].component = x] = [ns EXCEPT ![w] = new]
  OBVIOUS
<1> HIDE DEF new
<1> QED BY <1>2, <1>3, VertexUpdated

LEMMA WithComponentGrows ==
  ASSUME NEW ns \in Seq(Node), NEW from \in DOMAIN ns, NEW to \in DOMAIN ns
  PROVE  VerticesGrow(ns, WithComponent(ns, from, to))
<1> DEFINE first == [ns EXCEPT ![to].component = from]
           both == [first EXCEPT ![from].component = to]
<1>1. from \in Nat
  OBVIOUS
<1>2. first \in Seq(Node) /\ DOMAIN first = DOMAIN ns
  BY <1>1, ComponentSet
<1>3. VerticesGrow(ns, first)
  BY ComponentGrows
<1>4. VerticesGrow(first, both)
  <2> HIDE DEF first
  <2> QED BY <1>2, ComponentGrows
<1>5. WithComponent(ns, from, to) \in {ns, both}
  BY DEF WithComponent
<1> HIDE DEF first, both
<1> QED BY <1>3, <1>4, <1>5 DEF VerticesGrow

-----------------------------------------------------------------------------
(* What a step of the scanner does to vertices and entries. *)

GraphGrows ==
  /\ VerticesGrow(nodes, nodes')
  /\ EntriesGrow(id_to_node, id_to_node')
  /\ edges \subseteq edges'

LEMMA UnchangedGrows ==
  ASSUME UNCHANGED <<id_to_node, nodes, edges>>
  PROVE  GraphGrows
BY DEF GraphGrows, VerticesGrow, EntriesGrow

LEMMA MacroGrows ==
  ASSUME IInv, MacroDefined \/ MacroUndefined
  PROVE  GraphGrows
<1>1. phase = "preprocess" /\ UNCHANGED <<nodes, edges>>
  BY DEF MacroDefined, MacroUndefined, Lexing, Preprocessing, resultVars
<1> DEFINE k == Head(m_stack).id
           old == id_to_node[k]
           with(item) == [old EXCEPT !.replacement_contents = Append(@, item)]
<1>2. k \in DOMAIN id_to_node /\ old \in FileState
  BY <1>1, Back DEF BackState
<1>3. \/ id_to_node' = id_to_node
      \/ \E item : id_to_node' = [id_to_node EXCEPT ![k] = with(item)]
  BY <1>2 DEF MacroDefined, MacroUndefined, RecordDirective
<1>4. \A item : /\ with(item).v = old.v
                /\ with(item).fully_processed = old.fully_processed
  BY <1>2 DEF FileState
<1> HIDE DEF with, k
<1>5. EntriesGrow(id_to_node, id_to_node')
  <2>1. CASE id_to_node' = id_to_node
    BY <2>1 DEF EntriesGrow
  <2>2. ASSUME NEW item, id_to_node' = [id_to_node EXCEPT ![k] = with(item)]
        PROVE  EntriesGrow(id_to_node, id_to_node')
    BY <1>2, <1>4, <2>2, EntryUpdated
  <2> QED BY <1>3, <2>1, <2>2
<1> QED BY <1>1, <1>5 DEF GraphGrows, VerticesGrow

LEMMA EnterSourceGrows ==
  ASSUME IInv, EnterSource
  PROVE  GraphGrows
<1>1. nodes \in Seq(Node)
  BY DEF IInv, TypeOK
<1> DEFINE n == FileNode(NextSource, FALSE, FALSE)
           x == NewFileState(Len(nodes) + 1)
           k == UniqueIDOf(NextSource)
<1>2. /\ nodes' = Append(nodes, n) /\ edges' = edges
      /\ id_to_node' = Emplace(id_to_node, k, x)
  BY DEF EnterSource
<1> HIDE DEF n, x, k
<1> QED BY <1>1, <1>2, VertexAppended, EntryAdded DEF GraphGrows

LEMMA InclusionDirectiveGrows ==
  ASSUME IInv, InclusionDirective
  PROVE  GraphGrows
<1> DEFINE f == Head(Remaining).file
           uid == UniqueIDOf(f)
           known == uid \in DOMAIN id_to_node
           k == Head(m_stack).id
           from == BackState.v
           to == IF known THEN id_to_node[uid].v ELSE Len(nodes) + 1
           node == FileNode(f, f \in program.external, IsPrecompiled(f))
           nodes1 == IF known THEN nodes ELSE Append(nodes, node)
           counted == WithIncoming(nodes1, from, to)
           linked == WithComponent(counted, from, to)
           map1 == Emplace(id_to_node, uid, NewFileState(to))
           old == map1[k]
           recorded == [old EXCEPT !.replacement_contents =
                          Append(@, Include(f))]
<1>1. f \in File
  BY InclusionDirectiveGuard, NextItem, ItemFields DEF IncludingFile, Lexing
<1>2. /\ from \in DOMAIN nodes /\ nodes \in Seq(Node)
      /\ k \in DOMAIN id_to_node /\ id_to_node[k] \in FileState
  BY InclusionDirectiveGuard, Back DEF IInv, TypeOK, BackState
<1>3. /\ nodes1 \in Seq(Node) /\ from \in DOMAIN nodes1 /\ to \in DOMAIN nodes1
      /\ VerticesGrow(nodes, nodes1)
  <2>1. CASE known
    BY <1>2, <2>1 DEF VerticesGrow, IInv, VerticesIdentified
  <2>2. CASE ~known
    <3>1. \A e, p \in BOOLEAN : FileNode(f, e, p) \in Node
      BY <1>1, NewRecords
    <3>2. (f \in program.external) \in BOOLEAN /\ IsPrecompiled(f) \in BOOLEAN
      BY DEF IsPrecompiled
    <3>3. node \in Node
      BY <3>1, <3>2, Zenon
    <3>4. nodes1 = Append(nodes, node) /\ to = Len(nodes) + 1
      BY <2>2
    <3> HIDE DEF node, nodes1, to, from
    <3> QED BY <1>2, <3>3, <3>4, VertexAppended
  <2> QED BY <2>1, <2>2
<1>4. /\ k \in DOMAIN map1 /\ old = id_to_node[k]
      /\ EntriesGrow(id_to_node, map1)
  <2>1. /\ DOMAIN map1 = DOMAIN id_to_node \cup {uid}
        /\ \A u \in DOMAIN id_to_node : map1[u] = id_to_node[u]
    BY DEF Emplace
  <2> HIDE DEF map1
  <2> QED BY <1>2, <2>1 DEF EntriesGrow
<1>5. /\ nodes' \in {nodes1, linked}
      /\ edges \subseteq edges'
      /\ id_to_node' \in {map1, [map1 EXCEPT ![k] = recorded]}
  <2>1. CASE HasEdge(from, to)
    BY <2>1, Zenon DEF InclusionDirective
  <2>2. CASE ~HasEdge(from, to)
    <3>1. nodes' = linked /\ edges \subseteq edges'
      BY <2>2, Zenon DEF InclusionDirective
    <3>2. id_to_node' \in {map1, [map1 EXCEPT ![k].replacement_contents =
                                                Append(@, Include(f))]}
      BY <2>2, Zenon DEF InclusionDirective
    <3>3. [map1 EXCEPT ![k].replacement_contents = Append(@, Include(f))]
            = [map1 EXCEPT ![k] = recorded]
      BY <1>4
    <3> QED BY <3>1, <3>2, <3>3, Zenon
  <2> QED BY <2>1, <2>2
<1>6. /\ recorded.v = old.v
      /\ recorded.fully_processed = old.fully_processed
  <2>1. old \in FileState
    BY <1>2, <1>4
  <2> HIDE DEF old
  <2> QED BY <2>1 DEF FileState
<1> HIDE DEF f, k, from, to, nodes1, map1, recorded
<1>7. VerticesGrow(nodes1, counted)
  BY <1>3, WithIncomingGrows
<1>8. /\ counted \in Seq(Node) /\ from \in DOMAIN counted
      /\ to \in DOMAIN counted
  BY <1>3, WithIncomingTyped
<1> HIDE DEF counted
<1>9. VerticesGrow(counted, linked)
  BY <1>8, WithComponentGrows
<1> HIDE DEF linked
<1>10. VerticesGrow(nodes, nodes')
  BY <1>3, <1>5, <1>7, <1>9 DEF VerticesGrow
<1>11. EntriesGrow(map1, [map1 EXCEPT ![k] = recorded])
  BY <1>4, <1>6, EntryUpdated
<1>12. EntriesGrow(id_to_node, id_to_node')
  <2> DEFINE map2 == [map1 EXCEPT ![k] = recorded]
  <2> HIDE DEF map2
  <2> QED BY <1>4, <1>5, <1>11 DEF EntriesGrow, map2
<1> QED BY <1>5, <1>10, <1>12 DEF GraphGrows

(* A file that is left becomes processed, and stays so.                    *)
LEMMA MarkedProcessedGrows ==
  ASSUME IInv, phase = "preprocess"
  PROVE  /\ EntriesGrow(id_to_node, MarkedProcessed)
         /\ MarkedProcessed[Head(m_stack).id].fully_processed
<1> DEFINE k == Head(m_stack).id
           new == [id_to_node[k] EXCEPT !.fully_processed = TRUE]
<1>1. k \in DOMAIN id_to_node /\ id_to_node[k] \in FileState
  BY Back DEF BackState
<1>2. new.v = id_to_node[k].v /\ new.fully_processed
  BY <1>1 DEF FileState
<1>3. MarkedProcessed = [id_to_node EXCEPT ![k] = new]
  BY DEF MarkedProcessed
<1> HIDE DEF k, new
<1>4. EntriesGrow(id_to_node, MarkedProcessed)
  BY <1>1, <1>2, <1>3, EntryUpdated
<1>5. MarkedProcessed[k] = new
  BY <1>1, <1>3
<1> QED BY <1>2, <1>4, <1>5 DEF k

LEMMA MarkedGuardedGrows ==
  ASSUME IInv, phase = "preprocess"
  PROVE  /\ VerticesGrow(nodes, MarkedGuarded(BackState.v))
         /\ MarkedGuarded(BackState.v)[BackState.v].is_guarded
<1> DEFINE w == BackState.v
           cost == LeavingCost
           new == [nodes[w] EXCEPT !.is_guarded = TRUE,
                                   !.underlying_cost = cost]
<1>1. w \in DOMAIN nodes /\ nodes[w] \in Node /\ nodes \in Seq(Node)
  BY Back DEF IInv, TypeOK
<1>2. new.path = nodes[w].path /\ new.is_guarded
  <2> HIDE DEF w, cost
  <2> QED BY <1>1 DEF Node
<1>3. MarkedGuarded(w) = [nodes EXCEPT ![w] = new]
  BY DEF MarkedGuarded
<1> HIDE DEF w, new
<1>4. VerticesGrow(nodes, MarkedGuarded(w))
  BY <1>1, <1>2, <1>3, VertexUpdated
<1>5. MarkedGuarded(w)[w] = new
  BY <1>1, <1>3
<1> QED BY <1>2, <1>4, <1>5 DEF w

LEMMA LeavingGrows ==
  ASSUME IInv, ExitUnguarded \/ ExitGuardedFirst \/ EndOfMainFile
  PROVE  GraphGrows
<1>1. phase = "preprocess" /\ edges' = edges
  BY DEF ExitUnguarded, ExitGuardedFirst, EndOfMainFile, LeavingFile,
         LeaveFile, Preprocessing
<1>2. CASE ExitUnguarded \/ ExitGuardedFirst
  <2>1. /\ id_to_node' = MarkedProcessed
        /\ nodes' \in {nodes, MarkedGuarded(BackState.v)}
    BY <1>2 DEF ExitUnguarded, ExitGuardedFirst
  <2>2. VerticesGrow(nodes, nodes')
    BY <1>1, <2>1, MarkedGuardedGrows DEF VerticesGrow
  <2> QED BY <1>1, <2>1, <2>2, MarkedProcessedGrows DEF GraphGrows
<1>3. CASE EndOfMainFile
  <2> DEFINE w == BackState.v
             cost == LeavingCost
             new == [nodes[w] EXCEPT !.underlying_cost = cost]
  <2>1. w \in DOMAIN nodes /\ nodes[w] \in Node /\ nodes \in Seq(Node)
    BY <1>1, Back DEF IInv, TypeOK
  <2>2. new.path = nodes[w].path /\ new.is_guarded = nodes[w].is_guarded
    <3> HIDE DEF w, cost
    <3> QED BY <2>1 DEF Node
  <2>3. nodes' = [nodes EXCEPT ![w] = new] /\ id_to_node' = id_to_node
    BY <1>3 DEF EndOfMainFile
  <2> HIDE DEF w, new
  <2> QED BY <1>1, <2>1, <2>2, <2>3, VertexUpdated DEF GraphGrows, EntriesGrow
<1> QED BY <1>2, <1>3

-----------------------------------------------------------------------------
(* The steps within a translation unit. *)

(* Only the end of a translation unit replaces contents; until then the    *)
(* graph grows.                                                            *)
LEMMA StepGrows ==
  ASSUME IInv, [Next]_vars, ~EndSourceFileAction
  PROVE  GraphGrows /\ UNCHANGED <<m_replaced, overwrites>>
<1> USE DEF resultVars
<1>1. CASE EnterSource
  BY <1>1, EnterSourceGrows DEF EnterSource
<1>2. CASE InclusionDirective
  <2>1. UNCHANGED <<m_replaced, overwrites>>
    BY <1>2, Zenon DEF InclusionDirective
  <2> QED BY <1>2, <2>1, InclusionDirectiveGrows
<1>3. CASE MacroDefined \/ MacroUndefined
  BY <1>3, MacroGrows DEF MacroDefined, MacroUndefined
<1>4. CASE ExitUnguarded \/ ExitGuardedFirst \/ EndOfMainFile
  BY <1>4, LeavingGrows
     DEF ExitUnguarded, ExitGuardedFirst, EndOfMainFile, LeaveFile
<1>5. CASE SourceSeenBefore \/ NewIncludeFromDone \/ CostAssignedTwice
  BY <1>5, UnchangedGrows
     DEF SourceSeenBefore, NewIncludeFromDone, CostAssignedTwice, Fail
<1>6. CASE LexTokens \/ SkipExcluded \/ PragmaOnce \/ PragmaDirective
             \/ IfOrIfndef \/ MissingInclude
  BY <1>6, UnchangedGrows
     DEF LexTokens, SkipExcluded, PragmaOnce, PragmaDirective, IfOrIfndef,
         MissingInclude
<1>7. CASE InclusionFromDone \/ EnterFile \/ FileSkipped \/ ExitGuardedAgain
  BY <1>7, UnchangedGrows
     DEF InclusionFromDone, EnterFile, FileSkipped, ExitGuardedAgain, LeaveFile
<1>8. CASE Finish \/ Stutter \/ UNCHANGED vars
  BY <1>8, UnchangedGrows DEF Finish, Stutter, vars
<1> QED BY <1>1, <1>2, <1>3, <1>4, <1>5, <1>6, <1>7, <1>8 DEF Next, Scan

(* The tokens that are accounted for have been lexed.                      *)
LEMMA AccountedForLexed ==
  ASSUME IInv, accounted <= lexed, [Next]_vars
  PROVE  accounted' <= lexed'
<1>0. accounted \in Nat /\ lexed \in Nat
  BY DEF IInv, TypeOK
<1> USE DEF ppVars
<1>1. CASE LexTokens
  <2>1. Head(Remaining).n \in Nat
    BY <1>1, NextItem, ItemFields DEF LexTokens, Lexing
  <2>2. lexed' = lexed + Head(Remaining).n /\ accounted' = accounted
    BY <1>1 DEF LexTokens
  <2> QED BY <1>0, <2>1, <2>2
<1>2. CASE InclusionDirective
  <2>1. UNCHANGED <<accounted, lexed>>
    BY <1>2, Zenon DEF InclusionDirective
  <2> QED BY <2>1
<1>3. CASE SourceSeenBefore \/ NewIncludeFromDone \/ CostAssignedTwice
  BY <1>3 DEF SourceSeenBefore, NewIncludeFromDone, CostAssignedTwice, Fail
<1>4. CASE SkipExcluded \/ PragmaOnce \/ PragmaDirective \/ IfOrIfndef
  BY <1>4 DEF SkipExcluded, PragmaOnce, PragmaDirective, IfOrIfndef
<1>5. CASE MacroDefined \/ MacroUndefined \/ MissingInclude
             \/ InclusionFromDone
  BY <1>5 DEF MacroDefined, MacroUndefined, MissingInclude, InclusionFromDone
<1>6. CASE EnterFile \/ FileSkipped
  <2>1. accounted' \in {accounted, lexed} /\ lexed' = lexed
    BY <1>6 DEF EnterFile, FileSkipped
  <2> QED BY <1>0, <2>1
<1>7. CASE ExitUnguarded \/ ExitGuardedFirst \/ ExitGuardedAgain
  <2>1. accounted' = lexed /\ lexed' = lexed
    BY <1>7 DEF ExitUnguarded, ExitGuardedFirst, ExitGuardedAgain, LeaveFile
  <2> QED BY <1>0, <2>1
<1>8. CASE EndOfMainFile \/ EndSourceFileAction
  <2>1. accounted' \in {accounted, lexed} /\ lexed' = lexed
    BY <1>8 DEF EndOfMainFile, EndSourceFileAction
  <2> QED BY <1>0, <2>1
<1>9. CASE Finish \/ Stutter \/ UNCHANGED vars
  BY <1>9 DEF Finish, Stutter, vars
<1>10. CASE EnterSource
  <2>1. accounted' = 0 /\ lexed' = 0
    BY <1>10 DEF EnterSource
  <2> QED BY <2>1
<1> QED BY <1>1, <1>2, <1>3, <1>4, <1>5, <1>6, <1>7, <1>8, <1>9, <1>10
        DEF Next, Scan

(* Only the first exit of a guarded file adds to what is to be replaced.   *)
LEMMA NeedsReplacingUntouched ==
  ASSUME [Next]_vars, ~EndSourceFileAction, ~ExitGuardedFirst
  PROVE  UNCHANGED m_needs_replacing
<1>1. CASE InclusionDirective
  BY <1>1, Zenon DEF InclusionDirective
<1>2. CASE EnterSource \/ SourceSeenBefore \/ NewIncludeFromDone
             \/ CostAssignedTwice
  BY <1>2 DEF EnterSource, SourceSeenBefore, NewIncludeFromDone,
              CostAssignedTwice, Fail
<1>3. CASE LexTokens \/ SkipExcluded \/ PragmaOnce \/ PragmaDirective
             \/ IfOrIfndef
  BY <1>3 DEF LexTokens, SkipExcluded, PragmaOnce, PragmaDirective, IfOrIfndef
<1>4. CASE MacroDefined \/ MacroUndefined \/ MissingInclude
             \/ InclusionFromDone
  BY <1>4 DEF MacroDefined, MacroUndefined, MissingInclude, InclusionFromDone
<1>5. CASE EnterFile \/ FileSkipped
  BY <1>5 DEF EnterFile, FileSkipped
<1>6. CASE ExitUnguarded \/ ExitGuardedAgain \/ EndOfMainFile
  BY <1>6 DEF ExitUnguarded, ExitGuardedAgain, EndOfMainFile
<1>7. CASE Finish \/ Stutter \/ UNCHANGED vars
  BY <1>7 DEF Finish, Stutter, vars
<1> QED BY <1>1, <1>2, <1>3, <1>4, <1>5, <1>6, <1>7 DEF Next, Scan

(* A replaced file is found under the id of its replacement.               *)
LEMMA ReplacedEntry ==
  ASSUME IInv, ReplacementsKnown, NEW f \in DOMAIN overwrites
  PROVE  /\ UniqueIDOf(f) \in DOMAIN id_to_node
         /\ id_to_node[UniqueIDOf(f)].v \in m_replaced
         /\ UniqueIDOf(f) = <<f, TRUE>>
<1>1. PICK v \in m_replaced : nodes[v].path = f
  BY DEF ReplacementsKnown
<1>2. PICK u \in DOMAIN id_to_node : id_to_node[u].v = v
  BY <1>1 DEF ReplacementsKnown, IInv, VerticesIdentified
<1>3. u = UniqueIDOf(f)
  BY <1>1, <1>2 DEF IInv, VerticesIdentified
<1>4. UniqueIDOf(f) = <<f, TRUE>>
  BY Zenon DEF UniqueIDOf
<1> QED BY <1>1, <1>2, <1>3, <1>4

(* What is known stays known while the graph grows.                        *)
LEMMA KnownKept ==
  ASSUME IInv, GraphGrows,
         NEW u \in DOMAIN id_to_node, Known(id_to_node, nodes, u)
  PROVE  Known(id_to_node', nodes', u)
<1>1. id_to_node[u].v \in DOMAIN nodes
  BY DEF IInv, VerticesIdentified
<1>2. id_to_node'[u].v = id_to_node[u].v /\ id_to_node'[u].fully_processed
  BY DEF GraphGrows, EntriesGrow, Known
<1>3. nodes'[id_to_node[u].v].is_guarded
  BY <1>1 DEF GraphGrows, VerticesGrow, Known
<1> QED BY <1>2, <1>3 DEF Known

(* The first conjuncts of the invariant, for every step that replaces      *)
(* nothing.                                                                *)
LEMMA ReplacedStaysKnown ==
  ASSUME IInv, ReplacementsKnown, GraphGrows,
         UNCHANGED <<m_replaced, overwrites>>
  PROVE  /\ m_replaced' \subseteq DOMAIN nodes'
         /\ DOMAIN overwrites' = {nodes'[v].path : v \in m_replaced'}
         /\ \A f \in DOMAIN overwrites' :
              Known(id_to_node', nodes', UniqueIDOf(f)')
<1>1. \A v \in m_replaced :
        v \in DOMAIN nodes' /\ nodes'[v].path = nodes[v].path
  BY DEF ReplacementsKnown, GraphGrows, VerticesGrow
<1>2. ASSUME NEW f \in DOMAIN overwrites
      PROVE  Known(id_to_node', nodes', UniqueIDOf(f)')
  <2> DEFINE u == UniqueIDOf(f)
  <2>1. u \in DOMAIN id_to_node /\ Known(id_to_node, nodes, u)
    BY ReplacedEntry DEF ReplacementsKnown
  <2>2. u' = u
    BY DEF UniqueIDOf
  <2>3. id_to_node'[u].fully_processed /\ nodes'[id_to_node'[u].v].is_guarded
    <3> HIDE DEF u
    <3>1. Known(id_to_node', nodes', u)
      BY <2>1, <2>2, KnownKept
    <3> QED BY <3>1, <2>2 DEF Known
  <2> QED BY <2>2, <2>3 DEF Known
<1> QED BY <1>1, <1>2 DEF ReplacementsKnown

(* A guarded file that is left for the first time waits to be replaced, if *)
(* it was not replaced before.                                             *)
LEMMA ExitGuardedFirstKnown ==
  ASSUME IInv, ReplacementsKnown, ExitGuardedFirst, GraphGrows
  PROVE  \A u \in DOMAIN m_needs_replacing' :
           /\ m_needs_replacing'[u].v = id_to_node'[u].v
           /\ id_to_node'[u].v \notin m_replaced
           /\ Known(id_to_node', nodes', u)
<1> DEFINE k == Head(m_stack).id
           new == [contents |-> BackState.replacement_contents,
                   path |-> Head(frames).file, v |-> BackState.v]
<1>1. phase = "preprocess"
  BY DEF ExitGuardedFirst, LeavingFile, Preprocessing
<1>2. k \in DOMAIN id_to_node /\ BackState = id_to_node[k]
  BY <1>1, Back DEF BackState
<1>3. /\ id_to_node' = MarkedProcessed
      /\ nodes' = MarkedGuarded(BackState.v)
      /\ m_needs_replacing' \in {m_needs_replacing,
                                 Emplace(m_needs_replacing, k, new)}
      /\ m_needs_replacing' # m_needs_replacing =>
           BackState.v \notin m_replaced
  BY DEF ExitGuardedFirst
<1>4. new.v = id_to_node[k].v
  BY <1>2
<1>5. id_to_node'[k].v = id_to_node[k].v /\ Known(id_to_node', nodes', k)
  <2>1. id_to_node'[k].v = id_to_node[k].v
    BY <1>2 DEF GraphGrows, EntriesGrow
  <2>2. id_to_node'[k].fully_processed
    BY <1>1, <1>3, MarkedProcessedGrows
  <2>3. nodes'[id_to_node[k].v].is_guarded
    BY <1>1, <1>2, <1>3, MarkedGuardedGrows
  <2> QED BY <2>1, <2>2, <2>3 DEF Known
<1> HIDE DEF k, new
<1>6. ASSUME NEW u \in DOMAIN m_needs_replacing
      PROVE  /\ m_needs_replacing[u].v = id_to_node'[u].v
             /\ id_to_node'[u].v \notin m_replaced
             /\ Known(id_to_node', nodes', u)
  <2>1. /\ u \in DOMAIN id_to_node /\ Known(id_to_node, nodes, u)
        /\ m_needs_replacing[u].v = id_to_node[u].v
        /\ id_to_node[u].v \notin m_replaced
    BY DEF IInv, ScanState, ReplacementsKnown
  <2>2. id_to_node'[u].v = id_to_node[u].v
    BY <2>1 DEF GraphGrows, EntriesGrow
  <2> QED BY <2>1, <2>2, KnownKept
<1>7. CASE m_needs_replacing' = m_needs_replacing
  BY <1>6, <1>7
<1>8. CASE /\ m_needs_replacing' = Emplace(m_needs_replacing, k, new)
           /\ BackState.v \notin m_replaced
  <2>1. /\ DOMAIN m_needs_replacing' = DOMAIN m_needs_replacing \cup {k}
        /\ \A u \in DOMAIN m_needs_replacing :
             m_needs_replacing'[u] = m_needs_replacing[u]
        /\ k \notin DOMAIN m_needs_replacing => m_needs_replacing'[k] = new
    BY <1>8 DEF Emplace
  <2>2. ASSUME k \notin DOMAIN m_needs_replacing
        PROVE  /\ m_needs_replacing'[k].v = id_to_node'[k].v
               /\ id_to_node'[k].v \notin m_replaced
               /\ Known(id_to_node', nodes', k)
    BY <1>2, <1>4, <1>5, <1>8, <2>1, <2>2
  <2> QED BY <1>6, <2>1, <2>2
<1> QED BY <1>3, <1>7, <1>8

-----------------------------------------------------------------------------
(* The end of a translation unit. *)

(* What is replaced now is not replaced yet, and is found under its new id.*)
LEMMA NewlyReplaced ==
  ASSUME IInv, ReplacementsKnown, id_to_node' = EntriesMoved,
         NEW f \in ReplacedPaths
  PROVE  /\ f \notin DOMAIN overwrites
         /\ <<f, TRUE>> \in DOMAIN id_to_node'
         /\ id_to_node'[<<f, TRUE>>] = id_to_node[UniqueIDOf(f)]
         /\ UniqueIDOf(f) \in NeedsReplacing
<1> DEFINE i == UniqueIDOf(f)
           kept == DOMAIN id_to_node \ NeedsReplacing
<1>1. /\ i = ReplacementOf(f) /\ i \in NeedsReplacing
      /\ i \in DOMAIN id_to_node
  BY ReplacementKnown
<1>2. f \notin DOMAIN overwrites
  BY <1>1, ReplacedEntry DEF ReplacementsKnown, NeedsReplacing
<1>3. <<f, TRUE>> \notin kept
  <2>1. SUFFICES ASSUME <<f, TRUE>> \in DOMAIN id_to_node PROVE FALSE
    OBVIOUS
  <2>2. <<f, TRUE>> = UniqueIDOf(<<f, TRUE>>[1])
    BY <2>1 DEF IInv, VerticesIdentified
  <2>3. UniqueIDOf(f) = <<f, TRUE>>
    BY <2>2
  <2> QED BY <1>2, <2>3 DEF UniqueIDOf
<1>4. /\ <<f, TRUE>> \in DOMAIN EntriesMoved
      /\ EntriesMoved[<<f, TRUE>>] = id_to_node[ReplacementOf(f)]
  BY <1>3 DEF EntriesMoved
<1> QED BY <1>1, <1>2, <1>4

(* Every other entry stays.                                                *)
LEMMA EntryStays ==
  ASSUME id_to_node' = EntriesMoved,
         NEW u \in DOMAIN id_to_node, u \notin NeedsReplacing
  PROVE  u \in DOMAIN id_to_node' /\ id_to_node'[u] = id_to_node[u]
BY DEF EntriesMoved

LEMMA EndSourceFileActionKnown ==
  ASSUME IInv, ReplacementsKnown, EndSourceFileAction
  PROVE  ReplacementsKnown'
<1> DEFINE newly == {m_needs_replacing[i].v : i \in NeedsReplacing}
<1>1. /\ DOMAIN overwrites' = DOMAIN overwrites \cup ReplacedPaths
      /\ m_replaced' = m_replaced \cup newly
      /\ id_to_node' = EntriesMoved
      /\ DOMAIN m_needs_replacing' = {}
      /\ UNCHANGED <<nodes, accounted, lexed>>
  BY DEF EndSourceFileAction, resultVars
<1>2. \A i \in NeedsReplacing :
        /\ m_needs_replacing[i].v \in DOMAIN nodes
        /\ nodes[m_needs_replacing[i].v].path = m_needs_replacing[i].path
  BY DEF NeedsReplacing, ReplacementsKnown, IInv, ScanState, VerticesIdentified
<1>3. m_replaced' \subseteq DOMAIN nodes
  BY <1>1, <1>2 DEF ReplacementsKnown
<1>4. DOMAIN overwrites' = {nodes[v].path : v \in m_replaced'}
  <2>1. ReplacedPaths = {nodes[v].path : v \in newly}
    BY <1>2 DEF ReplacedPaths
  <2> HIDE DEF newly
  <2> QED BY <1>1, <2>1 DEF ReplacementsKnown
<1>5. ASSUME NEW f \in DOMAIN overwrites'
      PROVE  Known(id_to_node', nodes', UniqueIDOf(f)')
  <2>1. UniqueIDOf(f)' = <<f, TRUE>>
    BY Zenon DEF UniqueIDOf
  <2>2. /\ id_to_node'[<<f, TRUE>>].fully_processed
        /\ nodes[id_to_node'[<<f, TRUE>>].v].is_guarded
    <3>1. CASE f \in ReplacedPaths
      BY <1>1, <3>1, NewlyReplaced DEF ReplacementsKnown, Known, NeedsReplacing
    <3>2. CASE f \notin ReplacedPaths
      <4>1. f \in DOMAIN overwrites
        BY <1>1, <3>2
      <4>2. /\ <<f, TRUE>> \in DOMAIN id_to_node
            /\ Known(id_to_node, nodes, <<f, TRUE>>)
        BY <4>1, ReplacedEntry DEF ReplacementsKnown
      <4>3. <<f, TRUE>> \notin NeedsReplacing
        <5>1. \A i \in NeedsReplacing : i[1] \in ReplacedPaths
          BY DEF IInv, ScanState, NeedsReplacing, ReplacedPaths
        <5> QED BY <3>2, <5>1
      <4> QED BY <1>1, <4>2, <4>3, EntryStays DEF Known
    <3> QED BY <3>1, <3>2
  <2> QED BY <1>1, <2>1, <2>2 DEF Known
<1> QED BY <1>1, <1>3, <1>4, <1>5 DEF ReplacementsKnown

LEMMA EndSourceFileActionGrows ==
  ASSUME IInv, ReplacementsKnown, EndSourceFileAction
  PROVE  Grows
<1>1. /\ id_to_node' = EntriesMoved /\ m_replaced \subseteq m_replaced'
      /\ UNCHANGED <<nodes, edges, accounted, lexed>>
      /\ DOMAIN overwrites' = DOMAIN overwrites \cup ReplacedPaths
  BY DEF EndSourceFileAction, resultVars
<1>2. ASSUME NEW f \in DOMAIN overwrites
      PROVE  f \in DOMAIN overwrites' /\ overwrites'[f] = overwrites[f]
  <2>1. f \notin ReplacedPaths
    BY <1>1, NewlyReplaced
  <2> QED BY <1>1, <2>1 DEF EndSourceFileAction
<1>3. ASSUME NEW u \in DOMAIN id_to_node, id_to_node[u].fully_processed
      PROVE  \E w \in DOMAIN id_to_node' : id_to_node'[w] = id_to_node[u]
  <2>1. CASE u \in NeedsReplacing
    <3>1. u[1] \in ReplacedPaths
      BY <2>1 DEF IInv, ScanState, NeedsReplacing, ReplacedPaths
    <3>2. u = UniqueIDOf(u[1])
      BY DEF IInv, VerticesIdentified
    <3>3. /\ <<u[1], TRUE>> \in DOMAIN id_to_node'
          /\ id_to_node'[<<u[1], TRUE>>] = id_to_node[u]
      BY <1>1, <3>1, <3>2, NewlyReplaced
    <3> QED BY <3>3
  <2>2. CASE u \notin NeedsReplacing
    BY <1>1, <2>2, EntryStays
  <2> QED BY <2>1, <2>2
<1>4. Processed(id_to_node, nodes) \subseteq Processed(id_to_node', nodes')
  BY <1>1, <1>3 DEF Processed
<1>5. accounted' <= lexed'
  BY <1>1 DEF ReplacementsKnown
<1> QED BY <1>1, <1>2, <1>4, <1>5 DEF Grows

-----------------------------------------------------------------------------
LEMMA GrowthIsKept ==
  ASSUME IInv, GraphGrows, UNCHANGED <<m_replaced, overwrites>>,
         accounted' <= lexed'
  PROVE  Grows
<1>1. ASSUME NEW u \in DOMAIN id_to_node, id_to_node[u].fully_processed
      PROVE  /\ u \in DOMAIN id_to_node' /\ id_to_node'[u].fully_processed
             /\ nodes'[id_to_node'[u].v].path = nodes[id_to_node[u].v].path
  BY <1>1 DEF GraphGrows, EntriesGrow, VerticesGrow, IInv, VerticesIdentified
<1>2. Processed(id_to_node, nodes) \subseteq Processed(id_to_node', nodes')
  BY <1>1 DEF Processed
<1> QED BY <1>2 DEF Grows, GraphGrows, VerticesGrow

LEMMA ReplacementsAlwaysKnown == Spec => []ReplacementsKnown
<1>1. Init => ReplacementsKnown
  BY DEF Init, ReplacementsKnown
<1>2. IInv /\ ReplacementsKnown /\ [Next]_vars => ReplacementsKnown'
  <2> SUFFICES ASSUME IInv, ReplacementsKnown, [Next]_vars
               PROVE  ReplacementsKnown'
    OBVIOUS
  <2>1. CASE EndSourceFileAction
    BY <2>1, EndSourceFileActionKnown
  <2>2. CASE ~EndSourceFileAction
    <3>1. GraphGrows /\ UNCHANGED <<m_replaced, overwrites>>
      BY <2>2, StepGrows
    <3>2. accounted' <= lexed'
      BY AccountedForLexed DEF ReplacementsKnown
    <3>3. \A u \in DOMAIN m_needs_replacing' :
            /\ m_needs_replacing'[u].v = id_to_node'[u].v
            /\ id_to_node'[u].v \notin m_replaced
            /\ Known(id_to_node', nodes', u)
      <4>1. CASE ExitGuardedFirst
        BY <3>1, <4>1, ExitGuardedFirstKnown
      <4>2. CASE ~ExitGuardedFirst
        <5>1. m_needs_replacing' = m_needs_replacing
          BY <2>2, <4>2, NeedsReplacingUntouched
        <5>2. ASSUME NEW u \in DOMAIN m_needs_replacing
              PROVE  /\ m_needs_replacing[u].v = id_to_node'[u].v
                     /\ id_to_node'[u].v \notin m_replaced
                     /\ Known(id_to_node', nodes', u)
          <6>1. /\ u \in DOMAIN id_to_node /\ Known(id_to_node, nodes, u)
                /\ m_needs_replacing[u].v = id_to_node[u].v
                /\ id_to_node[u].v \notin m_replaced
            BY DEF IInv, ScanState, ReplacementsKnown
          <6>2. id_to_node'[u].v = id_to_node[u].v
            BY <3>1, <6>1 DEF GraphGrows, EntriesGrow
          <6> QED BY <3>1, <6>1, <6>2, KnownKept
        <5> QED BY <5>1, <5>2
      <4> QED BY <4>1, <4>2
    <3>4. /\ m_replaced' \subseteq DOMAIN nodes'
          /\ DOMAIN overwrites' = {nodes'[v].path : v \in m_replaced'}
          /\ \A f \in DOMAIN overwrites' :
              Known(id_to_node', nodes', UniqueIDOf(f)')
      BY <3>1, ReplacedStaysKnown
    <3> QED BY <3>1, <3>2, <3>3, <3>4 DEF ReplacementsKnown
  <2> QED BY <2>1, <2>2
<1> QED BY <1>1, <1>2, InductiveInvariant, PTL DEF Spec

(* On every program, a file whose contents were swapped is guarded and     *)
(* completely known, and exactly the replaced vertices have contents in    *)
(* the file system: no later translation unit can miss what is gone.       *)
THEOREM OnlyKnownReplaced == Spec => []ReplacedIsKnown
<1>1. ReplacementsKnown => ReplacedIsKnown
  BY DEF ReplacementsKnown, ReplacedIsKnown, Known
<1> QED BY <1>1, ReplacementsAlwaysKnown, PTL

(* On every program, no step takes anything back: vertices, edges and      *)
(* guards stay, a file stays processed, also when its entry moves to the   *)
(* id of its replacement, and no contents are replaced twice.              *)
THEOREM NothingTakenBack == Spec => OnlyGrows
<1>1. IInv /\ ReplacementsKnown /\ [Next]_vars => [Grows]_vars
  <2> SUFFICES ASSUME IInv, ReplacementsKnown, [Next]_vars PROVE Grows
    OBVIOUS
  <2>1. CASE EndSourceFileAction
    BY <2>1, EndSourceFileActionGrows
  <2>2. CASE ~EndSourceFileAction
    <3>1. accounted' <= lexed'
      BY AccountedForLexed DEF ReplacementsKnown
    <3>2. GraphGrows /\ UNCHANGED <<m_replaced, overwrites>>
      BY <2>2, StepGrows
    <3> QED BY <3>1, <3>2, GrowthIsKept
  <2> QED BY <2>1, <2>2
<1> QED BY <1>1, InductiveInvariant, ReplacementsAlwaysKnown, PTL
        DEF Spec, OnlyGrows
=============================================================================
