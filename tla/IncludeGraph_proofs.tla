------------------------ MODULE IncludeGraph_proofs ------------------------
(***************************************************************************)
(* The include graph of a plain program, for all its files, scripts and    *)
(* macros: no assertion of the code fails, a guarded file gets its cost    *)
(* once, and the graph is the one that IncludeGraph promises.  Of a settled*)
(* one, whether a file is guarded is what its script says.  Of a measured  *)
(* one, the size of a file is that of what it includes, all told.          *)
(***************************************************************************)
EXTENDS BuildGraph_proofs, WellFoundedInduction

(***************************************************************************)
(* The invariant of a plain program.  A directive of a file that clang has *)
(* met is in the graph or still ahead of it, in a frame of its include     *)
(* stack.                                                                  *)
(***************************************************************************)
Included(f) ==
  {d \in File \ program.absent : Include(d) \in ToSet(program.script[f])}

Ahead(f, d, i) == frames[i].file = f /\ Include(d) \in ToSet(frames[i].rest)

Unconditional(s) == \A j \in DOMAIN s : s[j].op \notin Conditional

Covered(f) ==
  \A d \in Included(f) :
    <<f, d>> \in Recorded \/ \E i \in DOMAIN frames : Ahead(f, d, i)

\* ... and no conditional stands before it.
CoveredPast(f) ==
  \A d \in Included(f) :
    \/ <<f, d>> \in Recorded
    \/ \E i \in DOMAIN frames : Ahead(f, d, i) /\ Unconditional(frames[i].rest)

AllRecorded(f) == \A d \in Included(f) : <<f, d>> \in Recorded

(* A replacement has directives that define or undefine macros and no      *)
(* others.                                                                 *)
Kept(s, f) ==
  \A j \in DOMAIN s : /\ s[j].op \in {"define", "undef"}
                      /\ s[j].op = "define" /\ s[j].macro \in File => s[j].macro = f

ReplacementsKeepMacros ==
  /\ \A f \in DOMAIN overwrites : Kept(overwrites[f], f)
  /\ \A u \in DOMAIN id_to_node :
       id_to_node[u].v \notin m_replaced =>
         Kept(id_to_node[u].replacement_contents, u[1])
  /\ \A u \in DOMAIN m_needs_replacing : Kept(m_needs_replacing[u].contents, u[1])

(* What is left of a file in progress, and whether its guard is still to   *)
(* be read.                                                                *)
ReadsContents ==
  \A i \in DOMAIN frames :
    ToSet(frames[i].rest) \subseteq ToSet(Contents(frames[i].file))

GuardFirst ==
  \A i \in DOMAIN frames : \A j \in DOMAIN frames[i].rest :
    frames[i].rest[j].op \in Conditional =>
      /\ j = 1 /\ ~frames[i].candidate
      /\ \/ i = Len(frames)
         \/ i = 1 /\ pending = NoFile /\ ShouldEnter(frames[i].file)

(* Nothing of a file in progress is lost, unless its guard has just        *)
(* excluded the rest of it.                                                *)
Dropped(i) ==
  /\ i = 1 /\ i # Len(frames) /\ frames[i].rest = <<>> /\ ~frames[i].candidate
  /\ pending = NoFile /\ frames[i].file \notin once \cup controlling

FramesComplete ==
  \A i \in DOMAIN frames :
    \/ Dropped(i)
    \/ \A d \in Included(frames[i].file) :
         \/ <<frames[i].file, d>> \in Recorded
         \/ Include(d) \in ToSet(frames[i].rest)

(* A source is the main file of its translation unit and nothing else.     *)
SourcesAreMain ==
  /\ pending \notin ToSet(program.sources)
  /\ \A i \in DOMAIN frames :
       i # Len(frames) => frames[i].file \notin ToSet(program.sources)
  /\ \A u \in DOMAIN id_to_node :
       u[1] \in ToSet(program.sources) => ~id_to_node[u].fully_processed
  /\ phase \in {"preprocess", "end"} =>
       started > 0 /\ frames[Len(frames)].file = program.sources[started]
  /\ started <= Len(program.sources)
  /\ \A k \in 1..started : \E v \in DOMAIN nodes : nodes[v].path = program.sources[k]

(* Its forced includes come first, and the file is read to its end.        *)
ForcedIncluded ==
  /\ phase = "end" => frames[1].rest = <<>>
  /\ phase # "preprocess" => predefines = <<>>
  /\ ToSet(predefines) \subseteq {Include(f) : f \in ToSet(program.forced)}
  /\ \A k \in 1..started, d \in ToSet(program.forced) \ program.absent :
       \/ <<program.sources[k], d>> \in Recorded
       \/ k = started /\ Include(d) \in ToSet(predefines)

(* What the graph says is true, and known files are covered.               *)
OnlyDirectives == Recorded \subseteq Directives

FilesCovered ==
  /\ \A v \in DOMAIN nodes :
       /\ nodes[v].path \in Promise!Known
       /\ nodes[v].path = pending \/ Covered(nodes[v].path)
       /\ nodes[v].is_guarded => AllRecorded(nodes[v].path)
  /\ \A f \in once \cup controlling : Covered(f)
  /\ \A i \in DOMAIN frames : Covered(frames[i].file)
  /\ \A f \in macros \cap File : CoveredPast(f)

(* A header gets its cost and its guard when its first visit ends.         *)
CostedOnce ==
  \A u \in DOMAIN id_to_node :
    ~id_to_node[u].fully_processed =>
      /\ ~nodes[id_to_node[u].v].is_guarded
      /\ u[1] \notin ToSet(program.sources) =>
           nodes[id_to_node[u].v].underlying_cost = ZeroCost

PlainInv ==
  /\ ReplacementsKeepMacros
  /\ ReadsContents /\ GuardFirst /\ FramesComplete
  /\ SourcesAreMain /\ ForcedIncluded
  /\ OnlyDirectives /\ FilesCovered /\ CostedOnce

-----------------------------------------------------------------------------
(* Lemmas about the directives of a program. *)

LEMMA TailItems ==
  ASSUME NEW S, NEW s \in Seq(S), s # <<>>
  PROVE  /\ ToSet(s) = {Head(s)} \cup ToSet(Tail(s))
         /\ Head(s) = s[1] /\ 1 \in DOMAIN s
         /\ \A j \in DOMAIN Tail(s) :
              j + 1 \in DOMAIN s /\ Tail(s)[j] = s[j + 1] /\ j + 1 # 1
<1>1. /\ DOMAIN s = 1..Len(s) /\ Len(s) \in Nat /\ Len(s) >= 1
      /\ DOMAIN Tail(s) = 1..(Len(s) - 1) /\ Head(s) = s[1]
      /\ \A i \in 1..(Len(s) - 1) : Tail(s)[i] = s[i + 1]
  BY SeqHead
<1>2. \A j \in DOMAIN Tail(s) :
        j + 1 \in DOMAIN s /\ Tail(s)[j] = s[j + 1] /\ j + 1 # 1
  BY <1>1
<1>3. \A i \in DOMAIN s : i # 1 => i - 1 \in DOMAIN Tail(s) /\ Tail(s)[i - 1] = s[i]
  BY <1>1
<1>4. 1 \in DOMAIN s
  BY <1>1
<1>5. ASSUME NEW x \in ToSet(s) PROVE x = Head(s) \/ x \in ToSet(Tail(s))
  <2>1. PICK i \in DOMAIN s : x = s[i]
    BY DEF ToSet
  <2> QED BY <1>1, <1>3, <2>1 DEF ToSet
<1>6. ToSet(Tail(s)) \subseteq ToSet(s) /\ Head(s) \in ToSet(s)
  BY <1>1, <1>2, <1>4 DEF ToSet
<1> QED BY <1>1, <1>2, <1>4, <1>5, <1>6

(* A concatenation has the items of both parts.                            *)
LEMMA ItemsOfBoth ==
  ASSUME NEW S, NEW s \in Seq(S), NEW t \in Seq(S)
  PROVE  ToSet(s \o t) = ToSet(s) \cup ToSet(t)
<1>1. /\ DOMAIN s = 1..Len(s) /\ DOMAIN t = 1..Len(t)
      /\ DOMAIN (s \o t) = 1..(Len(s) + Len(t))
      /\ Len(s) \in Nat /\ Len(t) \in Nat
  OBVIOUS
<1>2. \A i \in DOMAIN s : i \in DOMAIN (s \o t) /\ (s \o t)[i] = s[i]
  BY <1>1
<1>3. \A i \in DOMAIN t :
        Len(s) + i \in DOMAIN (s \o t) /\ (s \o t)[Len(s) + i] = t[i]
  BY <1>1
<1>4. \A i \in DOMAIN (s \o t) :
        i \in DOMAIN s \/ (i - Len(s) \in DOMAIN t /\ i = Len(s) + (i - Len(s)))
  BY <1>1
<1>5. ASSUME NEW x \in ToSet(s \o t) PROVE x \in ToSet(s) \cup ToSet(t)
  <2>1. PICK i \in DOMAIN (s \o t) : x = (s \o t)[i]
    BY DEF ToSet
  <2>2. CASE i \in DOMAIN s
    BY <1>2, <2>1, <2>2 DEF ToSet
  <2>3. CASE i \notin DOMAIN s
    <3>1. PICK j \in DOMAIN t : i = Len(s) + j
      BY <1>4, <2>3
    <3> QED BY <1>3, <2>1, <3>1 DEF ToSet
  <2> QED BY <2>2, <2>3
<1>6. ToSet(s) \cup ToSet(t) \subseteq ToSet(s \o t)
  BY <1>2, <1>3 DEF ToSet
<1> QED BY <1>5, <1>6

(* What clang reads of a file of a plain program.                          *)
LEMMA PlainScript ==
  ASSUME program \in Program, Plain(program),
         NEW f \in File, NEW j \in DOMAIN program.script[f]
  PROVE  LET item == program.script[f][j] IN
         /\ item.op = "include" =>
              /\ item = Include(item.file) /\ item.file \in File
              /\ item.file \notin ToSet(program.sources)
              /\ item.file \notin program.absent => item.file \in Included(f)
         /\ item.op \in Conditional => j = 1
         /\ item.op = "define" /\ item.macro \in File => item.macro = f
<1> DEFINE item == program.script[f][j]
<1>1. item \in Item
  BY ProgramFields
<1>2. ASSUME item.op = "include"
      PROVE  /\ item = Include(item.file) /\ item.file \in File
             /\ item.file \notin ToSet(program.sources)
             /\ item.file \notin program.absent => item.file \in Included(f)
  <2>1. item.needs = {} /\ item.lacks = {} /\ item.file \notin ToSet(program.sources)
    BY <1>2 DEF Plain
  <2>2. item \in [op : {"include"}, file : File,
                  needs : SUBSET MacroName, lacks : SUBSET MacroName]
    <3> HIDE DEF item
    <3> QED BY <1>1, <1>2 DEF Item
  <2>3. item = Include(item.file) /\ item.file \in File
    <3> HIDE DEF item
    <3> QED BY <2>1, <2>2 DEF Include
  <2>4. item \in ToSet(program.script[f])
    BY DEF ToSet
  <2> HIDE DEF item
  <2> QED BY <2>1, <2>3, <2>4 DEF Included
<1>3. item.op \in Conditional => j = 1
  BY DEF Plain
<1>4. item.op = "define" /\ item.macro \in File => item.macro = f
  BY DEF Plain
<1> QED BY <1>2, <1>3, <1>4

LEMMA ReplacedContents ==
  ASSUME TypeOK, NEW f \in DOMAIN overwrites, NEW j \in DOMAIN Contents(f)
  PROVE  \/ Contents(f)[j] = Once
         \/ j - 1 \in DOMAIN overwrites[f] /\ Contents(f)[j] = overwrites[f][j - 1]
<1>1. Contents(f) = <<Once>> \o overwrites[f] /\ overwrites[f] \in Seq(Item)
  BY DEF Contents, TypeOK
<1> QED BY <1>1, SeqPush, MadeItems

LEMMA PlainContents ==
  ASSUME TypeOK, Plain(program), ReplacementsKeepMacros,
         NEW f \in File, NEW j \in DOMAIN Contents(f)
  PROVE  LET item == Contents(f)[j] IN
         /\ item.op = "include" =>
              /\ item = Include(item.file) /\ item.file \in File
              /\ item.file \notin ToSet(program.sources)
              /\ item.file \notin program.absent => item.file \in Included(f)
         /\ item.op \in Conditional => j = 1
         /\ item.op = "define" /\ item.macro \in File => item.macro = f
<1>1. CASE f \in DOMAIN overwrites
  <2>1. CASE Contents(f)[j] = Once
    BY <2>1 DEF Once, Conditional
  <2>2. CASE /\ j - 1 \in DOMAIN overwrites[f]
             /\ Contents(f)[j] = overwrites[f][j - 1]
    BY <1>1, <2>2 DEF ReplacementsKeepMacros, Kept, Conditional
  <2> QED BY <1>1, <2>1, <2>2, ReplacedContents
<1>2. CASE f \notin DOMAIN overwrites
  <2>1. Contents(f) = program.script[f]
    BY <1>2 DEF Contents
  <2> QED BY <2>1, PlainScript DEF TypeOK
<1> QED BY <1>1, <1>2

LEMMA IncludesInScript ==
  ASSUME NEW f, f \notin DOMAIN overwrites, NEW d \in Included(f)
  PROVE  Include(d) \in ToSet(Contents(f))
BY DEF Contents, Included

(* The directives, said of the scripts.                                    *)
LEMMA DirectivesKnown ==
  ASSUME program \in Program, Plain(program), NEW f \in File
  PROVE  /\ \A d \in Included(f) :
              <<f, d>> \in Directives /\ d \notin ToSet(program.sources)
         /\ f \in ToSet(program.sources) =>
              \A d \in ToSet(program.forced) \ program.absent :
                <<f, d>> \in Directives
         /\ \A d : <<f, d>> \in Directives =>
              /\ d \notin ToSet(program.sources)
              /\ \/ d \in Included(f)
                 \/ /\ f \in ToSet(program.sources)
                    /\ d \in ToSet(program.forced) \ program.absent
<1> DEFINE first == [i \in DOMAIN program.forced |-> Include(program.forced[i])]
           rest == program.script[f]
           all == EffectiveScript(f)
<1>1. /\ rest \in Seq(Item) /\ program.forced \in Seq(File)
      /\ program.script \in [File -> Seq(Item)]
  BY ProgramFields
<1>2. first \in Seq(Item)
  BY <1>1, MadeItems
<1>3. \A d : Include(d).op = "include" /\ Include(d).file = d
  BY DEF Include
<1>4. ToSet(first) = {Include(d) : d \in ToSet(program.forced)}
  BY DEF ToSet
<1>5. ToSet(first \o rest) = ToSet(first) \cup ToSet(rest)
  BY <1>1, <1>2, ItemsOfBoth
<1>6. ToSet(all) = ToSet(rest) \cup
        IF f \in ToSet(program.sources) THEN ToSet(first) ELSE {}
  <2> HIDE DEF first, rest
  <2>1. CASE f \in ToSet(program.sources)
    <3>1. all = first \o rest
      BY <2>1 DEF EffectiveScript, first, rest
    <3> QED BY <1>5, <2>1, <3>1
  <2>2. CASE f \notin ToSet(program.sources)
    <3>1. all = rest
      BY <2>2 DEF EffectiveScript, first, rest
    <3> QED BY <2>2, <3>1
  <2> QED BY <2>1, <2>2
<1> HIDE DEF all, first
<1>7. FilesIncludedBy(f) =
        {item.file : item \in {x \in ToSet(all) : x.op = "include"}} \ program.absent
  BY DEF FilesIncludedBy, all
<1>8. \A d : <<f, d>> \in Directives <=> d \in FilesIncludedBy(f)
  BY DEF Directives
<1>9. \A d \in Included(f) : d \in FilesIncludedBy(f)
  BY <1>3, <1>6, <1>7 DEF Included
<1>10. ASSUME NEW x \in ToSet(rest), x.op = "include"
       PROVE  /\ x.file \notin ToSet(program.sources)
              /\ x.file \notin program.absent => x.file \in Included(f)
  <2>1. PICK j \in DOMAIN rest : x = rest[j]
    BY DEF ToSet
  <2> QED BY <1>10, <2>1, PlainScript
<1>11. \A d \in Included(f) : d \notin ToSet(program.sources)
  BY <1>3, <1>10 DEF Included
<1>12. f \in ToSet(program.sources) =>
         \A d \in ToSet(program.forced) \ program.absent : d \in FilesIncludedBy(f)
  <2> SUFFICES ASSUME f \in ToSet(program.sources),
                      NEW d \in ToSet(program.forced) \ program.absent
               PROVE  d \in FilesIncludedBy(f)
    OBVIOUS
  <2>1. Include(d) \in ToSet(all)
    BY <1>4, <1>6
  <2> QED BY <1>3, <1>7, <2>1
<1>13. ASSUME NEW d \in FilesIncludedBy(f)
       PROVE  /\ d \notin ToSet(program.sources)
              /\ \/ d \in Included(f)
                 \/ /\ f \in ToSet(program.sources)
                    /\ d \in ToSet(program.forced) \ program.absent
  <2>1. PICK x \in ToSet(all) : x.op = "include" /\ x.file = d
    BY <1>7
  <2>2. d \notin program.absent
    BY <1>7
  <2>3. CASE x \in ToSet(rest)
    BY <1>10, <2>1, <2>2, <2>3
  <2>4. CASE x \notin ToSet(rest)
    <3>1. f \in ToSet(program.sources) /\ x \in ToSet(first)
      BY <1>6, <2>1, <2>4
    <3>2. d \in ToSet(program.forced)
      BY <1>3, <1>4, <2>1, <3>1
    <3> QED BY <2>2, <3>1, <3>2 DEF Plain
  <2> QED BY <2>3, <2>4
<1> QED BY <1>8, <1>9, <1>11, <1>12, <1>13

-----------------------------------------------------------------------------
(* What a step does to the graph, seen from the files. *)

SameFile(n, m) ==
  /\ n.path = m.path
  /\ n.is_guarded = m.is_guarded
  /\ n.underlying_cost = m.underlying_cost

LEMMA WithIncomingKeepsFiles ==
  ASSUME NEW ns \in Seq(Node), NEW from \in DOMAIN ns, NEW to \in DOMAIN ns
  PROVE  \A v \in DOMAIN ns : SameFile(WithIncoming(ns, from, to)[v], ns[v])
<1> DEFINE old == ns[to]
           internal == IF ns[from].is_external THEN old.internal_incoming
                       ELSE old.internal_incoming + 1
           external == IF ns[from].is_external THEN old.external_incoming + 1
                       ELSE old.external_incoming
           new == [old EXCEPT !.internal_incoming = internal,
                              !.external_incoming = external]
<1>1. old \in Node
  OBVIOUS
<1>2. WithIncoming(ns, from, to) = [ns EXCEPT ![to] = new]
  BY DEF WithIncoming
<1>3. SameFile(new, old)
  <2> HIDE DEF internal, external, old
  <2>1. /\ "path" \in DOMAIN old /\ "is_guarded" \in DOMAIN old
        /\ "underlying_cost" \in DOMAIN old
    BY <1>1 DEF Node
  <2> QED BY <2>1, Zenon DEF SameFile
<1> HIDE DEF new, internal, external
<1>4. \A v \in DOMAIN ns :
        [ns EXCEPT ![to] = new][v] = IF v = to THEN new ELSE ns[v]
  OBVIOUS
<1> QED BY <1>2, <1>3, <1>4 DEF SameFile

LEMMA ComponentKeepsFiles ==
  ASSUME NEW ns \in Seq(Node), NEW w \in DOMAIN ns, NEW x \in Nat,
         NEW v \in DOMAIN ns
  PROVE  SameFile([ns EXCEPT ![w].component = x][v], ns[v])
<1> DEFINE new == [ns[w] EXCEPT !.component = x]
<1>1. ns[w] \in Node
  OBVIOUS
<1>2. SameFile(new, ns[w])
  BY <1>1 DEF Node, SameFile
<1>3. [ns EXCEPT ![w].component = x] = [ns EXCEPT ![w] = new]
  OBVIOUS
<1> HIDE DEF new
<1>4. [ns EXCEPT ![w] = new][v] = IF v = w THEN new ELSE ns[v]
  OBVIOUS
<1> QED BY <1>2, <1>3, <1>4 DEF SameFile

LEMMA WithComponentKeepsFiles ==
  ASSUME NEW ns \in Seq(Node), NEW from \in DOMAIN ns, NEW to \in DOMAIN ns
  PROVE  \A v \in DOMAIN ns : SameFile(WithComponent(ns, from, to)[v], ns[v])
<1> SUFFICES ASSUME NEW v \in DOMAIN ns
             PROVE  SameFile(WithComponent(ns, from, to)[v], ns[v])
  OBVIOUS
<1> DEFINE first == [ns EXCEPT ![to].component = from]
           both == [first EXCEPT ![from].component = to]
<1>1. from \in Nat /\ to \in Nat
  OBVIOUS
<1>2. first \in Seq(Node) /\ DOMAIN first = DOMAIN ns
  BY <1>1, ComponentSet
<1>3. SameFile(first[v], ns[v])
  BY <1>1, ComponentKeepsFiles
<1>4. SameFile(both[v], first[v])
  <2> HIDE DEF first
  <2> QED BY <1>1, <1>2, ComponentKeepsFiles
<1>5. WithComponent(ns, from, to) \in {ns, both}
  BY DEF WithComponent
<1> HIDE DEF first, both
<1> QED BY <1>3, <1>4, <1>5 DEF SameFile

(* A file that is new to the graph.                                        *)
NewFile(n, f) ==
  n.path = f /\ ~n.is_guarded /\ n.underlying_cost = ZeroCost

(* The vertices after a directive: those before it, and one of the file it *)
(* includes if that is new.                                                *)
LEMMA InclusionVertices ==
  ASSUME IInv, InclusionDirective
  PROVE  /\ \A v \in DOMAIN nodes :
              v \in DOMAIN nodes' /\ SameFile(nodes'[v], nodes[v])
         /\ \A v \in DOMAIN nodes' \ DOMAIN nodes :
              NewFile(nodes'[v], Head(Remaining).file)
<1> DEFINE f == Head(Remaining).file
           uid == UniqueIDOf(f)
           known == uid \in DOMAIN id_to_node
           from == BackState.v
           to == IF known THEN id_to_node[uid].v ELSE Len(nodes) + 1
           node == FileNode(f, f \in program.external, IsPrecompiled(f))
           nodes1 == IF known THEN nodes ELSE Append(nodes, node)
           counted == WithIncoming(nodes1, from, to)
           linked == WithComponent(counted, from, to)
<1>1. f \in File
  BY InclusionDirectiveGuard, NextItem, ItemFields DEF IncludingFile, Lexing
<1>2. from \in DOMAIN nodes
  BY InclusionDirectiveGuard, Back
<1>3. nodes \in Seq(Node)
  BY DEF IInv, TypeOK
<1>4. /\ nodes1 \in Seq(Node) /\ from \in DOMAIN nodes1 /\ to \in DOMAIN nodes1
      /\ \A v \in DOMAIN nodes : v \in DOMAIN nodes1 /\ nodes1[v] = nodes[v]
      /\ \A v \in DOMAIN nodes1 \ DOMAIN nodes : NewFile(nodes1[v], f)
  <2>1. CASE known
    BY <1>2, <1>3, <2>1 DEF IInv, VerticesIdentified
  <2>2. CASE ~known
    <3>1. \A e, p \in BOOLEAN : FileNode(f, e, p) \in Node
      BY <1>1, NewRecords
    <3>2. (f \in program.external) \in BOOLEAN /\ IsPrecompiled(f) \in BOOLEAN
      BY DEF IsPrecompiled
    <3>3. node \in Node
      BY <3>1, <3>2, Zenon
    <3>4. NewFile(node, f)
      BY DEF FileNode, NewFile
    <3>5. nodes1 = Append(nodes, node) /\ to = Len(nodes) + 1
      BY <2>2
    <3> HIDE DEF node, nodes1, to, from, f
    <3>6. /\ nodes1 \in Seq(Node)
          /\ DOMAIN nodes1 = DOMAIN nodes \cup {Len(nodes) + 1}
          /\ nodes1[Len(nodes) + 1] = node
          /\ \A v \in DOMAIN nodes : nodes1[v] = nodes[v]
      BY <1>3, <3>3, <3>5
    <3> QED BY <1>2, <3>4, <3>5, <3>6
  <2> QED BY <2>1, <2>2
<1>5. nodes' \in {nodes1, linked}
  <2>1. CASE HasEdge(from, to)
    BY <2>1, Zenon DEF InclusionDirective
  <2>2. CASE ~HasEdge(from, to)
    BY <2>2, Zenon DEF InclusionDirective
  <2> QED BY <2>1, <2>2
<1> HIDE DEF f, from, to, nodes1
<1>6. /\ counted \in Seq(Node) /\ DOMAIN counted = DOMAIN nodes1
      /\ \A v \in DOMAIN nodes1 : SameFile(counted[v], nodes1[v])
  BY <1>4, WithIncomingTyped, WithIncomingKeepsFiles
<1> HIDE DEF counted
<1>7. /\ linked \in Seq(Node) /\ DOMAIN linked = DOMAIN counted
      /\ \A v \in DOMAIN counted : SameFile(linked[v], counted[v])
  BY <1>4, <1>6, WithComponentTyped, WithComponentKeepsFiles
<1> HIDE DEF linked
<1>8. /\ DOMAIN nodes' = DOMAIN nodes1
      /\ \A v \in DOMAIN nodes1 : SameFile(nodes'[v], nodes1[v])
  BY <1>5, <1>6, <1>7 DEF SameFile
<1>9. \A v \in DOMAIN nodes : v \in DOMAIN nodes' /\ SameFile(nodes'[v], nodes[v])
  BY <1>4, <1>8
<1>10. ASSUME NEW v \in DOMAIN nodes' \ DOMAIN nodes
       PROVE  NewFile(nodes'[v], f)
  BY <1>4, <1>8 DEF SameFile, NewFile
<1> QED BY <1>9, <1>10 DEF f

(* The entries after a directive. What is kept of an include is kept for a *)
(* file that has been replaced.                                            *)
LEMMA InclusionEntries ==
  ASSUME IInv, InclusionDirective
  PROVE  /\ UniqueIDOf(Head(Remaining).file) \in DOMAIN id_to_node'
         /\ \A u \in DOMAIN id_to_node' \ DOMAIN id_to_node :
              /\ u = UniqueIDOf(Head(Remaining).file)
              /\ ~id_to_node'[u].fully_processed
              /\ id_to_node'[u].replacement_contents = <<>>
              /\ id_to_node'[u].v = Len(nodes) + 1
         /\ \A u \in DOMAIN id_to_node :
              /\ u \in DOMAIN id_to_node'
              /\ id_to_node'[u].v = id_to_node[u].v
              /\ id_to_node'[u].fully_processed = id_to_node[u].fully_processed
              /\ id_to_node[u].v \notin m_replaced =>
                   id_to_node'[u].replacement_contents =
                     id_to_node[u].replacement_contents
<1> DEFINE f == Head(Remaining).file
           uid == UniqueIDOf(f)
           known == uid \in DOMAIN id_to_node
           k == Head(m_stack).id
           from == BackState.v
           to == IF known THEN id_to_node[uid].v ELSE Len(nodes) + 1
           fresh == NewFileState(to)
           map1 == Emplace(id_to_node, uid, fresh)
           old == map1[k]
           recorded == [old EXCEPT !.replacement_contents =
                          Append(@, Include(f))]
<1>1. /\ k \in DOMAIN id_to_node /\ id_to_node[k] \in FileState
      /\ from = id_to_node[k].v
  BY InclusionDirectiveGuard, Back DEF BackState
<1>2. /\ DOMAIN map1 = DOMAIN id_to_node \cup {uid}
      /\ \A u \in DOMAIN id_to_node : map1[u] = id_to_node[u]
      /\ ~known => map1[uid] = fresh
  BY DEF Emplace
<1>3. /\ ~fresh.fully_processed /\ fresh.replacement_contents = <<>>
      /\ ~known => fresh.v = Len(nodes) + 1
  BY DEF NewFileState
<1>4. \/ id_to_node' = map1
      \/ from \in m_replaced /\ id_to_node' = [map1 EXCEPT ![k] = recorded]
  <2>1. CASE HasEdge(from, to)
    BY <2>1, Zenon DEF InclusionDirective
  <2>2. CASE ~HasEdge(from, to)
    <3>1. id_to_node' = IF program.replace_file_optimization /\ from \in m_replaced
                        THEN [map1 EXCEPT ![k].replacement_contents =
                                            Append(@, Include(f))]
                        ELSE map1
      BY <2>2, Zenon DEF InclusionDirective
    <3>2. [map1 EXCEPT ![k].replacement_contents = Append(@, Include(f))]
            = [map1 EXCEPT ![k] = recorded]
      BY <1>1, <1>2
    <3> QED BY <3>1, <3>2, Zenon
  <2> QED BY <2>1, <2>2
<1>5. /\ recorded.v = id_to_node[k].v
      /\ recorded.fully_processed = id_to_node[k].fully_processed
  <2>1. old = id_to_node[k]
    BY <1>1, <1>2
  <2> HIDE DEF old, f
  <2> QED BY <1>1, <2>1 DEF FileState
<1> HIDE DEF k, from, map1, recorded, uid, fresh
<1>6. CASE id_to_node' = map1
  BY <1>2, <1>3, <1>6 DEF uid, fresh
<1>7. CASE from \in m_replaced /\ id_to_node' = [map1 EXCEPT ![k] = recorded]
  <2>1. /\ DOMAIN id_to_node' = DOMAIN map1
        /\ \A u \in DOMAIN map1 :
             id_to_node'[u] = IF u = k THEN recorded ELSE map1[u]
    BY <1>7
  <2>2. \A u \in DOMAIN id_to_node' \ DOMAIN id_to_node :
          u = uid /\ id_to_node'[u] = fresh /\ ~known
    BY <1>1, <1>2, <2>1 DEF uid, k
  <2>3. \A u \in DOMAIN id_to_node :
          /\ u \in DOMAIN id_to_node'
          /\ id_to_node'[u].v = id_to_node[u].v
          /\ id_to_node'[u].fully_processed = id_to_node[u].fully_processed
          /\ u # k => id_to_node'[u] = id_to_node[u]
    BY <1>1, <1>2, <1>5, <2>1
  <2>4. uid \in DOMAIN id_to_node'
    BY <1>2, <2>1
  <2> QED BY <1>1, <1>3, <1>7, <2>2, <2>3, <2>4 DEF uid
<1> QED BY <1>4, <1>6, <1>7

(* The directives in the graph stay, and only a directive adds one.        *)
LEMMA SameRecorded ==
  ASSUME EdgesCounted, edges' = edges,
         \A v \in DOMAIN nodes : nodes'[v].path = nodes[v].path
  PROVE  Recorded' = Recorded
<1>1. \A e \in edges :
        <<nodes'[e.from].path, nodes'[e.to].path>> =
          <<nodes[e.from].path, nodes[e.to].path>>
  BY DEF EdgesCounted, CountsEdges
<1> QED BY <1>1 DEF Recorded

LEMMA InclusionRecords ==
  ASSUME IInv, IInv', EdgesCounted, InclusionDirective
  PROVE  Recorded' = Recorded \cup {<<Head(frames).file, Head(Remaining).file>>}
<1> DEFINE f == Head(Remaining).file
           uid == UniqueIDOf(f)
           known == uid \in DOMAIN id_to_node
           from == BackState.v
           to == IF known THEN id_to_node[uid].v ELSE Len(nodes) + 1
           pair == <<Head(frames).file, f>>
<1>1. /\ \A v \in DOMAIN nodes :
           v \in DOMAIN nodes' /\ nodes'[v].path = nodes[v].path
      /\ \A v \in DOMAIN nodes' \ DOMAIN nodes : nodes'[v].path = f
  BY InclusionVertices DEF SameFile, NewFile
<1>2. from \in DOMAIN nodes /\ nodes[from].path = Head(frames).file
  BY InclusionDirectiveGuard, Back
<1>3. to \in DOMAIN nodes' /\ nodes'[to].path = f
  <2>1. CASE known
    <3>1. f \in File
      BY InclusionDirectiveGuard, NextItem, ItemFields DEF IncludingFile, Lexing
    <3>2. uid[1] = f
      BY <3>1, UniqueIDTyped
    <3>3. to \in DOMAIN nodes /\ nodes[to].path = f
      BY <2>1, <3>2 DEF IInv, VerticesIdentified
    <3> QED BY <1>1, <3>3
  <2>2. CASE ~known
    <3>1. to = Len(nodes) + 1 /\ to \notin DOMAIN nodes
      BY <2>2 DEF IInv, TypeOK
    <3>2. to = id_to_node'[uid].v /\ uid \in DOMAIN id_to_node'
      BY <2>2, <3>1, InclusionEntries
    <3>3. to \in DOMAIN nodes'
      BY <3>2 DEF IInv, VerticesIdentified
    <3> QED BY <1>1, <3>1, <3>3
  <2> QED BY <2>1, <2>2
<1>4. CASE HasEdge(from, to)
  <2>1. edges' = edges
    BY <1>4, Zenon DEF InclusionDirective
  <2>2. Recorded' = Recorded
    BY <1>1, <2>1, SameRecorded
  <2>3. PICK e \in edges : e.from = from /\ e.to = to
    BY <1>4 DEF HasEdge
  <2>4. to \in DOMAIN nodes
    BY <2>3 DEF EdgesCounted, CountsEdges
  <2>5. pair \in Recorded
    <3>1. nodes[e.from].path = Head(frames).file /\ nodes[e.to].path = f
      BY <1>1, <1>2, <1>3, <2>3, <2>4
    <3> QED BY <3>1 DEF Recorded
  <2> QED BY <2>2, <2>5
<1>5. CASE ~HasEdge(from, to)
  <2> DEFINE r == ~InPredefines /\ ~IsComponent(
                    IF known THEN nodes
                    ELSE Append(nodes, FileNode(f, f \in program.external,
                                                IsPrecompiled(f))), from, to)
             edge == [from |-> from, to |-> to, is_removable |-> r]
  <2>1. edges' = edges \cup {edge}
    BY <1>5, Zenon DEF InclusionDirective
  <2>2. edge.from = from /\ edge.to = to
    OBVIOUS
  <2> HIDE DEF edge, from, to, f
  <2>3. \A e \in edges :
          <<nodes'[e.from].path, nodes'[e.to].path>> =
            <<nodes[e.from].path, nodes[e.to].path>>
    BY <1>1 DEF EdgesCounted, CountsEdges
  <2>4. <<nodes'[edge.from].path, nodes'[edge.to].path>> = pair
    BY <1>1, <1>2, <1>3, <2>2
  <2>5. Recorded' = {<<nodes'[e.from].path, nodes'[e.to].path>> : e \in edges'}
    BY DEF Recorded
  <2>6. Recorded' = {<<nodes'[e.from].path, nodes'[e.to].path>> : e \in edges}
                      \cup {<<nodes'[edge.from].path, nodes'[edge.to].path>>}
    BY <2>1, <2>5
  <2>7. {<<nodes'[e.from].path, nodes'[e.to].path>> : e \in edges} = Recorded
    BY <2>3 DEF Recorded
  <2> QED BY <2>4, <2>6, <2>7 DEF f
<1> QED BY <1>4, <1>5

LEMMA StepRecords ==
  ASSUME IInv, EdgesCounted, [Next]_vars, ~InclusionDirective
  PROVE  /\ Recorded' = Recorded
         /\ \A v \in DOMAIN nodes :
              v \in DOMAIN nodes' /\ nodes'[v].path = nodes[v].path
<1>1. edges' = edges /\ VerticesGrow(nodes, nodes')
  <2>1. CASE EndSourceFileAction
    BY <2>1 DEF EndSourceFileAction, resultVars, VerticesGrow
  <2>2. CASE ~EndSourceFileAction
    <3>1. VerticesGrow(nodes, nodes')
      BY <2>2, StepGrows DEF GraphGrows
    <3>2. CASE EnterSource \/ ExitGuardedFirst \/ EndOfMainFile
      BY <3>1, <3>2, LeavingKeepsCounters DEF EnterSource
    <3>3. CASE ~(EnterSource \/ ExitGuardedFirst \/ EndOfMainFile)
      BY <3>1, <3>3, GraphUntouched
    <3> QED BY <3>2, <3>3
  <2> QED BY <2>1, <2>2
<1> QED BY <1>1, SameRecorded DEF VerticesGrow

-----------------------------------------------------------------------------
(* What a step does to clang's include stack. *)

LEMMA FrameTyped ==
  ASSUME TypeOK, NEW i \in DOMAIN frames
  PROVE  frames[i].file \in File /\ frames[i].rest \in Seq(Item)
<1>1. frames[i] \in Frame
  BY DEF TypeOK
<1> QED BY <1>1 DEF Frame

(* Over an item.                                                           *)
LEMMA ItemRead ==
  ASSUME IInv, Preprocessing, Remaining # <<>>, Advance
  PROVE  /\ Len(frames') = Len(frames) /\ DOMAIN frames' = DOMAIN frames
         /\ 1 \in DOMAIN frames /\ Head(frames) = frames[1]
         /\ \A i \in DOMAIN frames : i # 1 => frames'[i] = frames[i]
         /\ frames'[1].file = frames[1].file
         /\ frames'[1].candidate = frames[1].candidate
         /\ InPredefines =>
              /\ frames' = frames /\ Len(frames) = 1
              /\ ToSet(predefines) = {Head(Remaining)} \cup ToSet(predefines')
         /\ ~InPredefines =>
              /\ predefines' = predefines
              /\ frames[1].rest \in Seq(Item) /\ frames[1].rest # <<>>
              /\ frames'[1].rest = Tail(frames[1].rest)
              /\ Head(Remaining) = frames[1].rest[1]
              /\ 1 \in DOMAIN frames[1].rest
              /\ ToSet(frames[1].rest) = {Head(Remaining)} \cup ToSet(frames'[1].rest)
<1>1. /\ frames # <<>> /\ frames \in Seq(Frame) /\ frames[1] \in Frame
      /\ 1 \in DOMAIN frames /\ Head(frames) = frames[1]
      /\ predefines \in Seq({Include(f) : f \in File})
  BY Back DEF Preprocessing, IInv, TypeOK
<1>2. CASE InPredefines
  <2>1. frames' = frames /\ Len(frames) = 1
    BY <1>2 DEF Advance, InPredefines
  <2>2. predefines' = Tail(predefines) /\ predefines # <<>> /\ Remaining = predefines
    BY <1>2 DEF Advance, InPredefines, Remaining
  <2>3. ToSet(predefines) = {Head(predefines)} \cup ToSet(Tail(predefines))
    BY <1>1, <2>2, TailItems
  <2> QED BY <1>1, <1>2, <2>1, <2>2, <2>3
<1>3. CASE ~InPredefines
  <2>1. predefines' = predefines
    BY <1>3 DEF Advance
  <2>2. /\ frames[1].rest \in Seq(Item) /\ frames[1].rest # <<>>
        /\ Remaining = frames[1].rest
    BY <1>1, <1>3 DEF Remaining, Frame
  <2> DEFINE new == [frames[1] EXCEPT !.rest = Tail(@)]
  <2>3. /\ new.rest = Tail(frames[1].rest) /\ new.file = frames[1].file
        /\ new.candidate = frames[1].candidate
    BY <1>1 DEF Frame
  <2>4. frames' = [frames EXCEPT ![1] = new]
    BY <1>1, <1>3 DEF Advance
  <2> HIDE DEF new
  <2>5. /\ DOMAIN frames' = DOMAIN frames /\ Len(frames') = Len(frames)
        /\ frames'[1] = new
        /\ \A i \in DOMAIN frames : i # 1 => frames'[i] = frames[i]
    BY <1>1, <2>4
  <2>6. /\ ToSet(frames[1].rest)
             = {Head(frames[1].rest)} \cup ToSet(Tail(frames[1].rest))
        /\ Head(frames[1].rest) = frames[1].rest[1] /\ 1 \in DOMAIN frames[1].rest
    BY <2>2, TailItems
  <2> QED BY <1>1, <1>3, <2>1, <2>2, <2>3, <2>5, <2>6
<1> QED BY <1>2, <1>3

(* Over the conditional of a guard, which excludes the rest or nothing.    *)
LEMMA ConditionalRead ==
  ASSUME IInv, IfOrIfndef
  PROVE  /\ Preprocessing /\ Len(frames') = Len(frames)
         /\ DOMAIN frames' = DOMAIN frames
         /\ 1 \in DOMAIN frames /\ ~InPredefines
         /\ \A i \in DOMAIN frames : i # 1 => frames'[i] = frames[i]
         /\ frames'[1].file = frames[1].file
         /\ frames[1].rest \in Seq(Item) /\ frames[1].rest # <<>>
         /\ 1 \in DOMAIN frames[1].rest /\ frames[1].rest[1].op \in Conditional
         /\ \/ /\ frames[1].file \in macros /\ frames'[1].rest = <<>>
               /\ frames'[1].candidate = frames[1].candidate
            \/ /\ frames[1].file \notin macros
               /\ frames'[1].rest = Tail(frames[1].rest)
               /\ ToSet(frames[1].rest) =
                    {frames[1].rest[1]} \cup ToSet(frames'[1].rest)
<1> DEFINE current == frames[1]
           cut == [current EXCEPT !.rest = <<>>]
           first == current.rest = Contents(current.file)
           next == [current EXCEPT !.rest = Tail(@), !.candidate = first]
<1>1. /\ frames # <<>> /\ frames \in Seq(Frame) /\ frames[1] \in Frame
      /\ 1 \in DOMAIN frames /\ Head(frames) = frames[1]
  BY Back DEF IfOrIfndef, Lexing, Preprocessing
<1>2. /\ Preprocessing /\ Remaining # <<>>
      /\ Head(Remaining).op \in Conditional
  BY DEF IfOrIfndef, Lexing, Conditional
<1>3. ~InPredefines
  <2>1. SUFFICES ASSUME InPredefines PROVE FALSE
    OBVIOUS
  <2>2. Head(predefines).op = "include"
    BY <2>1, OnlyIncludesPredefined DEF IInv
  <2> QED BY <1>2, <2>1, <2>2 DEF Remaining, Conditional
<1>4. /\ Remaining = frames[1].rest /\ frames[1].rest \in Seq(Item)
      /\ frames[1].rest # <<>>
  BY <1>1, <1>2, <1>3 DEF Remaining, Frame
<1>5. /\ ToSet(frames[1].rest) = {frames[1].rest[1]} \cup ToSet(Tail(frames[1].rest))
      /\ Head(frames[1].rest) = frames[1].rest[1] /\ 1 \in DOMAIN frames[1].rest
  BY <1>4, TailItems
<1>6. /\ cut.rest = <<>> /\ cut.file = frames[1].file
      /\ cut.candidate = frames[1].candidate
      /\ next.rest = Tail(frames[1].rest) /\ next.file = frames[1].file
  <2> HIDE DEF first
  <2> QED BY <1>1 DEF Frame
<1>7. \/ frames[1].file \in macros /\ frames' = [frames EXCEPT ![1] = cut]
      \/ frames[1].file \notin macros /\ frames' = [frames EXCEPT ![1] = next]
  BY <1>1 DEF IfOrIfndef
<1> HIDE DEF cut, next
<1>8. \A x : /\ DOMAIN [frames EXCEPT ![1] = x] = DOMAIN frames
             /\ Len([frames EXCEPT ![1] = x]) = Len(frames)
             /\ [frames EXCEPT ![1] = x][1] = x
             /\ \A i \in DOMAIN frames : i # 1 =>
                  [frames EXCEPT ![1] = x][i] = frames[i]
  BY <1>1
<1> QED BY <1>1, <1>2, <1>3, <1>4, <1>5, <1>6, <1>7, <1>8

(* Into a file.                                                            *)
LEMMA FileEntered ==
  ASSUME IInv, EnterFile
  PROVE  /\ pending \in File /\ pending' = NoFile /\ pending # NoFile
         /\ Len(frames') = Len(frames) + 1 /\ Len(frames) \in Nat
         /\ DOMAIN frames' = 1..Len(frames') /\ DOMAIN frames = 1..Len(frames)
         /\ frames'[1].file = pending /\ frames'[1].rest = Contents(pending)
         /\ ~frames'[1].candidate
         /\ \A i \in DOMAIN frames :
              i + 1 \in DOMAIN frames' /\ frames'[i + 1] = frames[i]
         /\ \A i \in DOMAIN frames' :
              i # 1 => i - 1 \in DOMAIN frames /\ frames'[i] = frames[i - 1]
<1> DEFINE frame == [file |-> pending, rest |-> Contents(pending),
                     candidate |-> FALSE]
<1>1. pending \in File /\ pending # NoFile
  BY DEF IInv, TypeOK, EnterFile, Inclusion
<1>2. frame \in Frame
  BY <1>1, ContentsTyped DEF Frame, IInv
<1>3. frames \in Seq(Frame)
  BY DEF IInv, TypeOK
<1>4. frames' = <<frame>> \o frames /\ pending' = NoFile
  BY DEF EnterFile
<1>5. frame.file = pending /\ frame.rest = Contents(pending) /\ ~frame.candidate
  OBVIOUS
<1> HIDE DEF frame
<1>6. /\ Len(frames') = Len(frames) + 1 /\ frames'[1] = frame
      /\ frames' \in Seq(Frame)
      /\ \A i \in DOMAIN frames' :
           i # 1 => i - 1 \in DOMAIN frames /\ frames'[i] = frames[i - 1]
  BY <1>2, <1>3, <1>4, SeqPush
<1>7. /\ DOMAIN frames' = 1..Len(frames') /\ DOMAIN frames = 1..Len(frames)
      /\ Len(frames) \in Nat
  BY <1>3, <1>6
<1>8. \A i \in DOMAIN frames : i + 1 \in DOMAIN frames' /\ frames'[i + 1] = frames[i]
  <2> SUFFICES ASSUME NEW i \in DOMAIN frames
               PROVE  i + 1 \in DOMAIN frames' /\ frames'[i + 1] = frames[i]
    OBVIOUS
  <2>1. i + 1 \in DOMAIN frames' /\ i + 1 # 1 /\ (i + 1) - 1 = i
    BY <1>6, <1>7
  <2> QED BY <1>6, <2>1
<1> QED BY <1>1, <1>4, <1>5, <1>6, <1>7, <1>8

(* Out of a file.                                                          *)
Leaves == ExitUnguarded \/ ExitGuardedFirst \/ ExitGuardedAgain

LEMMA FileLeft ==
  ASSUME IInv, Leaves
  PROVE  /\ Preprocessing /\ frames[1].rest = <<>> /\ Len(frames) > 1
         /\ 1 \in DOMAIN frames /\ Head(frames) = frames[1]
         /\ Len(frames') = Len(frames) - 1 /\ Len(frames) \in Nat
         /\ DOMAIN frames' = 1..Len(frames') /\ DOMAIN frames = 1..Len(frames)
         /\ \A i \in DOMAIN frames' :
              i + 1 \in DOMAIN frames /\ frames'[i] = frames[i + 1]
         /\ \A i \in DOMAIN frames :
              i # 1 => i - 1 \in DOMAIN frames' /\ frames[i] = frames'[i - 1]
         /\ controlling' \subseteq controlling \cup {frames[1].file}
         /\ frames[1].candidate \/ controlling' = controlling
         /\ UNCHANGED <<program, phase, abort, started, predefines, pending,
                        macros, once, overwrites, m_replaced, edges>>
<1>1. LeavingFile /\ LeaveFile
  BY DEF Leaves, ExitUnguarded, ExitGuardedFirst, ExitGuardedAgain
<1>2. /\ frames \in Seq(Frame) /\ Len(frames) > 1 /\ frames[1].rest = <<>>
      /\ Head(frames) = frames[1] /\ Preprocessing
  BY <1>1, Back DEF LeavingFile, Preprocessing
<1>3. frames' = Tail(frames)
  BY <1>1 DEF LeaveFile
<1>4. /\ Len(frames') = Len(frames) - 1 /\ Len(frames) \in Nat
      /\ DOMAIN frames' = 1..Len(frames') /\ DOMAIN frames = 1..Len(frames)
      /\ \A i \in 1..(Len(frames) - 1) : frames'[i] = frames[i + 1]
  <2>1. frames # <<>>
    BY <1>2
  <2> QED BY <1>2, <1>3, <2>1, SeqHead
<1>5. \A i \in DOMAIN frames' : i + 1 \in DOMAIN frames /\ frames'[i] = frames[i + 1]
  BY <1>4
<1>6. ASSUME NEW i \in DOMAIN frames, i # 1
      PROVE  i - 1 \in DOMAIN frames' /\ frames[i] = frames'[i - 1]
  <2>1. i - 1 \in DOMAIN frames' /\ (i - 1) + 1 = i
    BY <1>4, <1>6
  <2> QED BY <1>5, <2>1
<1>7. /\ controlling' \subseteq controlling \cup {frames[1].file}
      /\ frames[1].candidate \/ controlling' = controlling
  BY <1>1, <1>2 DEF LeaveFile, Controlling
<1>8. 1 \in DOMAIN frames
  BY <1>2, <1>4
<1> QED BY <1>1, <1>2, <1>4, <1>5, <1>6, <1>7, <1>8 DEF LeaveFile

-----------------------------------------------------------------------------
(* What is read of a plain program. *)

LEMMA MainIsSource ==
  ASSUME IInv, SourcesAreMain, phase \in {"preprocess", "end"}
  PROVE  /\ started \in DOMAIN program.sources /\ started \in 1..started
         /\ Len(frames) \in DOMAIN frames
         /\ frames[Len(frames)].file = program.sources[started]
         /\ frames[Len(frames)].file \in ToSet(program.sources)
<1>1. program.sources \in Seq(File) /\ started \in Nat
  BY ProgramFields DEF IInv, TypeOK
<1>2. started \in DOMAIN program.sources /\ started \in 1..started
  BY <1>1 DEF SourcesAreMain
<1>3. Len(frames) \in DOMAIN frames
  BY Back
<1> QED BY <1>2, <1>3 DEF SourcesAreMain, ToSet

LEMMA SourceNotProcessed ==
  ASSUME IInv, SourcesAreMain, phase = "preprocess",
         Head(frames).file \in ToSet(program.sources)
  PROVE  ~BackState.fully_processed
<1>1. /\ Head(m_stack).id = UniqueIDOf(Head(frames).file)
      /\ Head(m_stack).id \in DOMAIN id_to_node
  BY Back
<1>2. Head(m_stack).id[1] = Head(frames).file
  BY <1>1, Back, UniqueIDTyped DEF Frame
<1> QED BY <1>1, <1>2 DEF SourcesAreMain, BackState

LEMMA NextPlainItem ==
  ASSUME IInv, Plain(program), ReplacementsKeepMacros, ReadsContents,
         SourcesAreMain, ForcedIncluded, Preprocessing, Remaining # <<>>
  PROVE  LET item == Head(Remaining)
             f == frames[1].file
         IN
         /\ f \in File
         /\ item.op = "include" =>
              /\ item = Include(item.file) /\ item.file \in File
              /\ item.file \notin ToSet(program.sources)
              /\ item.file \notin program.absent => <<f, item.file>> \in Directives
              /\ ~InPredefines /\ item.file \notin program.absent =>
                   item.file \in Included(f)
         /\ InPredefines => item.op = "include" /\ f \in ToSet(program.sources)
         /\ item.op = "define" /\ item.macro \in File => item.macro = f
<1> DEFINE item == Head(Remaining)
           f == frames[1].file
<1>1. /\ 1 \in DOMAIN frames /\ frames[1] \in Frame /\ Head(frames) = frames[1]
      /\ f \in File /\ frames[1].rest \in Seq(Item)
  BY Back DEF Preprocessing, Frame
<1>2. program \in Program /\ TypeOK
  BY DEF IInv, TypeOK
<1>3. \A d : Include(d).op = "include" /\ Include(d).file = d
  BY DEF Include
<1>4. CASE InPredefines
  <2>1. Remaining = predefines /\ predefines # <<>> /\ Len(frames) = 1
    BY <1>4 DEF Remaining, InPredefines
  <2>2. f \in ToSet(program.sources)
    BY <2>1, MainIsSource DEF Preprocessing
  <2>3. item \in ToSet(predefines)
    BY <2>1, TailItems DEF IInv, TypeOK
  <2>4. PICK d \in ToSet(program.forced) : item = Include(d)
    BY <2>3 DEF ForcedIncluded
  <2>5. d \in File
    BY <1>2, <2>4, ProgramFields DEF ToSet
  <2>6. d \notin ToSet(program.sources)
    BY <2>4 DEF Plain
  <2>7. d \notin program.absent => <<f, d>> \in Directives
    BY <1>1, <1>2, <2>2, <2>4, DirectivesKnown
  <2> QED BY <1>1, <1>3, <1>4, <2>2, <2>4, <2>5, <2>6, <2>7
<1>5. CASE ~InPredefines
  <2>1. Remaining = frames[1].rest /\ frames[1].rest # <<>>
    BY <1>1, <1>5 DEF Remaining
  <2>2. item \in ToSet(frames[1].rest)
    BY <1>1, <2>1, TailItems
  <2>3. PICK j \in DOMAIN Contents(f) : item = Contents(f)[j]
    BY <1>1, <2>2 DEF ReadsContents, ToSet
  <2> HIDE DEF item
  <2>4. /\ item.op = "include" =>
             /\ item = Include(item.file) /\ item.file \in File
             /\ item.file \notin ToSet(program.sources)
             /\ item.file \notin program.absent => item.file \in Included(f)
        /\ item.op = "define" /\ item.macro \in File => item.macro = f
    BY <1>1, <1>2, <2>3, PlainContents
  <2>5. \A d \in Included(f) : <<f, d>> \in Directives
    BY <1>1, <1>2, DirectivesKnown
  <2> QED BY <1>1, <1>5, <2>4, <2>5 DEF item
<1> QED BY <1>4, <1>5

(* The steps that go over an item.                                         *)
Reads ==
  \/ LexTokens \/ SkipExcluded \/ PragmaOnce \/ PragmaDirective
  \/ MacroDefined \/ MacroUndefined \/ MissingInclude
  \/ InclusionDirective \/ InclusionFromDone

LEMMA ReadsItem ==
  ASSUME Reads
  PROVE  /\ Preprocessing /\ Remaining # <<>> /\ Advance
         /\ UNCHANGED <<program, phase, abort, started, controlling,
                        overwrites, m_replaced, m_needs_replacing>>
<1>1. CASE InclusionDirective
  BY <1>1, Zenon DEF InclusionDirective, IncludingFile, Lexing
<1>2. CASE LexTokens \/ SkipExcluded \/ PragmaOnce \/ PragmaDirective
  BY <1>2 DEF LexTokens, SkipExcluded, PragmaOnce, PragmaDirective, Lexing
<1>3. CASE MacroDefined \/ MacroUndefined
  BY <1>3 DEF MacroDefined, MacroUndefined, Lexing
<1>4. CASE MissingInclude \/ InclusionFromDone
  BY <1>4 DEF MissingInclude, InclusionFromDone, IncludingFile, Lexing
<1> QED BY <1>1, <1>2, <1>3, <1>4 DEF Reads

(* A directive that has been read is in the graph, whatever its file.      *)
LEMMA ReadIsRecorded ==
  ASSUME IInv, IInv', EdgesCounted, Plain(program), PlainInv, Reads,
         NEW d, Head(Remaining) = Include(d), d \notin program.absent
  PROVE  <<frames[1].file, d>> \in Recorded'
<1>1. /\ Head(Remaining).op = "include" /\ Head(Remaining).file = d
      /\ Head(Remaining).needs = {} /\ Head(Remaining).lacks = {}
  BY DEF Include
<1>2. Preprocessing /\ Remaining # <<>>
  BY ReadsItem
<1>3. Head(frames) = frames[1]
  BY <1>2, Back DEF Preprocessing
<1>4. CASE InclusionDirective
  BY <1>1, <1>3, <1>4, InclusionRecords
<1>5. CASE InclusionFromDone
  <2>1. IncluderDone
    BY <1>5 DEF InclusionFromDone
  <2>2. /\ BackState.v \in DOMAIN nodes
        /\ nodes[BackState.v].path = frames[1].file
    BY <1>2, <1>3, Back DEF Preprocessing
  <2>3. AllRecorded(frames[1].file)
    BY <2>1, <2>2 DEF IncluderDone, PlainInv, FilesCovered
  <2>4. ~InPredefines
    BY <1>2, <1>3, <2>1, NextPlainItem, SourceNotProcessed
    DEF IncluderDone, Preprocessing, PlainInv
  <2>5. d \in Included(frames[1].file)
    BY <1>1, <1>2, <2>4, NextPlainItem DEF PlainInv
  <2>6. Recorded' = Recorded
    <3>1. ~InclusionDirective
      <4>1. InclusionDirective => ~IncluderDone
        BY Zenon DEF InclusionDirective
      <4> QED BY <2>1, <4>1
    <3> QED BY <1>5, <3>1, StepRecords DEF Next, Scan
  <2> QED BY <2>3, <2>5, <2>6 DEF AllRecorded
<1>6. CASE MissingInclude
  BY <1>1, <1>6 DEF MissingInclude
<1>7. CASE SkipExcluded
  BY <1>1, <1>7 DEF SkipExcluded, Active
<1>8. CASE LexTokens \/ PragmaOnce \/ PragmaDirective
  BY <1>1, <1>8 DEF LexTokens, PragmaOnce, PragmaDirective, Lexing
<1>9. CASE MacroDefined \/ MacroUndefined
  BY <1>1, <1>9 DEF MacroDefined, MacroUndefined, Lexing
<1> QED BY <1>4, <1>5, <1>6, <1>7, <1>8, <1>9 DEF Reads

-----------------------------------------------------------------------------
(* Nothing that is ahead is lost: after a step it is in the graph or still *)
(* ahead, and behind no conditional unless it was before.                  *)

Carries(i) ==
  \A d \in Included(frames[i].file) :
    Include(d) \in ToSet(frames[i].rest) =>
      \/ <<frames[i].file, d>> \in Recorded'
      \/ \E k \in DOMAIN frames' :
           /\ frames'[k].file = frames[i].file
           /\ Include(d) \in ToSet(frames'[k].rest)
           /\ Unconditional(frames[i].rest) => Unconditional(frames'[k].rest)

LEMMA SameFrameCarries ==
  ASSUME NEW i \in DOMAIN frames,
         \E k \in DOMAIN frames' : frames'[k] = frames[i]
  PROVE  Carries(i)
BY DEF Carries

LEMMA TailUnconditional ==
  ASSUME NEW s \in Seq(Item), s # <<>>, Unconditional(s)
  PROVE  Unconditional(Tail(s))
BY TailItems DEF Unconditional

LEMMA ReadCarries ==
  ASSUME IInv, IInv', EdgesCounted, Plain(program), PlainInv, Reads
  PROVE  \A i \in DOMAIN frames : Carries(i)
<1>1. Preprocessing /\ Remaining # <<>> /\ Advance
  BY ReadsItem
<1>2. ASSUME NEW i \in DOMAIN frames, i # 1 PROVE Carries(i)
  BY <1>1, <1>2, ItemRead, SameFrameCarries
<1>3. CASE InPredefines
  BY <1>1, <1>3, ItemRead, SameFrameCarries
<1>4. CASE ~InPredefines
  <2>1. /\ 1 \in DOMAIN frames' /\ frames'[1].file = frames[1].file
        /\ frames[1].rest \in Seq(Item) /\ frames[1].rest # <<>>
        /\ frames'[1].rest = Tail(frames[1].rest)
        /\ ToSet(frames[1].rest) = {Head(Remaining)} \cup ToSet(frames'[1].rest)
    BY <1>1, <1>4, ItemRead
  <2>2. Unconditional(frames[1].rest) => Unconditional(frames'[1].rest)
    BY <2>1, TailUnconditional
  <2>3. ASSUME NEW d \in Included(frames[1].file), Include(d) = Head(Remaining)
        PROVE  <<frames[1].file, d>> \in Recorded'
    BY <2>3, ReadIsRecorded DEF Included
  <2>4. Carries(1)
    BY <2>1, <2>2, <2>3 DEF Carries
  <2> QED BY <1>2, <2>4
<1> QED BY <1>3, <1>4

LEMMA ConditionalCarries ==
  ASSUME IInv, EdgesCounted, PlainInv, IfOrIfndef
  PROVE  \A i \in DOMAIN frames : Carries(i)
<1>1. ASSUME NEW i \in DOMAIN frames, i # 1 PROVE Carries(i)
  BY <1>1, ConditionalRead, SameFrameCarries
<1>2. /\ 1 \in DOMAIN frames /\ frames'[1].file = frames[1].file
      /\ DOMAIN frames' = DOMAIN frames
      /\ frames[1].rest \in Seq(Item) /\ frames[1].rest # <<>>
      /\ 1 \in DOMAIN frames[1].rest /\ frames[1].rest[1].op \in Conditional
  BY ConditionalRead
<1>3. ~Unconditional(frames[1].rest)
  BY <1>2 DEF Unconditional
<1>4. Recorded' = Recorded
  <2>1. ~InclusionDirective
    BY ConditionalRead, InclusionDirectiveGuard DEF IfOrIfndef, IncludingFile, Lexing
  <2> QED BY <2>1, StepRecords DEF Next, Scan
<1>5. Carries(1)
  <2>1. CASE frames[1].file \in macros /\ frames'[1].rest = <<>>
    <3>1. frames[1].file \in File
      BY <1>2, FrameTyped DEF IInv
    <3>2. CoveredPast(frames[1].file)
      BY <2>1, <3>1 DEF PlainInv, FilesCovered
    <3>3. ASSUME NEW d \in Included(frames[1].file),
                 <<frames[1].file, d>> \notin Recorded
          PROVE  \E k \in DOMAIN frames' :
                   /\ frames'[k].file = frames[1].file
                   /\ Include(d) \in ToSet(frames'[k].rest)
      <4>1. PICK k \in DOMAIN frames : /\ Ahead(frames[1].file, d, k)
                                       /\ Unconditional(frames[k].rest)
        BY <3>2, <3>3 DEF CoveredPast
      <4>2. k # 1
        BY <1>3, <4>1
      <4>3. frames'[k] = frames[k]
        BY <4>2, ConditionalRead
      <4> QED BY <1>2, <4>1, <4>3 DEF Ahead
    <3> QED BY <1>3, <1>4, <3>3 DEF Carries
  <2>2. CASE ToSet(frames[1].rest) = {frames[1].rest[1]} \cup ToSet(frames'[1].rest)
    <3>1. \A d : Include(d) # frames[1].rest[1]
      BY <1>2 DEF Include, Conditional
    <3> QED BY <1>2, <1>3, <2>2, <3>1 DEF Carries
  <2> QED BY <2>1, <2>2, ConditionalRead
<1> QED BY <1>1, <1>5

LEMMA StepCarries ==
  ASSUME IInv, IInv', EdgesCounted, Plain(program), PlainInv, [Next]_vars
  PROVE  \A i \in DOMAIN frames : Carries(i)
<1>1. CASE Reads
  BY <1>1, ReadCarries
<1>2. CASE IfOrIfndef
  BY <1>2, ConditionalCarries
<1>3. CASE EnterFile
  BY <1>3, FileEntered, SameFrameCarries
<1>4. CASE Leaves
  <2>1. ASSUME NEW i \in DOMAIN frames, i # 1 PROVE Carries(i)
    BY <1>4, <2>1, FileLeft, SameFrameCarries
  <2>2. Carries(1)
    <3>1. frames[1].rest = <<>>
      BY <1>4, FileLeft
    <3> QED BY <3>1 DEF Carries, ToSet
  <2> QED BY <2>1, <2>2
<1>5. CASE EnterSource
  <2>1. frames = <<>>
    BY <1>5 DEF EnterSource, MoreSources, IInv, ScanState
  <2> QED BY <2>1
<1>6. CASE EndSourceFileAction
  <2>1. frames[1].rest = <<>> /\ DOMAIN frames = {1}
    <3>1. Len(frames) = 1 /\ frames \in Seq(Frame)
      BY <1>6 DEF EndSourceFileAction, IInv, StackInSync, TypeOK
    <3> QED BY <1>6, <3>1 DEF EndSourceFileAction, PlainInv, ForcedIncluded
  <2> QED BY <2>1 DEF Carries, ToSet
<1>7. CASE frames' = frames
  BY <1>7, SameFrameCarries
<1>8. CASE \/ SourceSeenBefore \/ NewIncludeFromDone \/ CostAssignedTwice
           \/ FileSkipped \/ EndOfMainFile \/ Finish \/ Stutter \/ UNCHANGED vars
  <2>1. frames' = frames
    BY <1>8 DEF SourceSeenBefore, NewIncludeFromDone, CostAssignedTwice, Fail,
                FileSkipped, EndOfMainFile, Finish, Stutter, vars, ppVars
  <2> QED BY <1>7, <2>1
<1> QED BY <1>1, <1>2, <1>3, <1>4, <1>5, <1>6, <1>8 DEF Next, Scan, Reads, Leaves

(* So a file that is covered stays covered.                                *)
LEMMA CoveredStays ==
  ASSUME UNCHANGED program, Recorded \subseteq Recorded',
         \A i \in DOMAIN frames : Carries(i), NEW f
  PROVE  /\ Covered(f) => Covered(f)'
         /\ CoveredPast(f) => CoveredPast(f)'
         /\ AllRecorded(f) => AllRecorded(f)'
<1>1. Included(f)' = Included(f)
  BY DEF Included
<1>2. ASSUME Covered(f), NEW d \in Included(f)
      PROVE  <<f, d>> \in Recorded' \/ \E k \in DOMAIN frames' : Ahead(f, d, k)'
  <2>1. CASE <<f, d>> \in Recorded
    BY <2>1
  <2>2. ASSUME NEW i \in DOMAIN frames, Ahead(f, d, i)
        PROVE  <<f, d>> \in Recorded' \/ \E k \in DOMAIN frames' : Ahead(f, d, k)'
    BY <2>2 DEF Ahead, Carries
  <2> QED BY <1>2, <2>1, <2>2 DEF Covered
<1>3. ASSUME CoveredPast(f), NEW d \in Included(f)
      PROVE  \/ <<f, d>> \in Recorded'
             \/ \E k \in DOMAIN frames' :
                  Ahead(f, d, k)' /\ Unconditional(frames'[k].rest)
  <2>1. CASE <<f, d>> \in Recorded
    BY <2>1
  <2>2. ASSUME NEW i \in DOMAIN frames, Ahead(f, d, i), Unconditional(frames[i].rest)
        PROVE  \/ <<f, d>> \in Recorded'
               \/ \E k \in DOMAIN frames' :
                    Ahead(f, d, k)' /\ Unconditional(frames'[k].rest)
    BY <2>2 DEF Ahead, Carries
  <2> QED BY <1>3, <2>1, <2>2 DEF CoveredPast
<1> QED BY <1>1, <1>2, <1>3 DEF Covered, CoveredPast, AllRecorded, Unconditional

-----------------------------------------------------------------------------
(* The frames: what is left of a file is part of it, its guard comes       *)
(* first, and nothing of it is lost.                                       *)

FramesPlain == ReadsContents /\ GuardFirst /\ FramesComplete

LEMMA ReplacedRecorded ==
  ASSUME IInv, ReplacementsKnown, PlainInv, NEW f \in DOMAIN overwrites
  PROVE  AllRecorded(f) /\ f \notin ToSet(program.sources)
<1> DEFINE u == UniqueIDOf(f)
<1>1. f \in File
  BY DEF IInv, TypeOK
<1>2. u \in DOMAIN id_to_node /\ Known(id_to_node, nodes, u) /\ u[1] = f
  BY <1>1, ReplacedEntry, UniqueIDTyped DEF ReplacementsKnown
<1> HIDE DEF u
<1>3. id_to_node[u].v \in DOMAIN nodes /\ nodes[id_to_node[u].v].path = f
  BY <1>2 DEF IInv, VerticesIdentified
<1>4. AllRecorded(f)
  BY <1>2, <1>3 DEF Known, PlainInv, FilesCovered
<1>5. f \notin ToSet(program.sources)
  BY <1>2 DEF Known, PlainInv, SourcesAreMain
<1> QED BY <1>4, <1>5

(* A file that is opened has all its directives before it.                 *)
LEMMA OpenedComplete ==
  ASSUME IInv, ReplacementsKnown, PlainInv, NEW f \in File, NEW d \in Included(f)
  PROVE  <<f, d>> \in Recorded \/ Include(d) \in ToSet(Contents(f))
BY ReplacedRecorded, IncludesInScript DEF AllRecorded

LEMMA ContentsStay ==
  ASSUME UNCHANGED <<program, overwrites>>, NEW f
  PROVE  Contents(f)' = Contents(f) /\ Included(f)' = Included(f)
BY DEF Contents, Included

(* Only the frame of the main file, or the top one, has a conditional left.*)
LEMMA NoConditionalBelow ==
  ASSUME GuardFirst, NEW i \in DOMAIN frames, i # Len(frames),
         i # 1 \/ pending # NoFile
  PROVE  Unconditional(frames[i].rest)
BY DEF GuardFirst, Unconditional

LEMMA ReadFrames ==
  ASSUME IInv, IInv', EdgesCounted, Plain(program), PlainInv, Reads,
         Recorded \subseteq Recorded'
  PROVE  FramesPlain'
<1>1. /\ Preprocessing /\ Remaining # <<>> /\ Advance
      /\ UNCHANGED <<program, overwrites>>
  BY ReadsItem
<1>2. pending = NoFile
  BY <1>1 DEF Preprocessing
<1>3. /\ DOMAIN frames' = DOMAIN frames /\ Len(frames') = Len(frames)
      /\ 1 \in DOMAIN frames /\ frames'[1].file = frames[1].file
      /\ \A i \in DOMAIN frames : i # 1 => frames'[i] = frames[i]
  BY <1>1, ItemRead
<1>4. /\ InPredefines => frames' = frames /\ Len(frames) = 1
      /\ ~InPredefines =>
           /\ frames[1].rest \in Seq(Item) /\ frames[1].rest # <<>>
           /\ frames'[1].rest = Tail(frames[1].rest)
           /\ ToSet(frames[1].rest) = {Head(Remaining)} \cup ToSet(frames'[1].rest)
  BY <1>1, ItemRead
<1>5. \A f : Contents(f)' = Contents(f) /\ Included(f)' = Included(f)
  BY <1>1, ContentsStay
<1>6. ReadsContents'
  <2>1. ASSUME NEW i \in DOMAIN frames
        PROVE  /\ ToSet(frames'[i].rest) \subseteq ToSet(frames[i].rest)
               /\ frames'[i].file = frames[i].file
    BY <1>3, <1>4
  <2> QED BY <1>3, <1>5, <2>1 DEF PlainInv, ReadsContents
<1>7. GuardFirst'
  <2> SUFFICES ASSUME NEW i \in DOMAIN frames', NEW j \in DOMAIN frames'[i].rest,
                      frames'[i].rest[j].op \in Conditional
               PROVE  j = 1 /\ ~frames'[i].candidate /\ i = Len(frames')
    BY DEF GuardFirst
  <2>1. CASE InPredefines \/ i # 1
    <3>1. frames'[i] = frames[i] /\ i \in DOMAIN frames
      BY <1>3, <1>4, <2>1
    <3>2. i = Len(frames)
      <4>1. CASE InPredefines
        BY <1>4, <3>1, <4>1 DEF IInv, TypeOK
      <4>2. CASE i # 1
        BY <3>1, <4>2, NoConditionalBelow DEF PlainInv, Unconditional
      <4> QED BY <2>1, <4>1, <4>2
    <3> QED BY <1>3, <3>1, <3>2 DEF PlainInv, GuardFirst
  <2>2. CASE ~InPredefines /\ i = 1
    <3>1. /\ j + 1 \in DOMAIN frames[1].rest /\ j + 1 # 1
          /\ frames'[1].rest[j] = frames[1].rest[j + 1]
      BY <1>4, <2>2, TailItems
    <3> QED BY <1>3, <2>2, <3>1 DEF PlainInv, GuardFirst
  <2> QED BY <2>1, <2>2
<1>8. FramesComplete'
  <2> SUFFICES ASSUME NEW i \in DOMAIN frames, NEW d \in Included(frames[i].file)
               PROVE  \/ <<frames[i].file, d>> \in Recorded'
                      \/ Include(d) \in ToSet(frames'[i].rest)
    BY <1>3, <1>5 DEF FramesComplete
  <2>1. \/ <<frames[i].file, d>> \in Recorded
        \/ Include(d) \in ToSet(frames[i].rest)
    BY <1>4 DEF PlainInv, FramesComplete, Dropped
  <2>2. CASE i = 1 /\ Include(d) = Head(Remaining)
    BY <2>2, ReadIsRecorded DEF Included
  <2>3. CASE ~(i = 1 /\ Include(d) = Head(Remaining))
    BY <1>3, <1>4, <2>1, <2>3
  <2> QED BY <2>2, <2>3
<1> QED BY <1>6, <1>7, <1>8 DEF FramesPlain

LEMMA ConditionalFrames ==
  ASSUME IInv, PlainInv, IfOrIfndef, Recorded' = Recorded
  PROVE  FramesPlain'
<1>1. /\ Preprocessing /\ Len(frames') = Len(frames)
      /\ DOMAIN frames' = DOMAIN frames /\ 1 \in DOMAIN frames
      /\ \A i \in DOMAIN frames : i # 1 => frames'[i] = frames[i]
      /\ frames'[1].file = frames[1].file
      /\ frames[1].rest \in Seq(Item) /\ frames[1].rest # <<>>
      /\ 1 \in DOMAIN frames[1].rest /\ frames[1].rest[1].op \in Conditional
  BY ConditionalRead
<1>2. \/ /\ frames[1].file \in macros /\ frames'[1].rest = <<>>
         /\ frames'[1].candidate = frames[1].candidate
      \/ /\ frames[1].file \notin macros
         /\ frames'[1].rest = Tail(frames[1].rest)
         /\ ToSet(frames[1].rest) =
              {frames[1].rest[1]} \cup ToSet(frames'[1].rest)
  BY ConditionalRead
<1>3. /\ pending = NoFile
      /\ UNCHANGED <<program, overwrites, pending, macros, once, controlling>>
  BY <1>1 DEF IfOrIfndef, Preprocessing
<1>4. \A f : Contents(f)' = Contents(f) /\ Included(f)' = Included(f)
  BY <1>3, ContentsStay
<1>5. ReadsContents'
  <2>1. ToSet(<<>>) = {}
    BY DEF ToSet
  <2>2. ToSet(frames'[1].rest) \subseteq ToSet(frames[1].rest)
    BY <1>2, <2>1
  <2>3. \A i \in DOMAIN frames :
          /\ ToSet(frames'[i].rest) \subseteq ToSet(frames[i].rest)
          /\ frames'[i].file = frames[i].file
    BY <1>1, <2>2
  <2> QED BY <1>1, <1>4, <2>3 DEF PlainInv, ReadsContents
<1>6. GuardFirst'
  <2> SUFFICES ASSUME NEW i \in DOMAIN frames', NEW j \in DOMAIN frames'[i].rest,
                      frames'[i].rest[j].op \in Conditional
               PROVE  j = 1 /\ ~frames'[i].candidate /\ i = Len(frames')
    BY DEF GuardFirst
  <2>1. i # 1
    <3>1. SUFFICES ASSUME i = 1 PROVE FALSE
      OBVIOUS
    <3>2. frames'[1].rest # <<>>
      BY <3>1
    <3>3. frames'[1].rest = Tail(frames[1].rest)
      BY <1>2, <3>2
    <3>4. /\ j + 1 \in DOMAIN frames[1].rest /\ j + 1 # 1
          /\ frames'[1].rest[j] = frames[1].rest[j + 1]
      BY <1>1, <3>1, <3>3, TailItems
    <3> QED BY <1>1, <3>1, <3>4 DEF PlainInv, GuardFirst
  <2>2. i = Len(frames)
    BY <1>1, <2>1, NoConditionalBelow DEF PlainInv, Unconditional
  <2> QED BY <1>1, <2>1, <2>2 DEF PlainInv, GuardFirst
<1>7. FramesComplete'
  <2> SUFFICES ASSUME NEW i \in DOMAIN frames,
                      NEW d \in Included(frames[i].file),
                      <<frames[i].file, d>> \notin Recorded,
                      Include(d) \notin ToSet(frames'[i].rest)
               PROVE  Dropped(i)'
    BY <1>1, <1>4 DEF FramesComplete
  <2>1. ~Dropped(i) /\ Include(d) \in ToSet(frames[i].rest)
    BY <1>1 DEF PlainInv, FramesComplete, Dropped
  <2>2. i = 1
    BY <1>1, <2>1
  <2>3. frames[1].file \in macros /\ frames'[1].rest = <<>>
    <3>1. Include(d) # frames[1].rest[1]
      BY <1>1 DEF Include, Conditional
    <3> QED BY <1>2, <2>1, <2>2, <3>1
  <2>4. 1 # Len(frames)
    <3>1. CoveredPast(frames[1].file)
      BY <1>1, <2>3, FrameTyped DEF PlainInv, FilesCovered, IInv
    <3>2. PICK k \in DOMAIN frames : /\ Ahead(frames[1].file, d, k)
                                     /\ Unconditional(frames[k].rest)
      BY <2>2, <3>1 DEF CoveredPast
    <3>3. k # 1
      BY <1>1, <3>2 DEF Unconditional
    <3> QED BY <3>2, <3>3 DEF IInv, TypeOK
  <2>5. ~frames[1].candidate /\ ShouldEnter(frames[1].file)
    BY <1>1, <2>4 DEF PlainInv, GuardFirst
  <2>6. frames[1].file \notin once \cup controlling
    BY <2>3, <2>5 DEF ShouldEnter
  <2> QED BY <1>1, <1>2, <1>3, <2>2, <2>3, <2>4, <2>5, <2>6 DEF Dropped
<1> QED BY <1>5, <1>6, <1>7 DEF FramesPlain

LEMMA EnterFileFrames ==
  ASSUME IInv, ReplacementsKnown, Plain(program), PlainInv, EnterFile,
         Recorded' = Recorded
  PROVE  FramesPlain'
<1>1. /\ pending \in File /\ pending' = NoFile /\ pending # NoFile
      /\ Len(frames') = Len(frames) + 1 /\ Len(frames) \in Nat
      /\ frames'[1].file = pending /\ frames'[1].rest = Contents(pending)
      /\ ~frames'[1].candidate
      /\ \A i \in DOMAIN frames' :
           i # 1 => i - 1 \in DOMAIN frames /\ frames'[i] = frames[i - 1]
  BY FileEntered
<1>2. /\ UNCHANGED <<program, overwrites, macros, once, controlling>>
      /\ ShouldEnter(pending) /\ TypeOK
  BY DEF EnterFile, IInv
<1>3. \A f : Contents(f)' = Contents(f) /\ Included(f)' = Included(f)
  BY <1>2, ContentsStay
<1>4. ReadsContents'
  <2>1. ASSUME NEW i \in DOMAIN frames'
        PROVE  ToSet(frames'[i].rest) \subseteq ToSet(Contents(frames'[i].file))
    BY <1>1 DEF PlainInv, ReadsContents
  <2> QED BY <1>3, <2>1 DEF ReadsContents
<1>5. ASSUME NEW i \in DOMAIN frames', NEW j \in DOMAIN frames'[i].rest,
             frames'[i].rest[j].op \in Conditional
      PROVE  /\ j = 1 /\ ~frames'[i].candidate
             /\ i = Len(frames') \/ (i = 1 /\ ShouldEnter(frames'[i].file))
  <2>1. CASE i = 1
    BY <1>1, <1>2, <1>5, <2>1, PlainContents DEF PlainInv
  <2>2. CASE i # 1
    <3>1. i - 1 \in DOMAIN frames /\ frames'[i] = frames[i - 1]
      BY <1>1, <2>2
    <3>2. i - 1 = Len(frames)
      BY <1>1, <1>5, <3>1, NoConditionalBelow DEF PlainInv, Unconditional
    <3> QED BY <1>1, <1>5, <3>1, <3>2 DEF PlainInv, GuardFirst
  <2> QED BY <2>1, <2>2
<1>6. GuardFirst'
  BY <1>1, <1>2, <1>5 DEF GuardFirst, ShouldEnter
<1>7. FramesComplete'
  <2> SUFFICES ASSUME NEW i \in DOMAIN frames',
                      NEW d \in Included(frames'[i].file)
               PROVE  \/ <<frames'[i].file, d>> \in Recorded
                      \/ Include(d) \in ToSet(frames'[i].rest)
    BY <1>3 DEF FramesComplete
  <2>1. CASE i = 1
    BY <1>1, <2>1, OpenedComplete
  <2>2. CASE i # 1
    BY <1>1, <2>2 DEF PlainInv, FramesComplete, Dropped
  <2> QED BY <2>1, <2>2
<1> QED BY <1>4, <1>6, <1>7 DEF FramesPlain

LEMMA LeaveFrames ==
  ASSUME IInv, PlainInv, Leaves, Recorded' = Recorded
  PROVE  FramesPlain'
<1>1. /\ Len(frames') = Len(frames) - 1 /\ Len(frames) \in Nat
      /\ DOMAIN frames' = 1..Len(frames')
      /\ \A i \in DOMAIN frames' :
           i + 1 \in DOMAIN frames /\ frames'[i] = frames[i + 1]
      /\ UNCHANGED <<program, overwrites>>
  BY FileLeft
<1>2. \A f : Contents(f)' = Contents(f) /\ Included(f)' = Included(f)
  BY <1>1, ContentsStay
<1>3. \A i \in DOMAIN frames' : i + 1 # 1
  BY <1>1
<1>4. ReadsContents'
  BY <1>1, <1>2 DEF PlainInv, ReadsContents
<1>5. GuardFirst'
  <2> SUFFICES ASSUME NEW i \in DOMAIN frames', NEW j \in DOMAIN frames'[i].rest,
                      frames'[i].rest[j].op \in Conditional
               PROVE  j = 1 /\ ~frames'[i].candidate /\ i = Len(frames')
    BY DEF GuardFirst
  <2>1. i + 1 = Len(frames)
    BY <1>1, <1>3, NoConditionalBelow DEF PlainInv, Unconditional
  <2> QED BY <1>1, <2>1 DEF PlainInv, GuardFirst
<1>6. FramesComplete'
  BY <1>1, <1>2, <1>3 DEF PlainInv, FramesComplete, Dropped
<1> QED BY <1>4, <1>5, <1>6 DEF FramesPlain

LEMMA EnterSourceFrames ==
  ASSUME IInv, ReplacementsKnown, Plain(program), PlainInv, EnterSource,
         Recorded' = Recorded
  PROVE  /\ FramesPlain' /\ DOMAIN frames' = {1} /\ Len(frames') = 1
         /\ NextSource \in File /\ frames'[1].file = NextSource
         /\ NextSource = program.sources[started + 1]
         /\ started + 1 \in DOMAIN program.sources
<1> DEFINE f == NextSource
           frame == [file |-> f, rest |-> Contents(f), candidate |-> FALSE]
<1>1. /\ UNCHANGED <<program, overwrites>> /\ TypeOK /\ frames' = <<frame>>
  BY DEF EnterSource, IInv
<1>2. /\ started + 1 \in DOMAIN program.sources /\ f \in File
      /\ f = program.sources[started + 1]
  <2>1. program.sources \in Seq(File)
    BY ProgramFields DEF IInv, TypeOK
  <2>2. started + 1 \in DOMAIN program.sources
    BY <2>1 DEF EnterSource, MoreSources, IInv, TypeOK
  <2> QED BY <2>1, <2>2 DEF NextSource
<1>3. \A g : Contents(g)' = Contents(g) /\ Included(g)' = Included(g)
  BY <1>1, ContentsStay
<1>4. /\ DOMAIN frames' = {1} /\ Len(frames') = 1 /\ frames'[1].file = f
      /\ frames'[1].rest = Contents(f) /\ ~frames'[1].candidate
  BY <1>1
<1> HIDE DEF f, frame
<1>5. ReadsContents'
  BY <1>3, <1>4 DEF ReadsContents
<1>6. GuardFirst'
  BY <1>1, <1>2, <1>4, PlainContents DEF PlainInv, GuardFirst
<1>7. FramesComplete'
  BY <1>2, <1>3, <1>4, OpenedComplete DEF FramesComplete
<1> QED BY <1>2, <1>4, <1>5, <1>6, <1>7 DEF FramesPlain, f

LEMMA FramesUntouched ==
  ASSUME PlainInv,
         UNCHANGED <<program, overwrites, frames, macros, once, controlling>>,
         pending' \in {pending, NoFile}, Recorded' = Recorded
  PROVE  FramesPlain'
<1>1. \A f : /\ Contents(f)' = Contents(f) /\ Included(f)' = Included(f)
             /\ ShouldEnter(f)' = ShouldEnter(f)
  BY ContentsStay DEF ShouldEnter
<1>2. ReadsContents'
  BY <1>1 DEF PlainInv, ReadsContents
<1>3. GuardFirst'
  BY <1>1 DEF PlainInv, GuardFirst, ShouldEnter
<1>4. FramesComplete'
  BY <1>1 DEF PlainInv, FramesComplete, Dropped
<1> QED BY <1>2, <1>3, <1>4 DEF FramesPlain

-----------------------------------------------------------------------------
(* The entries of the files, and what is kept for their replacement. *)

(* A file that is left becomes processed; its vertex and its replacement   *)
(* stay.                                                                   *)
LEMMA ProcessedEntries ==
  ASSUME IInv, phase = "preprocess", id_to_node' = MarkedProcessed
  PROVE  /\ DOMAIN id_to_node' = DOMAIN id_to_node
         /\ \A u \in DOMAIN id_to_node :
              /\ id_to_node'[u].v = id_to_node[u].v
              /\ id_to_node'[u].replacement_contents =
                   id_to_node[u].replacement_contents
              /\ id_to_node'[u].fully_processed =
                   IF u = Head(m_stack).id THEN TRUE
                   ELSE id_to_node[u].fully_processed
<1> DEFINE k == Head(m_stack).id
           new == [id_to_node[k] EXCEPT !.fully_processed = TRUE]
<1>1. /\ k \in DOMAIN id_to_node
      /\ \A u \in DOMAIN id_to_node : id_to_node[u] \in FileState
  BY Back DEF IInv, TypeOK
<1>2. /\ new.v = id_to_node[k].v /\ new.fully_processed = TRUE
      /\ new.replacement_contents = id_to_node[k].replacement_contents
  BY <1>1 DEF FileState
<1>3. id_to_node' = [id_to_node EXCEPT ![k] = new]
  BY <1>1 DEF MarkedProcessed
<1> HIDE DEF k, new
<1>4. /\ DOMAIN id_to_node' = DOMAIN id_to_node
      /\ \A u \in DOMAIN id_to_node :
           id_to_node'[u] = IF u = k THEN new ELSE id_to_node[u]
  BY <1>1, <1>3
<1> QED BY <1>2, <1>4 DEF k

LEMMA StartedEntries ==
  ASSUME IInv, EnterSource
  PROVE  /\ \A u \in DOMAIN id_to_node :
              u \in DOMAIN id_to_node' /\ id_to_node'[u] = id_to_node[u]
         /\ UniqueIDOf(NextSource) \in DOMAIN id_to_node'
         /\ \A u \in DOMAIN id_to_node' \ DOMAIN id_to_node :
              /\ id_to_node'[u].v = Len(nodes) + 1
              /\ ~id_to_node'[u].fully_processed
              /\ id_to_node'[u].replacement_contents = <<>>
<1> DEFINE k == UniqueIDOf(NextSource)
           fresh == NewFileState(Len(nodes) + 1)
<1>1. id_to_node' = Emplace(id_to_node, k, fresh)
  BY DEF EnterSource
<1>2. /\ fresh.v = Len(nodes) + 1 /\ ~fresh.fully_processed
      /\ fresh.replacement_contents = <<>>
  BY DEF NewFileState
<1> HIDE DEF k, fresh
<1>3. /\ DOMAIN id_to_node' = DOMAIN id_to_node \cup {k}
      /\ \A u \in DOMAIN id_to_node : id_to_node'[u] = id_to_node[u]
      /\ k \notin DOMAIN id_to_node => id_to_node'[k] = fresh
  BY <1>1 DEF Emplace
<1> QED BY <1>2, <1>3 DEF k

(* The entry of a replaced file moves as it is.                            *)
LEMMA MovedEntry ==
  ASSUME IInv, EndSourceFileAction, NEW u \in DOMAIN id_to_node'
  PROVE  \E w \in DOMAIN id_to_node :
           id_to_node'[u] = id_to_node[w] /\ w[1] = u[1]
<1> DEFINE kept == DOMAIN id_to_node \ NeedsReplacing
<1>1. /\ DOMAIN id_to_node' = kept \cup {<<f, TRUE>> : f \in ReplacedPaths}
      /\ \A x \in kept : id_to_node'[x] = id_to_node[x]
      /\ \A x \in DOMAIN id_to_node' \ kept :
           id_to_node'[x] = id_to_node[ReplacementOf(x[1])]
  BY DEF EndSourceFileAction, EntriesMoved
<1>2. CASE u \in kept
  BY <1>1, <1>2
<1>3. CASE u \notin kept
  <2>1. PICK f \in ReplacedPaths : u = <<f, TRUE>>
    BY <1>1, <1>3
  <2>2. u[1] = f
    BY <2>1
  <2>3. /\ ReplacementOf(f) \in DOMAIN id_to_node
        /\ ReplacementOf(f)[1] = f
    BY ReplacementKnown, UniqueIDTyped
  <2> QED BY <1>1, <1>3, <2>2, <2>3
<1> QED BY <1>2, <1>3

(* Every other step leaves the entries alone.                              *)
LEMMA EntriesUntouched ==
  ASSUME [Next]_vars, ~EndSourceFileAction, ~InclusionDirective, ~EnterSource,
         ~MacroDefined, ~MacroUndefined, ~ExitUnguarded, ~ExitGuardedFirst
  PROVE  UNCHANGED id_to_node
<1>1. CASE SourceSeenBefore \/ NewIncludeFromDone \/ CostAssignedTwice
  BY <1>1 DEF SourceSeenBefore, NewIncludeFromDone, CostAssignedTwice, Fail
<1>2. CASE LexTokens \/ SkipExcluded \/ PragmaOnce \/ PragmaDirective
             \/ IfOrIfndef
  BY <1>2 DEF LexTokens, SkipExcluded, PragmaOnce, PragmaDirective, IfOrIfndef
<1>3. CASE MissingInclude \/ InclusionFromDone \/ EnterFile \/ FileSkipped
  BY <1>3 DEF MissingInclude, InclusionFromDone, EnterFile, FileSkipped
<1>4. CASE ExitGuardedAgain \/ EndOfMainFile \/ Finish
  BY <1>4 DEF ExitGuardedAgain, EndOfMainFile, Finish
<1>5. CASE Stutter \/ UNCHANGED vars
  BY <1>5 DEF Stutter, vars
<1> QED BY <1>1, <1>2, <1>3, <1>4, <1>5 DEF Next, Scan

LEMMA DirectiveKept ==
  ASSUME IInv, phase = "preprocess", NEW item \in Item,
         RecordDirective(item) \/ UNCHANGED id_to_node,
         item.op \in {"define", "undef"},
         item.op = "define" /\ item.macro \in File =>
           item.macro = Head(frames).file,
         ReplacementsKeepMacros
  PROVE  /\ DOMAIN id_to_node' = DOMAIN id_to_node
         /\ \A u \in DOMAIN id_to_node :
              /\ id_to_node'[u].v = id_to_node[u].v
              /\ id_to_node'[u].fully_processed = id_to_node[u].fully_processed
              /\ id_to_node[u].v \notin m_replaced =>
                   Kept(id_to_node'[u].replacement_contents, u[1])
<1> DEFINE k == Head(m_stack).id
           old == id_to_node[k]
           new == [old EXCEPT !.replacement_contents = Append(@, item)]
<1>1. /\ k \in DOMAIN id_to_node /\ k = UniqueIDOf(Head(frames).file)
      /\ Head(frames).file \in File /\ old \in FileState
  BY Back DEF Frame, BackState
<1>2. k[1] = Head(frames).file
  BY <1>1, UniqueIDTyped
<1>3. \/ id_to_node' = id_to_node
      \/ /\ id_to_node' = [id_to_node EXCEPT ![k] = new]
         /\ old.v \notin m_replaced
  BY <1>1 DEF RecordDirective, BackState
<1>4. /\ new.v = old.v /\ new.fully_processed = old.fully_processed
      /\ new.replacement_contents = Append(old.replacement_contents, item)
  BY <1>1 DEF FileState
<1>5. CASE id_to_node' = id_to_node
  BY <1>5 DEF ReplacementsKeepMacros
<1>6. CASE /\ id_to_node' = [id_to_node EXCEPT ![k] = new]
           /\ old.v \notin m_replaced
  <2> DEFINE s == old.replacement_contents
  <2>1. s \in Seq(Item)
    BY <1>1 DEF FileState
  <2>2. Kept(s, k[1])
    BY <1>1, <1>6 DEF ReplacementsKeepMacros
  <2>3. Kept(Append(s, item), k[1])
    <3> HIDE DEF s, k
    <3> SUFFICES ASSUME NEW j \in DOMAIN Append(s, item)
                 PROVE  LET x == Append(s, item)[j] IN
                        /\ x.op \in {"define", "undef"}
                        /\ x.op = "define" /\ x.macro \in File => x.macro = k[1]
      BY DEF Kept
    <3>1. CASE j \in DOMAIN s
      <4>1. Append(s, item)[j] = s[j]
        BY <2>1, <3>1
      <4> QED BY <2>2, <3>1, <4>1 DEF Kept
    <3>2. CASE j \notin DOMAIN s
      <4>1. Append(s, item)[j] = item
        BY <2>1, <3>2
      <4> QED BY <1>2, <4>1
    <3> QED BY <3>1, <3>2
  <2> HIDE DEF s, k, new
  <2>4. /\ DOMAIN id_to_node' = DOMAIN id_to_node
        /\ \A u \in DOMAIN id_to_node :
             id_to_node'[u] = IF u = k THEN new ELSE id_to_node[u]
    BY <1>1, <1>6
  <2> QED BY <1>4, <2>3, <2>4 DEF ReplacementsKeepMacros, s
<1> QED BY <1>3, <1>5, <1>6

LEMMA MacroStepKept ==
  ASSUME IInv, Plain(program), PlainInv, MacroDefined \/ MacroUndefined
  PROVE  /\ DOMAIN id_to_node' = DOMAIN id_to_node
         /\ \A u \in DOMAIN id_to_node :
              /\ id_to_node'[u].v = id_to_node[u].v
              /\ id_to_node'[u].fully_processed = id_to_node[u].fully_processed
              /\ id_to_node[u].v \notin m_replaced =>
                   Kept(id_to_node'[u].replacement_contents, u[1])
<1> DEFINE mac == Head(Remaining).macro
<1>1. /\ Preprocessing /\ Remaining # <<>>
      /\ phase = "preprocess" /\ Head(frames) = frames[1]
  BY Back DEF MacroDefined, MacroUndefined, Lexing, Preprocessing
<1>2. mac \in MacroName
  BY <1>1, NextItem, ItemFields DEF MacroDefined, MacroUndefined, Lexing
<1>3. CASE MacroDefined
  <2>1. mac \in File => mac = frames[1].file
    BY <1>1, <1>3, NextPlainItem DEF MacroDefined, Lexing, PlainInv
  <2>2. /\ Define(mac) \in Item /\ Define(mac).op = "define"
        /\ Define(mac).macro = mac
    BY <1>2, MadeItems DEF Define
  <2>3. RecordDirective(Define(mac))
    BY <1>3 DEF MacroDefined
  <2> HIDE DEF mac
  <2> QED BY <1>1, <2>1, <2>2, <2>3, DirectiveKept DEF PlainInv
<1>4. CASE MacroUndefined
  <2>1. Undef(mac) \in Item /\ Undef(mac).op = "undef"
    BY <1>2, MadeItems DEF Undef
  <2>2. RecordDirective(Undef(mac)) \/ UNCHANGED id_to_node
    BY <1>4 DEF MacroUndefined
  <2> HIDE DEF mac
  <2> QED BY <1>1, <2>1, <2>2, DirectiveKept DEF PlainInv
<1> QED BY <1>3, <1>4

LEMMA KeepsMacros ==
  ASSUME IInv, ReplacementsKnown, Plain(program), PlainInv, [Next]_vars
  PROVE  ReplacementsKeepMacros'
<1>1. CASE EndSourceFileAction
  <2>1. ASSUME NEW f \in DOMAIN overwrites' PROVE Kept(overwrites'[f], f)
    <3>1. CASE f \in ReplacedPaths
      <4>1. /\ overwrites'[f] = m_needs_replacing[ReplacementOf(f)].contents
            /\ ReplacementOf(f) \in DOMAIN m_needs_replacing
            /\ ReplacementOf(f)[1] = f
        BY <1>1, <3>1, ReplacementKnown, UniqueIDTyped
        DEF EndSourceFileAction, NeedsReplacing
      <4> QED BY <4>1 DEF PlainInv, ReplacementsKeepMacros
    <3>2. CASE f \notin ReplacedPaths
      BY <1>1, <3>2 DEF EndSourceFileAction, PlainInv, ReplacementsKeepMacros
    <3> QED BY <3>1, <3>2
  <2>2. m_replaced \subseteq m_replaced' /\ m_needs_replacing' = <<>>
    BY <1>1 DEF EndSourceFileAction
  <2>3. ASSUME NEW u \in DOMAIN id_to_node', id_to_node'[u].v \notin m_replaced'
        PROVE  Kept(id_to_node'[u].replacement_contents, u[1])
    <3>1. PICK w \in DOMAIN id_to_node :
            id_to_node'[u] = id_to_node[w] /\ w[1] = u[1]
      BY <1>1, MovedEntry
    <3> QED BY <2>2, <2>3, <3>1 DEF PlainInv, ReplacementsKeepMacros
  <2> QED BY <2>1, <2>2, <2>3 DEF ReplacementsKeepMacros
<1>2. CASE ~EndSourceFileAction
  <2>1. UNCHANGED <<overwrites, m_replaced>>
    BY <1>2, StepGrows
  <2>2. ASSUME NEW u \in DOMAIN id_to_node', id_to_node'[u].v \notin m_replaced
        PROVE  Kept(id_to_node'[u].replacement_contents, u[1])
    <3>1. Kept(<<>>, u[1])
      BY DEF Kept
    <3>2. CASE InclusionDirective
      BY <2>2, <3>1, <3>2, InclusionEntries DEF PlainInv, ReplacementsKeepMacros
    <3>3. CASE EnterSource
      BY <2>2, <3>1, <3>3, StartedEntries DEF PlainInv, ReplacementsKeepMacros
    <3>4. CASE MacroDefined \/ MacroUndefined
      BY <2>2, <3>4, MacroStepKept
    <3>5. CASE ExitUnguarded \/ ExitGuardedFirst
      <4>1. id_to_node' = MarkedProcessed /\ phase = "preprocess"
        BY <3>5 DEF ExitUnguarded, ExitGuardedFirst, LeavingFile, Preprocessing
      <4> QED BY <2>2, <4>1, ProcessedEntries DEF PlainInv, ReplacementsKeepMacros
    <3>6. CASE id_to_node' = id_to_node
      BY <2>2, <3>6 DEF PlainInv, ReplacementsKeepMacros
    <3> QED BY <1>2, <3>2, <3>3, <3>4, <3>5, <3>6, EntriesUntouched
  <2>3. ASSUME NEW u \in DOMAIN m_needs_replacing'
        PROVE  Kept(m_needs_replacing'[u].contents, u[1])
    <3>1. CASE ExitGuardedFirst
      <4> DEFINE k == Head(m_stack).id
                 new == [contents |-> BackState.replacement_contents,
                         path |-> Head(frames).file, v |-> BackState.v]
      <4>1. /\ k \in DOMAIN id_to_node /\ BackState = id_to_node[k]
            /\ new.contents = id_to_node[k].replacement_contents
        BY <3>1, Back DEF BackState, ExitGuardedFirst, LeavingFile, Preprocessing
      <4>2. \/ m_needs_replacing' = m_needs_replacing
            \/ /\ m_needs_replacing' = Emplace(m_needs_replacing, k, new)
               /\ BackState.v \notin m_replaced
        BY <3>1 DEF ExitGuardedFirst
      <4>3. \A w \in DOMAIN m_needs_replacing :
              Kept(m_needs_replacing[w].contents, w[1])
        BY DEF PlainInv, ReplacementsKeepMacros
      <4>4. BackState.v \notin m_replaced =>
              Kept(new.contents, k[1])
        BY <4>1 DEF PlainInv, ReplacementsKeepMacros
      <4> HIDE DEF new, k
      <4>5. CASE m_needs_replacing' = m_needs_replacing
        BY <4>3, <4>5
      <4>6. CASE /\ m_needs_replacing' = Emplace(m_needs_replacing, k, new)
                 /\ BackState.v \notin m_replaced
        <5>1. /\ DOMAIN m_needs_replacing' = DOMAIN m_needs_replacing \cup {k}
              /\ \A w \in DOMAIN m_needs_replacing :
                   m_needs_replacing'[w] = m_needs_replacing[w]
              /\ k \notin DOMAIN m_needs_replacing => m_needs_replacing'[k] = new
          BY <4>6 DEF Emplace
        <5> QED BY <4>3, <4>4, <4>6, <5>1
      <4> QED BY <4>2, <4>5, <4>6
    <3>2. CASE ~ExitGuardedFirst
      BY <1>2, <3>2, NeedsReplacingUntouched DEF PlainInv, ReplacementsKeepMacros
    <3> QED BY <3>1, <3>2
  <2> QED BY <2>1, <2>2, <2>3 DEF PlainInv, ReplacementsKeepMacros
<1> QED BY <1>1, <1>2


-----------------------------------------------------------------------------
(* The kinds of steps, and what each leaves alone. *)

Fails == SourceSeenBefore \/ NewIncludeFromDone \/ CostAssignedTwice

Quiet == Fails \/ Stutter \/ UNCHANGED vars

LEMMA StepKinds ==
  ASSUME [Next]_vars
  PROVE  \/ Reads \/ IfOrIfndef \/ EnterFile \/ FileSkipped \/ Leaves
         \/ EndOfMainFile \/ EnterSource \/ EndSourceFileAction \/ Finish \/ Quiet
BY DEF Next, Scan, Reads, Leaves, Fails, Quiet

LEMMA QuietStep ==
  ASSUME Quiet
  PROVE  UNCHANGED <<program, phase, started, frames, predefines, pending, macros,
                     once, controlling, id_to_node, m_replaced, nodes, edges,
                     overwrites>>
<1>1. CASE Fails
  BY <1>1 DEF Fails, SourceSeenBefore, NewIncludeFromDone, CostAssignedTwice,
              Fail, ppVars, resultVars
<1>2. CASE Stutter \/ UNCHANGED vars
  BY <1>2 DEF Stutter, vars, ppVars, resultVars
<1> QED BY <1>1, <1>2 DEF Quiet

LEMMA EndStep ==
  ASSUME FileSkipped \/ EndOfMainFile \/ Finish
  PROVE  /\ UNCHANGED <<program, started, frames, predefines, macros, once,
                        controlling, id_to_node, m_replaced, edges, overwrites>>
         /\ pending' \in {pending, NoFile}
         /\ EndOfMainFile => phase = "preprocess" /\ phase' = "end"
         /\ FileSkipped => UNCHANGED <<phase, nodes>>
         /\ Finish => phase = "idle" /\ phase' = "finished" /\ UNCHANGED nodes
<1>1. CASE FileSkipped
  BY <1>1 DEF FileSkipped, EndOfMainFile, Finish, Inclusion, Preprocessing, resultVars
<1>2. CASE EndOfMainFile
  BY <1>2 DEF FileSkipped, EndOfMainFile, Finish, Inclusion, Preprocessing, ppVars
<1>3. CASE Finish
  BY <1>3 DEF FileSkipped, EndOfMainFile, Finish, Inclusion, Preprocessing,
              ppVars, resultVars
<1> QED BY <1>1, <1>2, <1>3

LEMMA EnterStep ==
  ASSUME EnterFile \/ IfOrIfndef
  PROVE  /\ UNCHANGED <<program, phase, started, predefines, macros, once,
                        controlling, id_to_node, m_replaced, nodes, edges,
                        overwrites>>
         /\ pending' \in {pending, NoFile} /\ phase = "preprocess"
BY DEF EnterFile, IfOrIfndef, Inclusion, Lexing, Preprocessing, resultVars

LEMMA ReadStep ==
  ASSUME Reads
  PROVE  /\ \/ InclusionDirective \/ InclusionFromDone
            \/ pending' = pending /\ UNCHANGED <<nodes, edges>>
         /\ InclusionDirective \/ InclusionFromDone =>
              /\ pending' = Head(Remaining).file
              /\ Head(Remaining).op = "include"
              /\ Head(Remaining).file \notin program.absent
              /\ UNCHANGED <<macros, once>>
         /\ InclusionFromDone => UNCHANGED <<nodes, edges, id_to_node>>
<1>1. CASE InclusionDirective
  <2>1. /\ pending' = Head(Remaining).file /\ IncludingFile
        /\ UNCHANGED <<macros, once>>
    BY <1>1, Zenon DEF InclusionDirective
  <2>2. /\ Head(Remaining).op = "include"
        /\ Head(Remaining).file \notin program.absent
    BY <2>1 DEF IncludingFile, Lexing
  <2>3. ~InclusionFromDone
    BY <1>1, Zenon DEF InclusionDirective, InclusionFromDone
  <2> QED BY <1>1, <2>1, <2>2, <2>3
<1>2. CASE InclusionFromDone
  <2>1. ~InclusionDirective
    BY <1>2, Zenon DEF InclusionDirective, InclusionFromDone
  <2> QED BY <1>2, <2>1 DEF InclusionFromDone, IncludingFile, Lexing, resultVars
<1>3. CASE ~InclusionDirective /\ ~InclusionFromDone
  BY <1>3 DEF Reads, LexTokens, SkipExcluded, PragmaOnce, PragmaDirective,
              MacroDefined, MacroUndefined, MissingInclude, resultVars
<1> QED BY <1>1, <1>2, <1>3

(* What is in the graph stays in it.                                       *)
LEMMA RecordedStays ==
  ASSUME IInv, IInv', EdgesCounted, [Next]_vars
  PROVE  /\ UNCHANGED program
         /\ Recorded \subseteq Recorded'
         /\ InclusionDirective \/ Recorded' = Recorded
         /\ \A v \in DOMAIN nodes :
              v \in DOMAIN nodes' /\ nodes'[v].path = nodes[v].path
<1>1. UNCHANGED program
  BY ProgramFixed
<1>2. CASE InclusionDirective
  BY <1>1, <1>2, InclusionRecords, InclusionVertices DEF SameFile
<1>3. CASE ~InclusionDirective
  BY <1>1, <1>3, StepRecords
<1> QED BY <1>2, <1>3

(* The files in progress stay the same, one is opened or one is left, or a *)
(* translation unit starts or ends.                                        *)
SameFiles ==
  /\ Len(frames') = Len(frames) /\ DOMAIN frames' = DOMAIN frames
  /\ \A i \in DOMAIN frames : frames'[i].file = frames[i].file
  /\ UNCHANGED <<program, started>>
  /\ phase' \in {"preprocess", "end"} => phase \in {"preprocess", "end"}

LEMMA StackStep ==
  ASSUME IInv, [Next]_vars
  PROVE  SameFiles \/ EnterFile \/ Leaves \/ EnterSource \/ EndSourceFileAction
<1>1. CASE Reads
  BY <1>1, ReadsItem, ItemRead DEF SameFiles
<1>2. CASE IfOrIfndef
  BY <1>2, ConditionalRead, EnterStep DEF SameFiles
<1>3. CASE FileSkipped \/ EndOfMainFile \/ Finish
  BY <1>3, EndStep DEF SameFiles
<1>4. CASE Quiet
  BY <1>4, QuietStep DEF SameFiles
<1> QED BY <1>1, <1>2, <1>3, <1>4, StepKinds

-----------------------------------------------------------------------------
(* The sources. *)

LEMMA PendingNoSource ==
  ASSUME IInv, Plain(program), PlainInv, [Next]_vars
  PROVE  pending' \notin ToSet(program.sources)
<1>1. NoFile \notin ToSet(program.sources)
  <2>1. program.sources \in Seq(File)
    BY ProgramFields DEF IInv, TypeOK
  <2> QED BY <2>1, NoFileAssumption DEF ToSet
<1>2. pending \notin ToSet(program.sources)
  BY DEF PlainInv, SourcesAreMain
<1>3. CASE Reads
  <2>1. Preprocessing /\ Remaining # <<>>
    BY <1>3, ReadsItem
  <2>2. CASE InclusionDirective \/ InclusionFromDone
    BY <1>3, <2>1, <2>2, ReadStep, NextPlainItem DEF PlainInv
  <2> QED BY <1>2, <1>3, <2>2, ReadStep
<1>4. CASE EnterSource \/ EndSourceFileAction
  BY <1>2, <1>4 DEF EnterSource, EndSourceFileAction
<1>5. CASE Leaves
  BY <1>2, <1>5, FileLeft
<1> QED BY <1>1, <1>2, <1>3, <1>4, <1>5, StepKinds, QuietStep, EndStep, EnterStep

LEMMA OnlyMainIsSource ==
  ASSUME IInv, ReplacementsKnown, Plain(program), PlainInv, [Next]_vars,
         Recorded' = Recorded \/ InclusionDirective
  PROVE  /\ \A i \in DOMAIN frames' :
              i # Len(frames') => frames'[i].file \notin ToSet(program.sources)
         /\ phase' \in {"preprocess", "end"} =>
              /\ started' > 0
              /\ frames'[Len(frames')].file = program.sources[started']
<1>1. /\ pending \notin ToSet(program.sources)
      /\ \A i \in DOMAIN frames :
           i # Len(frames) => frames[i].file \notin ToSet(program.sources)
      /\ phase \in {"preprocess", "end"} =>
           started > 0 /\ frames[Len(frames)].file = program.sources[started]
  BY DEF PlainInv, SourcesAreMain
<1>2. /\ started \in Nat
      /\ phase \in {"preprocess", "end"} => Len(frames) \in DOMAIN frames
  BY Back DEF IInv, TypeOK
<1>3. CASE SameFiles
  BY <1>1, <1>2, <1>3 DEF SameFiles
<1>4. CASE EnterFile
  <2>1. /\ Len(frames') = Len(frames) + 1 /\ Len(frames) \in Nat
        /\ frames'[1].file = pending
        /\ \A i \in DOMAIN frames' :
             i # 1 => i - 1 \in DOMAIN frames /\ frames'[i] = frames[i - 1]
        /\ \A i \in DOMAIN frames :
             i + 1 \in DOMAIN frames' /\ frames'[i + 1] = frames[i]
        /\ DOMAIN frames' = 1..Len(frames')
    BY <1>4, FileEntered
  <2>2. UNCHANGED <<phase, started>> /\ phase = "preprocess"
    BY <1>4, EnterStep
  <2>3. \A i \in DOMAIN frames' : i # Len(frames') /\ i # 1 => i - 1 # Len(frames)
    BY <2>1
  <2> QED BY <1>1, <1>2, <2>1, <2>2, <2>3
<1>5. CASE Leaves
  <2>1. /\ Len(frames') = Len(frames) - 1 /\ Len(frames) \in Nat
        /\ DOMAIN frames' = 1..Len(frames') /\ DOMAIN frames = 1..Len(frames)
        /\ \A i \in DOMAIN frames' :
             i + 1 \in DOMAIN frames /\ frames'[i] = frames[i + 1]
        /\ UNCHANGED <<phase, started>> /\ Len(frames) > 1
    BY <1>5, FileLeft
  <2>2. \A i \in DOMAIN frames' : i # Len(frames') => i + 1 # Len(frames)
    BY <2>1
  <2>3. Len(frames') \in DOMAIN frames' /\ Len(frames') + 1 = Len(frames)
    BY <2>1
  <2> QED BY <1>1, <2>1, <2>2, <2>3
<1>6. CASE EnterSource
  <2>1. ~InclusionDirective
    <3>1. InclusionDirective => phase = "preprocess"
      BY InclusionDirectiveGuard DEF IncludingFile, Lexing, Preprocessing
    <3> QED BY <1>6, <3>1 DEF EnterSource, MoreSources
  <2>2. started' = started + 1
    BY <1>6 DEF EnterSource
  <2> QED BY <1>2, <1>6, <2>1, <2>2, EnterSourceFrames
<1>7. CASE EndSourceFileAction
  BY <1>7 DEF EndSourceFileAction
<1> QED BY <1>3, <1>4, <1>5, <1>6, <1>7, StackStep

(* A source is not left, so it does not become processed.                  *)
LEMMA SourcesUnprocessed ==
  ASSUME IInv, Plain(program), PlainInv, [Next]_vars,
         NEW u \in DOMAIN id_to_node', u[1] \in ToSet(program.sources)
  PROVE  ~id_to_node'[u].fully_processed
<1>1. \A w \in DOMAIN id_to_node :
        w[1] \in ToSet(program.sources) => ~id_to_node[w].fully_processed
  BY DEF PlainInv, SourcesAreMain
<1>2. CASE EndSourceFileAction
  BY <1>1, <1>2, MovedEntry
<1>3. CASE InclusionDirective
  BY <1>1, <1>3, InclusionEntries
<1>4. CASE EnterSource
  BY <1>1, <1>4, StartedEntries
<1>5. CASE MacroDefined \/ MacroUndefined
  BY <1>1, <1>5, MacroStepKept
<1>6. CASE ExitUnguarded \/ ExitGuardedFirst
  <2>1. id_to_node' = MarkedProcessed /\ phase = "preprocess"
    BY <1>6 DEF ExitUnguarded, ExitGuardedFirst, LeavingFile, Preprocessing
  <2>2. /\ 1 \in DOMAIN frames /\ 1 # Len(frames) /\ Head(frames) = frames[1]
    <3>1. Leaves
      BY <1>6 DEF Leaves
    <3> QED BY <3>1, FileLeft
  <2>3. frames[1].file \notin ToSet(program.sources)
    BY <2>2 DEF PlainInv, SourcesAreMain
  <2>4. Head(m_stack).id[1] = frames[1].file
    BY <2>1, <2>2, Back, FrameTyped, UniqueIDTyped DEF IInv
  <2> QED BY <1>1, <2>1, <2>3, <2>4, ProcessedEntries
<1>7. CASE id_to_node' = id_to_node
  BY <1>1, <1>7
<1> QED BY <1>2, <1>3, <1>4, <1>5, <1>6, <1>7, EntriesUntouched

LEMMA SourcesStarted ==
  ASSUME IInv, PlainInv, [Next]_vars,
         \A v \in DOMAIN nodes : v \in DOMAIN nodes' /\ nodes'[v].path = nodes[v].path
  PROVE  /\ started' <= Len(program.sources)
         /\ \A k \in 1..started' :
              \E v \in DOMAIN nodes' : nodes'[v].path = program.sources[k]
<1>1. /\ started <= Len(program.sources) /\ started \in Nat
      /\ Len(program.sources) \in Nat
      /\ \A k \in 1..started :
           \E v \in DOMAIN nodes : nodes[v].path = program.sources[k]
  <2>1. program.sources \in Seq(File)
    BY ProgramFields DEF IInv, TypeOK
  <2> QED BY <2>1 DEF IInv, TypeOK, PlainInv, SourcesAreMain
<1>2. CASE EnterSource
  <2> DEFINE new == FileNode(NextSource, FALSE, FALSE)
  <2>1. new.path = NextSource
    BY DEF FileNode
  <2>2. /\ nodes' = Append(nodes, new) /\ started' = started + 1
        /\ started < Len(program.sources) /\ nodes \in Seq(Node)
    BY <1>2 DEF EnterSource, MoreSources, IInv, TypeOK
  <2> HIDE DEF new
  <2>3. Len(nodes) + 1 \in DOMAIN nodes' /\ nodes'[Len(nodes) + 1] = new
    BY <2>2
  <2>4. \A k \in 1..started' : k \in 1..started \/ k = started + 1
    BY <1>1, <2>2
  <2> QED BY <1>1, <2>1, <2>2, <2>3, <2>4 DEF NextSource
<1>3. CASE ~EnterSource
  <2>1. started' = started
    <3>1. CASE Reads
      BY <3>1, ReadsItem
    <3>2. CASE Leaves
      BY <3>2, FileLeft
    <3>3. CASE EndSourceFileAction
      BY <3>3 DEF EndSourceFileAction
    <3> QED BY <1>3, <3>1, <3>2, <3>3, StepKinds, QuietStep, EndStep, EnterStep
  <2> QED BY <1>1, <2>1
<1> QED BY <1>2, <1>3

LEMMA SourcesStayMain ==
  ASSUME IInv, IInv', EdgesCounted, ReplacementsKnown, Plain(program), PlainInv,
         [Next]_vars
  PROVE  SourcesAreMain'
<1>1. /\ UNCHANGED program
      /\ InclusionDirective \/ Recorded' = Recorded
      /\ \A v \in DOMAIN nodes : v \in DOMAIN nodes' /\ nodes'[v].path = nodes[v].path
  BY RecordedStays
<1> QED BY <1>1, PendingNoSource, OnlyMainIsSource, SourcesUnprocessed,
           SourcesStarted DEF SourcesAreMain

(* The forced includes of a source are in the graph or still to be read.   *)
LEMMA ForcedKept ==
  ASSUME PlainInv, UNCHANGED <<program, started, predefines>>,
         Recorded \subseteq Recorded'
  PROVE  /\ ToSet(predefines') \subseteq
              {Include(f) : f \in ToSet(program'.forced)}
         /\ \A k \in 1..started', d \in ToSet(program'.forced) \ program'.absent :
              \/ <<program'.sources[k], d>> \in Recorded'
              \/ k = started' /\ Include(d) \in ToSet(predefines')
BY DEF PlainInv, ForcedIncluded

LEMMA ForcedRead ==
  ASSUME IInv, IInv', EdgesCounted, Plain(program), PlainInv, Reads,
         Recorded \subseteq Recorded'
  PROVE  ForcedIncluded'
<1>1. /\ Preprocessing /\ Remaining # <<>> /\ Advance /\ phase = "preprocess"
      /\ UNCHANGED <<program, phase, started>>
  BY ReadsItem DEF Preprocessing
<1>2. CASE InPredefines
  <2>1. /\ Len(frames) = 1
        /\ ToSet(predefines) = {Head(Remaining)} \cup ToSet(predefines')
    BY <1>1, <1>2, ItemRead
  <2>2. frames[1].file = program.sources[started]
    BY <1>1, <2>1, MainIsSource DEF PlainInv
  <2>3. ASSUME NEW d, Include(d) = Head(Remaining), d \notin program.absent
        PROVE  <<program.sources[started], d>> \in Recorded'
    BY <2>2, <2>3, ReadIsRecorded
  <2>4. ASSUME NEW k \in 1..started, NEW d \in ToSet(program.forced) \ program.absent
        PROVE  \/ <<program.sources[k], d>> \in Recorded'
               \/ k = started /\ Include(d) \in ToSet(predefines')
    BY <2>1, <2>3 DEF PlainInv, ForcedIncluded
  <2>5. ToSet(predefines') \subseteq {Include(f) : f \in ToSet(program.forced)}
    BY <2>1 DEF PlainInv, ForcedIncluded
  <2> QED BY <1>1, <2>4, <2>5 DEF ForcedIncluded
<1>3. CASE ~InPredefines
  <2>1. UNCHANGED predefines
    BY <1>1, <1>3, ItemRead
  <2> QED BY <1>1, <2>1, ForcedKept DEF ForcedIncluded
<1> QED BY <1>2, <1>3

LEMMA ForcedEntered ==
  ASSUME IInv, PlainInv, EnterSource, Recorded' = Recorded
  PROVE  ForcedIncluded'
<1>1. /\ phase = "idle" /\ phase' = "preprocess" /\ started' = started + 1
      /\ predefines' = [i \in DOMAIN program.forced |-> Include(program.forced[i])]
      /\ program' = program /\ started \in Nat
  BY DEF EnterSource, MoreSources, IInv, TypeOK
<1>2. ToSet(predefines') = {Include(f) : f \in ToSet(program.forced)}
  BY <1>1 DEF ToSet
<1>3. ToSet(predefines) = {}
  <2>1. predefines = <<>>
    BY <1>1 DEF PlainInv, ForcedIncluded
  <2> QED BY <2>1 DEF ToSet
<1>4. ASSUME NEW k \in 1..started', NEW d \in ToSet(program.forced) \ program.absent
      PROVE  \/ <<program.sources[k], d>> \in Recorded
             \/ k = started' /\ Include(d) \in ToSet(predefines')
  <2>1. CASE k = started'
    BY <1>2, <2>1
  <2>2. CASE k # started'
    <3>1. k \in 1..started
      BY <1>1, <2>2
    <3> QED BY <1>3, <3>1 DEF PlainInv, ForcedIncluded
  <2> QED BY <2>1, <2>2
<1> QED BY <1>1, <1>2, <1>4 DEF ForcedIncluded

LEMMA ForcedStayIncluded ==
  ASSUME IInv, IInv', EdgesCounted, Plain(program), PlainInv, [Next]_vars
  PROVE  ForcedIncluded'
<1>1. /\ UNCHANGED program /\ Recorded \subseteq Recorded'
      /\ InclusionDirective \/ Recorded' = Recorded
  BY RecordedStays
<1>2. CASE Reads
  BY <1>1, <1>2, ForcedRead
<1>3. CASE EnterSource
  <2>1. ~InclusionDirective
    <3>1. InclusionDirective => phase = "preprocess"
      BY InclusionDirectiveGuard DEF IncludingFile, Lexing, Preprocessing
    <3> QED BY <1>3, <3>1 DEF EnterSource, MoreSources
  <2> QED BY <1>1, <1>3, <2>1, ForcedEntered
<1>4. CASE Leaves
  <2>1. phase = "preprocess" /\ UNCHANGED <<phase, started, predefines>>
    BY <1>4, FileLeft DEF Preprocessing
  <2> QED BY <1>1, <2>1, ForcedKept DEF ForcedIncluded
<1>5. CASE EnterFile \/ IfOrIfndef
  <2>1. phase = "preprocess" /\ UNCHANGED <<phase, started, predefines>>
    BY <1>5, EnterStep
  <2> QED BY <1>1, <2>1, ForcedKept DEF ForcedIncluded
<1>6. CASE EndOfMainFile
  <2>1. UNCHANGED <<started, predefines, frames>>
    BY <1>6, EndStep
  <2>2. Remaining = <<>> /\ Len(frames) = 1
    BY <1>6 DEF EndOfMainFile
  <2>3. predefines = <<>> /\ Head(frames).rest = <<>>
    BY <2>2 DEF Remaining, InPredefines
  <2>4. Head(frames) = frames[1]
    BY <1>6, Back DEF EndOfMainFile, Preprocessing
  <2> QED BY <1>1, <2>1, <2>3, <2>4, ForcedKept DEF ForcedIncluded
<1>7. CASE EndSourceFileAction
  <2>1. /\ phase = "end" /\ phase' = "idle" /\ UNCHANGED <<started, predefines>>
    BY <1>7 DEF EndSourceFileAction
  <2>2. predefines = <<>>
    BY <2>1 DEF PlainInv, ForcedIncluded
  <2> QED BY <1>1, <2>1, <2>2, ForcedKept DEF ForcedIncluded
<1>8. CASE FileSkipped
  <2>1. UNCHANGED <<phase, started, predefines, frames>>
    BY <1>8, EndStep
  <2> QED BY <1>1, <2>1, ForcedKept DEF ForcedIncluded, PlainInv
<1>9. CASE Finish
  <2>1. /\ phase = "idle" /\ phase' = "finished"
        /\ UNCHANGED <<started, predefines>>
    BY <1>9, EndStep
  <2>2. predefines = <<>>
    BY <2>1 DEF PlainInv, ForcedIncluded
  <2> QED BY <1>1, <2>1, <2>2, ForcedKept DEF ForcedIncluded
<1>10. CASE Quiet
  <2>1. UNCHANGED <<phase, started, predefines, frames>>
    BY <1>10, QuietStep
  <2> QED BY <1>1, <2>1, ForcedKept DEF ForcedIncluded, PlainInv
<1> QED BY <1>2, <1>3, <1>4, <1>5, <1>6, <1>7, <1>8, <1>9, <1>10, StepKinds

LEMMA DirectivesStay ==
  ASSUME IInv, IInv', EdgesCounted, Plain(program), PlainInv, [Next]_vars
  PROVE  OnlyDirectives'
<1>1. UNCHANGED program /\ Recorded \subseteq Recorded'
  BY RecordedStays
<1>2. Directives' = Directives
  BY <1>1 DEF Directives, FilesIncludedBy, EffectiveScript
<1>3. CASE InclusionDirective
  <2>1. Preprocessing /\ Remaining # <<>> /\ Reads
    BY <1>3, ReadsItem DEF Reads
  <2>2. /\ Head(Remaining).op = "include"
        /\ Head(Remaining).file \notin program.absent
    BY <1>3, <2>1, ReadStep
  <2>3. <<frames[1].file, Head(Remaining).file>> \in Directives
    BY <2>1, <2>2, NextPlainItem DEF PlainInv
  <2>4. Head(frames) = frames[1]
    BY <2>1, Back DEF Preprocessing
  <2> QED BY <1>2, <1>3, <2>3, <2>4, InclusionRecords DEF PlainInv, OnlyDirectives
<1>4. CASE ~InclusionDirective
  BY <1>2, <1>4, RecordedStays DEF PlainInv, OnlyDirectives
<1> QED BY <1>3, <1>4

LEMMA FramesStayPlain ==
  ASSUME IInv, IInv', EdgesCounted, ReplacementsKnown, Plain(program), PlainInv,
         [Next]_vars
  PROVE  FramesPlain'
<1>1. Recorded \subseteq Recorded' /\ (InclusionDirective \/ Recorded' = Recorded)
  BY RecordedStays
<1>2. CASE Reads
  BY <1>1, <1>2, ReadFrames
<1>3. CASE ~Reads
  <2>1. Recorded' = Recorded
    BY <1>1, <1>3 DEF Reads
  <2>2. CASE EndSourceFileAction
    <3>1. frames' = <<>>
      BY <2>2 DEF EndSourceFileAction
    <3> QED BY <3>1 DEF FramesPlain, ReadsContents, GuardFirst, FramesComplete
  <2>3. CASE FileSkipped \/ EndOfMainFile \/ Finish
    BY <2>1, <2>3, EndStep, FramesUntouched
  <2>4. CASE Quiet
    BY <2>1, <2>4, QuietStep, FramesUntouched
  <2> QED BY <1>3, <2>1, <2>2, <2>3, <2>4, StepKinds, ConditionalFrames,
             EnterFileFrames, LeaveFrames, EnterSourceFrames
<1> QED BY <1>2, <1>3

-----------------------------------------------------------------------------
(* What a step does to the vertices. *)

LEMMA KnownFiles ==
  /\ Promise!Known =
       {program.sources[i] : i \in 1..started} \cup {d[2] : d \in Recorded}
  /\ Promise!Known' =
       {program'.sources[i] : i \in 1..started'} \cup {d[2] : d \in Recorded'}
BY DEF Promise!Known

LEMMA StartedStep ==
  ASSUME IInv, [Next]_vars
  PROVE  \/ UNCHANGED started
         \/ EnterSource /\ started' = started + 1 /\ started \in Nat
<1>1. CASE EnterSource
  BY <1>1 DEF EnterSource, IInv, TypeOK
<1>2. CASE Reads
  BY <1>2, ReadsItem
<1>3. CASE Leaves
  BY <1>3, FileLeft
<1>4. CASE EndSourceFileAction
  BY <1>4 DEF EndSourceFileAction
<1> QED BY <1>1, <1>2, <1>3, <1>4, StepKinds, QuietStep, EndStep, EnterStep

LEMMA KnownGrows ==
  ASSUME IInv, IInv', EdgesCounted, [Next]_vars
  PROVE  Promise!Known \subseteq Promise!Known'
<1>1. UNCHANGED program /\ Recorded \subseteq Recorded'
  BY RecordedStays
<1>2. 1..started \subseteq 1..started'
  BY StartedStep
<1> QED BY <1>1, <1>2, KnownFiles

(* The vertex of the file that is left gets its cost and, if it is         *)
(* guarded, its mark; only a directive and a new source add a vertex.      *)
Marked(v) ==
  /\ v = BackState.v /\ nodes'[v].path = nodes[v].path
  /\ \/ ExitGuardedFirst
     \/ EndOfMainFile /\ nodes'[v].is_guarded = nodes[v].is_guarded

LEMMA VertexStep ==
  ASSUME IInv, [Next]_vars
  PROVE  /\ \A v \in DOMAIN nodes :
              v \in DOMAIN nodes' /\ (SameFile(nodes'[v], nodes[v]) \/ Marked(v))
         /\ \A v \in DOMAIN nodes' \ DOMAIN nodes :
              \/ InclusionDirective /\ NewFile(nodes'[v], Head(Remaining).file)
              \/ EnterSource /\ NewFile(nodes'[v], NextSource)
<1>1. CASE InclusionDirective
  BY <1>1, InclusionVertices
<1>2. CASE EnterSource
  <2> DEFINE new == FileNode(NextSource, FALSE, FALSE)
  <2>1. NewFile(new, NextSource)
    BY DEF FileNode, NewFile
  <2>2. nodes' = Append(nodes, new) /\ nodes \in Seq(Node)
    BY <1>2 DEF EnterSource, IInv, TypeOK
  <2> HIDE DEF new
  <2>3. /\ DOMAIN nodes' = DOMAIN nodes \cup {Len(nodes) + 1}
        /\ \A v \in DOMAIN nodes : nodes'[v] = nodes[v]
        /\ nodes'[Len(nodes) + 1] = new
    BY <2>2
  <2> QED BY <1>2, <2>1, <2>3 DEF SameFile
<1>3. CASE ExitGuardedFirst \/ EndOfMainFile
  <2> DEFINE b == BackState.v
             guarded == [nodes[b] EXCEPT !.is_guarded = TRUE,
                                         !.underlying_cost = LeavingCost]
             costed == [nodes[b] EXCEPT !.underlying_cost = LeavingCost]
  <2>1. b \in DOMAIN nodes /\ nodes[b] \in Node /\ nodes \in Seq(Node)
    BY <1>3, Back DEF ExitGuardedFirst, EndOfMainFile, LeavingFile,
                      Preprocessing, IInv, TypeOK
  <2>2. /\ guarded.path = nodes[b].path /\ costed.path = nodes[b].path
        /\ costed.is_guarded = nodes[b].is_guarded
    BY <2>1 DEF Node
  <2>3. \/ ExitGuardedFirst /\ nodes' = [nodes EXCEPT ![b] = guarded]
        \/ EndOfMainFile /\ nodes' = [nodes EXCEPT ![b] = costed]
    BY <1>3, <2>1 DEF ExitGuardedFirst, EndOfMainFile, MarkedGuarded
  <2> HIDE DEF guarded, costed, b
  <2>4. \A x : /\ DOMAIN [nodes EXCEPT ![b] = x] = DOMAIN nodes
               /\ \A v \in DOMAIN nodes :
                    [nodes EXCEPT ![b] = x][v] = IF v = b THEN x ELSE nodes[v]
    BY <2>1
  <2> QED BY <2>1, <2>2, <2>3, <2>4 DEF Marked, SameFile, b
<1>4. CASE nodes' = nodes
  BY <1>4 DEF SameFile
<1>5. CASE Reads /\ ~InclusionDirective
  BY <1>4, <1>5, ReadStep
<1>6. CASE ExitUnguarded \/ ExitGuardedAgain
  BY <1>4, <1>6 DEF ExitUnguarded, ExitGuardedAgain
<1>7. CASE EndSourceFileAction
  BY <1>4, <1>7 DEF EndSourceFileAction, resultVars
<1>8. CASE FileSkipped \/ Finish
  BY <1>4, <1>8, EndStep
<1> QED BY <1>1, <1>2, <1>3, <1>4, <1>5, <1>6, <1>7, <1>8, StepKinds, QuietStep,
           EnterStep DEF Leaves

-----------------------------------------------------------------------------
(* Every file that clang has met is covered. *)

(* A file that is opened has its own frame.                                *)
LEMMA OpenedCovered ==
  ASSUME IInv, IInv', EdgesCounted, ReplacementsKnown, PlainInv, [Next]_vars,
         EnterFile \/ EnterSource,
         NEW f, f = frames'[1].file
  PROVE  Covered(f)'
<1>1. UNCHANGED program /\ Recorded \subseteq Recorded'
  BY RecordedStays
<1>2. 1 \in DOMAIN frames' /\ f \in File /\ frames'[1].rest = Contents(f)
  <2>1. CASE EnterFile
    BY <2>1, FileEntered
  <2>2. CASE EnterSource
    <3> DEFINE frame == [file |-> NextSource, rest |-> Contents(NextSource),
                         candidate |-> FALSE]
    <3>1. frames' = <<frame>>
      BY <2>2 DEF EnterSource
    <3>2. NextSource \in File
      <4>1. program.sources \in Seq(File)
        BY ProgramFields DEF IInv, TypeOK
      <4> QED BY <2>2, <4>1 DEF EnterSource, MoreSources, NextSource, IInv, TypeOK
    <3> QED BY <3>1, <3>2
  <2> QED BY <2>1, <2>2
<1>3. ASSUME NEW d \in Included(f)
      PROVE  <<f, d>> \in Recorded' \/ Include(d) \in ToSet(frames'[1].rest)
  BY <1>1, <1>2, OpenedComplete
<1>4. Included(f)' = Included(f)
  BY <1>1 DEF Included
<1> QED BY <1>2, <1>3, <1>4 DEF Covered, Ahead

(* A file that defines its guard has no conditional before what is left.   *)
LEMMA GuardDefined ==
  ASSUME IInv, IInv', EdgesCounted, Plain(program), PlainInv, [Next]_vars,
         MacroDefined, NEW f \in macros' \cap File, f \notin macros
  PROVE  CoveredPast(f)'
<1>1. /\ Preprocessing /\ Remaining # <<>> /\ Advance
      /\ Head(Remaining).op = "define"
      /\ macros' = macros \cup {Head(Remaining).macro}
  <2>1. Reads
    BY DEF Reads
  <2> QED BY <2>1, ReadsItem DEF MacroDefined, Lexing
<1>2. f = frames[1].file
  BY <1>1, NextPlainItem DEF PlainInv
<1>3. ~InPredefines
  BY <1>1, NextPlainItem DEF PlainInv
<1>4. /\ 1 \in DOMAIN frames /\ DOMAIN frames' = DOMAIN frames
      /\ frames'[1].file = f
      /\ frames[1].rest \in Seq(Item) /\ frames[1].rest # <<>>
      /\ frames'[1].rest = Tail(frames[1].rest)
      /\ ToSet(frames[1].rest) = {Head(Remaining)} \cup ToSet(frames'[1].rest)
  BY <1>1, <1>2, <1>3, ItemRead
<1>5. Unconditional(frames'[1].rest)
  <2> SUFFICES ASSUME NEW j \in DOMAIN frames'[1].rest
               PROVE  frames'[1].rest[j].op \notin Conditional
    BY DEF Unconditional
  <2>1. /\ j + 1 \in DOMAIN frames[1].rest /\ j + 1 # 1
        /\ frames'[1].rest[j] = frames[1].rest[j + 1]
    BY <1>4, TailItems
  <2> QED BY <1>4, <2>1 DEF PlainInv, GuardFirst
<1>6. UNCHANGED program /\ Recorded \subseteq Recorded'
  BY RecordedStays
<1>7. ASSUME NEW d \in Included(f)
      PROVE  <<f, d>> \in Recorded' \/ Include(d) \in ToSet(frames'[1].rest)
  <2>1. <<f, d>> \in Recorded \/ Include(d) \in ToSet(frames[1].rest)
    BY <1>2, <1>4 DEF PlainInv, FramesComplete, Dropped
  <2>2. Include(d) # Head(Remaining)
    BY <1>1 DEF Include
  <2> QED BY <1>4, <1>6, <2>1, <2>2
<1>8. Included(f)' = Included(f)
  BY <1>6 DEF Included
<1> QED BY <1>4, <1>5, <1>7, <1>8 DEF CoveredPast, Ahead, Unconditional

(* A guarded file is left when all its directives are in the graph.        *)
LEMMA GuardedRecorded ==
  ASSUME IInv, PlainInv, ExitGuardedFirst
  PROVE  AllRecorded(frames[1].file)
<1>1. Leaves
  BY DEF Leaves
<1>2. frames[1].rest = <<>> /\ 1 \in DOMAIN frames /\ Head(frames) = frames[1]
  BY <1>1, FileLeft
<1>3. ~Dropped(1)
  <2>1. \/ frames[1].file \in once
        \/ frames[1].file \in Controlling
    BY <1>2 DEF ExitGuardedFirst, Guarded
  <2> QED BY <1>2, <2>1 DEF Dropped, Controlling
<1>4. ToSet(frames[1].rest) = {}
  BY <1>2 DEF ToSet
<1> QED BY <1>2, <1>3, <1>4 DEF PlainInv, FramesComplete, AllRecorded

LEMMA OnceAndControlling ==
  ASSUME IInv, [Next]_vars
  PROVE  \A f \in once' \cup controlling' :
           \/ f \in once \cup controlling
           \/ 1 \in DOMAIN frames /\ f = frames[1].file
<1>1. CASE PragmaOnce
  <2>1. Reads
    BY <1>1 DEF Reads
  <2>2. Head(frames) = frames[1] /\ 1 \in DOMAIN frames
    BY <1>1, Back DEF PragmaOnce, Lexing, Preprocessing
  <2> QED BY <1>1, <2>1, <2>2, ReadsItem DEF PragmaOnce
<1>2. CASE Reads /\ ~PragmaOnce
  <2>1. controlling' = controlling
    BY <1>2, ReadsItem
  <2>2. once' = once
    <3>1. CASE InclusionDirective \/ InclusionFromDone
      BY <1>2, <3>1, ReadStep
    <3>2. CASE ~(InclusionDirective \/ InclusionFromDone)
      BY <1>2, <3>2 DEF Reads, LexTokens, SkipExcluded, PragmaDirective,
                        MacroDefined, MacroUndefined, MissingInclude
    <3> QED BY <3>1, <3>2
  <2> QED BY <2>1, <2>2
<1>3. CASE Leaves
  BY <1>3, FileLeft
<1>4. CASE EnterSource \/ EndSourceFileAction
  BY <1>4 DEF EnterSource, EndSourceFileAction
<1> QED BY <1>1, <1>2, <1>3, <1>4, StepKinds, QuietStep, EndStep, EnterStep

LEMMA MacrosDefined ==
  ASSUME IInv, Plain(program), [Next]_vars, ~MacroDefined
  PROVE  macros' \cap File \subseteq macros
<1>1. CASE EnterSource
  BY <1>1 DEF EnterSource, Plain
<1>2. CASE Reads
  <2>1. CASE InclusionDirective \/ InclusionFromDone
    BY <1>2, <2>1, ReadStep
  <2>2. CASE ~(InclusionDirective \/ InclusionFromDone)
    BY <1>2, <2>2 DEF Reads, LexTokens, SkipExcluded, PragmaDirective, PragmaOnce,
                      MacroUndefined, MissingInclude
  <2> QED BY <2>1, <2>2
<1>3. CASE Leaves
  BY <1>3, FileLeft
<1>4. CASE EndSourceFileAction
  BY <1>4 DEF EndSourceFileAction
<1> QED BY <1>1, <1>2, <1>3, <1>4, StepKinds, QuietStep, EndStep, EnterStep

(* A file that is about to be entered is met when it is entered, or it is  *)
(* skipped because it has been met.                                        *)
LEMMA PendingMet ==
  ASSUME IInv, [Next]_vars, pending # NoFile, pending' # pending
  PROVE  \/ EnterFile /\ frames'[1].file = pending
         \/ pending \in once \cup controlling
<1>1. phase = "preprocess" /\ ~Preprocessing
  BY DEF IInv, ScanState, Preprocessing
<1>2. CASE EnterFile
  BY <1>2, FileEntered
<1>3. CASE FileSkipped
  BY <1>3 DEF FileSkipped, ShouldEnter
<1>4. CASE Reads
  BY <1>1, <1>4, ReadsItem
<1>5. CASE Leaves
  BY <1>1, <1>5, FileLeft
<1>6. CASE IfOrIfndef
  BY <1>1, <1>6 DEF IfOrIfndef, Lexing
<1>7. CASE EndOfMainFile \/ EnterSource \/ EndSourceFileAction \/ Finish
  BY <1>1, <1>7
  DEF EndOfMainFile, EnterSource, MoreSources, EndSourceFileAction, Finish
<1> QED BY <1>2, <1>3, <1>4, <1>5, <1>6, <1>7, StepKinds, QuietStep

LEMMA FramesStayCovered ==
  ASSUME IInv, IInv', EdgesCounted, ReplacementsKnown, Plain(program), PlainInv,
         [Next]_vars
  PROVE  \A f : \A i \in DOMAIN frames' : f = frames'[i].file => Covered(f)'
<1>1. \A i \in DOMAIN frames : Carries(i)
  BY StepCarries
<1>2. UNCHANGED program /\ Recorded \subseteq Recorded'
  BY RecordedStays
<1>3. \A f : \A i \in DOMAIN frames : f = frames[i].file => Covered(f)'
  BY <1>1, <1>2, CoveredStays DEF PlainInv, FilesCovered
<1>4. CASE SameFiles
  BY <1>3, <1>4 DEF SameFiles
<1>5. CASE EnterFile
  <2>1. \A i \in DOMAIN frames' :
          i # 1 => i - 1 \in DOMAIN frames /\ frames'[i] = frames[i - 1]
    BY <1>5, FileEntered
  <2> QED BY <1>3, <1>5, <2>1, OpenedCovered
<1>6. CASE Leaves
  <2>1. \A i \in DOMAIN frames' :
          i + 1 \in DOMAIN frames /\ frames'[i] = frames[i + 1]
    BY <1>6, FileLeft
  <2> QED BY <1>3, <2>1
<1>7. CASE EnterSource
  <2>1. DOMAIN frames' = {1}
    BY <1>7 DEF EnterSource
  <2> QED BY <1>7, <2>1, OpenedCovered
<1>8. CASE EndSourceFileAction
  BY <1>8 DEF EndSourceFileAction
<1> QED BY <1>4, <1>5, <1>6, <1>7, <1>8, StackStep

LEMMA VerticesStayCovered ==
  ASSUME IInv, IInv', EdgesCounted, ReplacementsKnown, Plain(program), PlainInv,
         [Next]_vars, NEW v \in DOMAIN nodes', NEW f, f = nodes'[v].path
  PROVE  /\ f \in Promise!Known'
         /\ f = pending' \/ Covered(f)'
         /\ nodes'[v].is_guarded => AllRecorded(f)'
<1>1. \A i \in DOMAIN frames : Carries(i)
  BY StepCarries
<1>2. UNCHANGED program /\ Recorded \subseteq Recorded'
  BY RecordedStays
<1>3. CASE v \in DOMAIN nodes
  <2>1. f = nodes[v].path
    BY <1>3, RecordedStays
  <2>2. f \in Promise!Known /\ (f = pending \/ Covered(f))
    BY <1>3, <2>1 DEF PlainInv, FilesCovered
  <2>3. f \in Promise!Known'
    BY <2>2, KnownGrows
  <2>4. f = pending' \/ Covered(f)'
    <3>1. CASE Covered(f)
      BY <1>1, <1>2, <3>1, CoveredStays
    <3>2. CASE f = pending /\ pending' # pending
      <4>1. pending # NoFile
        <5>1. nodes[v] \in Node
          BY <1>3 DEF IInv, TypeOK
        <5>2. f \in File
          BY <2>1, <5>1 DEF Node
        <5> QED BY <3>2, <5>2, NoFileAssumption
      <4>2. CASE EnterFile /\ frames'[1].file = pending
        BY <3>2, <4>2, OpenedCovered
      <4>3. CASE pending \in once \cup controlling
        BY <1>1, <1>2, <3>2, <4>3, CoveredStays DEF PlainInv, FilesCovered
      <4> QED BY <3>2, <4>1, <4>2, <4>3, PendingMet
    <3> QED BY <2>2, <3>1, <3>2
  <2>5. ASSUME nodes'[v].is_guarded PROVE AllRecorded(f)'
    <3>1. AllRecorded(f)
      <4>1. CASE SameFile(nodes'[v], nodes[v])
        BY <1>3, <2>1, <2>5, <4>1 DEF SameFile, PlainInv, FilesCovered
      <4>2. CASE Marked(v) /\ ExitGuardedFirst
        <5>1. nodes[v].path = frames[1].file
          BY <4>2, Back DEF Marked, ExitGuardedFirst, LeavingFile, Preprocessing
        <5> QED BY <2>1, <4>2, <5>1, GuardedRecorded
      <4>3. CASE Marked(v) /\ ~ExitGuardedFirst
        BY <1>3, <2>1, <2>5, <4>3 DEF Marked, PlainInv, FilesCovered
      <4> QED BY <1>3, <4>1, <4>2, <4>3, VertexStep
    <3> QED BY <1>1, <1>2, <3>1, CoveredStays
  <2> QED BY <2>3, <2>4, <2>5
<1>4. CASE v \notin DOMAIN nodes
  <2>1. CASE InclusionDirective /\ NewFile(nodes'[v], Head(Remaining).file)
    <3>1. f = Head(Remaining).file /\ ~nodes'[v].is_guarded
      BY <2>1 DEF NewFile
    <3>2. Reads
      BY <2>1 DEF Reads
    <3>3. pending' = f
      BY <2>1, <3>1, <3>2, ReadStep
    <3>4. <<Head(frames).file, f>> \in Recorded'
      BY <2>1, <3>1, InclusionRecords
    <3>5. f \in {d[2] : d \in Recorded'}
      BY <3>4
    <3> QED BY <3>1, <3>3, <3>5, KnownFiles
  <2>2. CASE EnterSource /\ NewFile(nodes'[v], NextSource)
    <3>1. f = NextSource /\ ~nodes'[v].is_guarded
      BY <2>2 DEF NewFile
    <3>2. started' = started + 1 /\ started \in Nat /\ frames'[1].file = f
      BY <2>2, <3>1 DEF EnterSource, IInv, TypeOK
    <3>3. started' \in 1..started' /\ f = program'.sources[started']
      BY <1>2, <3>1, <3>2 DEF NextSource
    <3> QED BY <2>2, <3>1, <3>2, <3>3, KnownFiles, OpenedCovered
  <2> QED BY <1>4, <2>1, <2>2, VertexStep
<1> QED BY <1>3, <1>4

LEMMA FilesStayCovered ==
  ASSUME IInv, IInv', EdgesCounted, ReplacementsKnown, Plain(program), PlainInv,
         [Next]_vars
  PROVE  FilesCovered'
<1>1. \A i \in DOMAIN frames : Carries(i)
  BY StepCarries
<1>2. UNCHANGED program /\ Recorded \subseteq Recorded'
  BY RecordedStays
<1>3. ASSUME NEW f \in once' \cup controlling' PROVE Covered(f)'
  <2>1. Covered(f)
    BY OnceAndControlling DEF PlainInv, FilesCovered
  <2> QED BY <1>1, <1>2, <2>1, CoveredStays
<1>4. ASSUME NEW f \in macros' \cap File PROVE CoveredPast(f)'
  <2>1. CASE f \in macros
    <3>1. CoveredPast(f)
      BY <2>1 DEF PlainInv, FilesCovered
    <3> QED BY <1>1, <1>2, <3>1, CoveredStays
  <2>2. CASE f \notin macros
    BY <2>2, MacrosDefined, GuardDefined
  <2> QED BY <2>1, <2>2
<1>5. \A f : \A v \in DOMAIN nodes' : f = nodes'[v].path =>
        /\ f \in Promise!Known'
        /\ f = pending' \/ Covered(f)'
        /\ nodes'[v].is_guarded => AllRecorded(f)'
  BY VerticesStayCovered
<1>6. \A f : \A i \in DOMAIN frames' : f = frames'[i].file => Covered(f)'
  BY FramesStayCovered
<1> QED BY <1>3, <1>4, <1>5, <1>6 DEF FilesCovered

-----------------------------------------------------------------------------
(* A header has no cost and no mark before its first visit ends. *)

LEMMA NewEntry ==
  ASSUME IInv, Plain(program), PlainInv, [Next]_vars, ~EndSourceFileAction,
         NEW u \in DOMAIN id_to_node' \ DOMAIN id_to_node
  PROVE  id_to_node'[u].v = Len(nodes) + 1
<1>1. CASE InclusionDirective
  BY <1>1, InclusionEntries
<1>2. CASE EnterSource
  BY <1>2, StartedEntries
<1>3. CASE MacroDefined \/ MacroUndefined
  BY <1>3, MacroStepKept
<1>4. CASE ExitUnguarded \/ ExitGuardedFirst
  <2>1. id_to_node' = MarkedProcessed /\ phase = "preprocess"
    BY <1>4 DEF ExitUnguarded, ExitGuardedFirst, LeavingFile, Preprocessing
  <2> QED BY <2>1, ProcessedEntries
<1> QED BY <1>1, <1>2, <1>3, <1>4, EntriesUntouched

LEMMA MarkedIsTop ==
  ASSUME IInv, phase = "preprocess", NEW u \in DOMAIN id_to_node,
         id_to_node[u].v = BackState.v
  PROVE  u = Head(m_stack).id /\ u[1] = frames[1].file
<1>1. /\ Head(m_stack).id \in DOMAIN id_to_node
      /\ BackState = id_to_node[Head(m_stack).id]
      /\ Head(frames) = frames[1] /\ nodes[BackState.v].path = Head(frames).file
      /\ Head(m_stack).id = UniqueIDOf(Head(frames).file)
  BY Back DEF BackState
<1>2. u = UniqueIDOf(u[1]) /\ nodes[id_to_node[u].v].path = u[1]
  BY DEF IInv, VerticesIdentified
<1> QED BY <1>1, <1>2

LEMMA CostsStayOnce ==
  ASSUME IInv, IInv', Plain(program), PlainInv, [Next]_vars, UNCHANGED program
  PROVE  CostedOnce'
<1> SUFFICES ASSUME NEW u \in DOMAIN id_to_node', ~id_to_node'[u].fully_processed
             PROVE  /\ ~nodes'[id_to_node'[u].v].is_guarded
                    /\ u[1] \notin ToSet(program.sources) =>
                         nodes'[id_to_node'[u].v].underlying_cost = ZeroCost
  BY DEF CostedOnce
<1>1. CASE EndSourceFileAction
  <2>1. PICK w \in DOMAIN id_to_node : id_to_node'[u] = id_to_node[w] /\ w[1] = u[1]
    BY <1>1, MovedEntry
  <2>2. nodes' = nodes
    BY <1>1 DEF EndSourceFileAction, resultVars
  <2> QED BY <2>1, <2>2 DEF PlainInv, CostedOnce
<1>2. CASE ~EndSourceFileAction /\ u \in DOMAIN id_to_node
  <2>1. /\ id_to_node'[u].v = id_to_node[u].v
        /\ ~id_to_node[u].fully_processed
    BY <1>2, StepGrows DEF GraphGrows, EntriesGrow
  <2> DEFINE v == id_to_node[u].v
  <2>2. v \in DOMAIN nodes
    BY <1>2 DEF IInv, VerticesIdentified
  <2>3. /\ ~nodes[v].is_guarded
        /\ u[1] \notin ToSet(program.sources) => nodes[v].underlying_cost = ZeroCost
    BY <1>2, <2>1 DEF PlainInv, CostedOnce
  <2> HIDE DEF v
  <2>4. CASE SameFile(nodes'[v], nodes[v])
    BY <2>1, <2>3, <2>4 DEF SameFile, v
  <2>5. CASE Marked(v)
    <3>1. phase = "preprocess"
      BY <2>5 DEF Marked, ExitGuardedFirst, EndOfMainFile, LeavingFile, Preprocessing
    <3>2. u = Head(m_stack).id /\ u[1] = frames[1].file
      BY <1>2, <2>5, <3>1, MarkedIsTop DEF Marked, v
    <3>3. ~ExitGuardedFirst
      <4>1. ExitGuardedFirst => id_to_node' = MarkedProcessed
        BY DEF ExitGuardedFirst
      <4> QED BY <1>2, <3>1, <3>2, <4>1, ProcessedEntries
    <3>4. EndOfMainFile /\ nodes'[v].is_guarded = nodes[v].is_guarded
      BY <2>5, <3>3 DEF Marked
    <3>5. u[1] \in ToSet(program.sources)
      BY <3>1, <3>2, <3>4, MainIsSource DEF EndOfMainFile, PlainInv
    <3> QED BY <2>1, <2>3, <3>4, <3>5 DEF v
  <2> QED BY <2>2, <2>4, <2>5, VertexStep
<1>3. CASE ~EndSourceFileAction /\ u \notin DOMAIN id_to_node
  <2>1. id_to_node'[u].v = Len(nodes) + 1
    BY <1>3, NewEntry
  <2>2. Len(nodes) + 1 \notin DOMAIN nodes
    BY DEF IInv, TypeOK
  <2>3. id_to_node'[u].v \in DOMAIN nodes' \ DOMAIN nodes
    BY <2>1, <2>2 DEF IInv, VerticesIdentified
  <2> QED BY <2>3, VertexStep DEF NewFile
<1> QED BY <1>1, <1>2, <1>3

LEMMA PlainInvKept ==
  ASSUME IInv, IInv', EdgesCounted, ReplacementsKnown, Plain(program), PlainInv,
         [Next]_vars
  PROVE  Plain(program)' /\ PlainInv'
<1>1. UNCHANGED program
  BY RecordedStays
<1>2. Plain(program)'
  BY <1>1 DEF Plain
<1> QED BY <1>1, <1>2, KeepsMacros, FramesStayPlain, SourcesStayMain,
           ForcedStayIncluded, DirectivesStay, FilesStayCovered, CostsStayOnce
        DEF PlainInv, FramesPlain

LEMMA PlainInvInitially ==
  ASSUME Init
  PROVE  PlainInv
<1>1. program \in Program
  BY ProgramsAssumption DEF Init
<1>2. program.sources \in Seq(File)
  BY <1>1, ProgramFields
<1>3. NoFile \notin ToSet(program.sources) /\ Len(program.sources) \in Nat
  BY <1>2, NoFileAssumption DEF ToSet
<1>4. /\ DOMAIN frames = {} /\ DOMAIN id_to_node = {} /\ DOMAIN nodes = {}
      /\ DOMAIN overwrites = {} /\ DOMAIN m_needs_replacing = {}
      /\ predefines = <<>> /\ ToSet(predefines) = {} /\ Recorded = {}
      /\ pending = NoFile /\ phase = "idle" /\ started = 0 /\ 1..started = {}
      /\ once = {} /\ controlling = {} /\ macros = {}
  BY DEF Init, ToSet, Recorded
<1>5. ReplacementsKeepMacros /\ ReadsContents /\ GuardFirst /\ FramesComplete
  BY <1>4 DEF ReplacementsKeepMacros, ReadsContents, GuardFirst, FramesComplete
<1>6. SourcesAreMain
  BY <1>3, <1>4 DEF SourcesAreMain
<1>7. ForcedIncluded
  BY <1>4 DEF ForcedIncluded
<1>8. OnlyDirectives /\ FilesCovered /\ CostedOnce
  BY <1>4 DEF OnlyDirectives, FilesCovered, CostedOnce
<1> QED BY <1>5, <1>6, <1>7, <1>8 DEF PlainInv

LEMMA PlainInvariant ==
  Spec /\ Plain(program) => [](Plain(program) /\ PlainInv)
<1>1. Init => PlainInv
  BY PlainInvInitially
<1>2. IInv /\ IInv' /\ EdgesCounted /\ ReplacementsKnown
        /\ (Plain(program) /\ PlainInv) /\ [Next]_vars
        => (Plain(program) /\ PlainInv)'
  BY PlainInvKept
<1> QED BY <1>1, <1>2, InductiveInvariant, EdgesAlwaysCounted,
           ReplacementsAlwaysKnown, PTL DEF Spec

-----------------------------------------------------------------------------
(* What follows for a plain program. *)

(* A file that is the end of a directive in the graph has its entry.       *)
LEMMA RecordedIsKnown ==
  ASSUME IInv, EdgesCounted, NEW f, NEW d, <<f, d>> \in Recorded
  PROVE  /\ UniqueIDOf(d) \in DOMAIN id_to_node
         /\ \E v \in DOMAIN nodes : nodes[v].path = d
<1>1. PICK e \in edges : nodes[e.to].path = d
  BY DEF Recorded
<1>2. e.to \in DOMAIN nodes
  BY DEF EdgesCounted, CountsEdges
<1>3. PICK u \in DOMAIN id_to_node : id_to_node[u].v = e.to
  BY <1>2 DEF IInv, VerticesIdentified
<1>4. u = UniqueIDOf(u[1]) /\ u[1] = d
  BY <1>1, <1>3 DEF IInv, VerticesIdentified
<1> QED BY <1>1, <1>2, <1>3, <1>4

LEMMA SourceIsNew ==
  ASSUME IInv, Plain(program), PlainInv, MoreSources
  PROVE  UniqueIDOf(NextSource) \notin DOMAIN id_to_node
<1> SUFFICES ASSUME UniqueIDOf(NextSource) \in DOMAIN id_to_node PROVE FALSE
  OBVIOUS
<1>1. program \in Program /\ program.sources \in Seq(File) /\ started \in Nat
  BY ProgramFields DEF IInv, TypeOK
<1>2. /\ started + 1 \in DOMAIN program.sources
      /\ NextSource = program.sources[started + 1] /\ NextSource \in File
      /\ 1..started \subseteq DOMAIN program.sources
  BY <1>1 DEF MoreSources, NextSource
<1>3. NextSource \in ToSet(program.sources)
  BY <1>2 DEF ToSet
<1>4. PICK v \in DOMAIN nodes : nodes[v].path = NextSource
  BY <1>2, UniqueIDTyped DEF IInv, VerticesIdentified
<1>5. NextSource \in Promise!Known
  BY <1>4 DEF PlainInv, FilesCovered
<1>6. ASSUME NEW k \in 1..started, NextSource = program.sources[k] PROVE FALSE
  <2>1. k # started + 1 /\ k \in DOMAIN program.sources
    BY <1>1, <1>2
  <2> QED BY <1>2, <1>6, <2>1 DEF Plain, IsInjective
<1>7. ASSUME NEW d \in Recorded, NextSource = d[2] PROVE FALSE
  <2>1. d \in Directives
    BY DEF PlainInv, OnlyDirectives
  <2>2. PICK f \in File : \E g \in FilesIncludedBy(f) : d = <<f, g>>
    BY <2>1 DEF Directives
  <2>3. d = <<f, NextSource>>
    BY <1>7, <2>2
  <2> QED BY <1>1, <1>3, <2>1, <2>2, <2>3, DirectivesKnown
<1> QED BY <1>5, <1>6, <1>7, KnownFiles

(* A processed guarded file includes nothing new.                          *)
LEMMA DoneIncludesKnown ==
  ASSUME IInv, EdgesCounted, Plain(program), PlainInv, IncludingFile, IncluderDone
  PROVE  UniqueIDOf(Head(Remaining).file) \in DOMAIN id_to_node
<1> DEFINE d == Head(Remaining).file
<1>1. /\ Preprocessing /\ Remaining # <<>> /\ phase = "preprocess"
      /\ Head(Remaining).op = "include" /\ d \notin program.absent
  BY DEF IncludingFile, Lexing, Preprocessing
<1>2. /\ Head(frames) = frames[1] /\ BackState.v \in DOMAIN nodes
      /\ nodes[BackState.v].path = frames[1].file
  BY <1>1, Back
<1>3. AllRecorded(frames[1].file)
  BY <1>2 DEF IncluderDone, PlainInv, FilesCovered
<1>4. ~InPredefines
  BY <1>1, <1>2, NextPlainItem, SourceNotProcessed DEF IncluderDone, PlainInv
<1>5. d \in Included(frames[1].file)
  BY <1>1, <1>4, NextPlainItem DEF PlainInv
<1>6. <<frames[1].file, d>> \in Recorded
  BY <1>3, <1>5 DEF AllRecorded
<1> QED BY <1>6, RecordedIsKnown

LEMMA CostUnset ==
  ASSUME IInv, PlainInv, LeavingFile, ~BackState.fully_processed
  PROVE  /\ nodes[BackState.v].underlying_cost = ZeroCost
         /\ ~nodes[BackState.v].is_guarded
<1> DEFINE k == Head(m_stack).id
<1>1. phase = "preprocess" /\ Len(frames) > 1
  BY DEF LeavingFile, Preprocessing
<1>2. /\ k \in DOMAIN id_to_node /\ BackState = id_to_node[k]
      /\ k = UniqueIDOf(Head(frames).file) /\ Head(frames) = frames[1]
      /\ 1 \in DOMAIN frames /\ 1 # Len(frames)
  BY <1>1, Back DEF BackState
<1>3. k[1] = frames[1].file
  BY <1>2, FrameTyped, UniqueIDTyped DEF IInv
<1>4. k[1] \notin ToSet(program.sources)
  BY <1>2, <1>3 DEF PlainInv, SourcesAreMain
<1> QED BY <1>2, <1>4 DEF PlainInv, CostedOnce

LEMMA NothingFails ==
  ASSUME IInv, EdgesCounted, Plain(program), PlainInv, [Next]_vars, abort = "none"
  PROVE  abort' = "none"
<1>1. ~SourceSeenBefore
  BY SourceIsNew DEF SourceSeenBefore
<1>2. ~NewIncludeFromDone
  BY DoneIncludesKnown DEF NewIncludeFromDone
<1>3. ~CostAssignedTwice
  BY CostUnset DEF CostAssignedTwice
<1>4. CASE Reads
  BY <1>4, ReadsItem
<1>5. CASE Leaves
  BY <1>5, FileLeft
<1>6. CASE IfOrIfndef \/ EnterFile \/ FileSkipped \/ EndOfMainFile
  BY <1>6 DEF IfOrIfndef, EnterFile, FileSkipped, EndOfMainFile
<1>7. CASE EnterSource \/ EndSourceFileAction \/ Finish
  BY <1>7 DEF EnterSource, EndSourceFileAction, Finish
<1>8. CASE Stutter \/ UNCHANGED vars
  BY <1>8 DEF Stutter, vars
<1> QED BY <1>1, <1>2, <1>3, <1>4, <1>5, <1>6, <1>7, <1>8, StepKinds
        DEF Quiet, Fails

(* No assertion of build_graph.cpp fails on a plain program: its sources   *)
(* are new when they start (line 449), a processed guarded file includes   *)
(* nothing new (line 622), and a cost is recorded once (line 563).         *)
THEOREM PlainProgramsSucceed ==
  Spec /\ Plain(program) => []NoAssertionFails
<1>1. Init => NoAssertionFails
  BY DEF Init, NoAssertionFails
<1>2. IInv /\ EdgesCounted /\ (Plain(program) /\ PlainInv) /\ NoAssertionFails
        /\ [Next]_vars => NoAssertionFails'
  BY NothingFails DEF NoAssertionFails
<1> QED BY <1>1, <1>2, PlainInvariant, InductiveInvariant, EdgesAlwaysCounted,
           PTL DEF Spec

(* On a plain program the cost of a guarded file is recorded once, when    *)
(* its first visit ends, and is final.                                     *)
THEOREM CostIsFinal ==
  Spec /\ Plain(program) => GuardedCostIsFinal
<1> DEFINE Final ==
      \A v \in DOMAIN nodes :
        nodes[v].is_guarded => nodes'[v].underlying_cost = nodes[v].underlying_cost
<1>1. IInv /\ (Plain(program) /\ PlainInv) /\ [Next]_vars => [Final]_vars
  <2> SUFFICES ASSUME IInv, Plain(program), PlainInv, [Next]_vars,
                      NEW v \in DOMAIN nodes, nodes[v].is_guarded
               PROVE  nodes'[v].underlying_cost = nodes[v].underlying_cost
    OBVIOUS
  <2>1. CASE SameFile(nodes'[v], nodes[v])
    BY <2>1 DEF SameFile
  <2>2. CASE Marked(v)
    <3>1. ~ExitGuardedFirst
      BY <2>2, CostUnset DEF Marked, ExitGuardedFirst
    <3>2. EndOfMainFile /\ v = BackState.v /\ phase = "preprocess" /\ Len(frames) = 1
      BY <2>2, <3>1 DEF Marked, EndOfMainFile, Preprocessing
    <3>3. /\ Head(m_stack).id \in DOMAIN id_to_node
          /\ BackState = id_to_node[Head(m_stack).id]
          /\ Head(frames) = frames[1]
      BY <3>2, Back DEF BackState
    <3>4. ~BackState.fully_processed
      BY <3>2, <3>3, MainIsSource, SourceNotProcessed DEF PlainInv
    <3>5. ~nodes[BackState.v].is_guarded
      BY <3>3, <3>4 DEF PlainInv, CostedOnce
    <3> QED BY <3>2, <3>5
  <2> QED BY <2>1, <2>2, VertexStep
<1> QED BY <1>1, PlainInvariant, InductiveInvariant, PTL
        DEF Spec, GuardedCostIsFinal

-----------------------------------------------------------------------------
(* The include graph of a plain program is the one IncludeGraph promises. *)

(* A file of the graph has a vertex.                                       *)
LEMMA KnownHasVertex ==
  ASSUME IInv, EdgesCounted, PlainInv, NEW f \in Promise!Known
  PROVE  \E v \in DOMAIN nodes : nodes[v].path = f
<1>1. CASE f \in {program.sources[i] : i \in 1..started}
  BY <1>1 DEF PlainInv, SourcesAreMain
<1>2. CASE f \in {d[2] : d \in Recorded}
  <2>1. PICK d \in Recorded : f = d[2]
    BY <1>2
  <2>2. PICK e \in edges : d = <<nodes[e.from].path, nodes[e.to].path>>
    BY DEF Recorded
  <2> QED BY <2>1, <2>2 DEF EdgesCounted, CountsEdges
<1> QED BY <1>1, <1>2, KnownFiles

(* When no translation unit is left, every directive is in the graph.      *)
LEMMA AllDirectivesRecorded ==
  ASSUME IInv, EdgesCounted, Plain(program), PlainInv, phase = "idle",
         started = Len(program.sources),
         NEW d \in Directives, d[1] \in Promise!Known
  PROVE  d \in Recorded
<1>1. PICK f \in File : \E g \in FilesIncludedBy(f) : d = <<f, g>>
  BY DEF Directives
<1>2. PICK g : d = <<f, g>>
  BY <1>1
<1>3. program \in Program /\ program.sources \in Seq(File)
  BY ProgramFields DEF IInv, TypeOK
<1>4. /\ frames = <<>> /\ pending = NoFile /\ predefines = <<>>
  BY DEF IInv, ScanState, PlainInv, ForcedIncluded
<1>5. CASE g \in Included(f)
  <2>1. PICK v \in DOMAIN nodes : nodes[v].path = f
    BY <1>2, KnownHasVertex
  <2>2. Covered(f)
    BY <1>4, <2>1, NoFileAssumption DEF PlainInv, FilesCovered
  <2> QED BY <1>2, <1>4, <1>5, <2>2 DEF Covered
<1>6. CASE /\ f \in ToSet(program.sources)
           /\ g \in ToSet(program.forced) \ program.absent
  <2>1. PICK k \in DOMAIN program.sources : f = program.sources[k]
    BY <1>6 DEF ToSet
  <2>2. k \in 1..started
    BY <1>3, <2>1
  <2>3. ToSet(predefines) = {}
    BY <1>4 DEF ToSet
  <2> QED BY <1>2, <1>6, <2>1, <2>2, <2>3 DEF PlainInv, ForcedIncluded
<1> QED BY <1>2, <1>3, <1>5, <1>6, DirectivesKnown

LEMMA RecordStep ==
  ASSUME IInv, IInv', EdgesCounted, Plain(program), PlainInv, [Next]_vars,
         InclusionDirective
  PROVE  \E d \in Directives : d[1] \in Promise!Known /\ Recorded' = Recorded \cup {d}
<1> DEFINE f == Head(frames).file
           g == Head(Remaining).file
<1>1. Recorded' = Recorded \cup {<<f, g>>}
  BY InclusionRecords
<1>2. <<f, g>> \in Directives
  <2>1. Preprocessing /\ Remaining # <<>> /\ Reads
    BY ReadsItem DEF Reads
  <2>2. Head(Remaining).op = "include" /\ g \notin program.absent
    BY <2>1, ReadStep
  <2>3. Head(frames) = frames[1]
    BY <2>1, Back DEF Preprocessing
  <2> QED BY <2>1, <2>2, <2>3, NextPlainItem DEF PlainInv
<1>3. f \in Promise!Known
  <2>1. phase = "preprocess"
    BY InclusionDirectiveGuard DEF IncludingFile, Lexing, Preprocessing
  <2> QED BY <2>1, Back DEF PlainInv, FilesCovered
<1>4. <<f, g>>[1] = f
  OBVIOUS
<1> QED BY <1>1, <1>2, <1>3, <1>4

LEMMA FinishedStep ==
  ASSUME IInv, [Next]_vars, ~Finish
  PROVE  (phase' = "finished") <=> (phase = "finished")
<1>1. CASE Reads
  BY <1>1, ReadsItem
<1>2. CASE Leaves
  BY <1>2, FileLeft
<1>3. CASE EnterSource \/ EndSourceFileAction
  BY <1>3 DEF EnterSource, MoreSources, EndSourceFileAction
<1> QED BY <1>1, <1>2, <1>3, StepKinds, QuietStep, EndStep, EnterStep

(* On a plain program the analysis implements IncludeGraph: a step starts  *)
(* a source, records a directive of a file that a started source reaches,  *)
(* or changes nothing of the promise, and it finishes with all of them.    *)
THEOREM GraphIsPromised == Spec /\ Plain(program) => PromiseKept
<1>1. Init => Promise!Init
  BY DEF Init, Promise!Init, Recorded
<1>2. IInv /\ IInv' /\ EdgesCounted /\ (Plain(program) /\ PlainInv) /\ [Next]_vars
        => [Promise!Next]_(Promise!vars)
  <2> SUFFICES ASSUME IInv, IInv', EdgesCounted, Plain(program), PlainInv,
                      [Next]_vars
               PROVE  Promise!Next \/ UNCHANGED Promise!vars
    OBVIOUS
  <2>1. UNCHANGED program /\ (InclusionDirective \/ Recorded' = Recorded)
    BY RecordedStays
  <2>2. Directives' = Directives
    BY <2>1 DEF Directives, FilesIncludedBy, EffectiveScript
  <2>3. CASE EnterSource
    <3>1. /\ phase = "idle" /\ phase' = "preprocess"
          /\ started < Len(program.sources) /\ started' = started + 1
      BY <2>3 DEF EnterSource, MoreSources
    <3>2. ~InclusionDirective
      BY <3>1, InclusionDirectiveGuard DEF IncludingFile, Lexing, Preprocessing
    <3>3. Promise!Start
      BY <2>1, <2>2, <3>1, <3>2 DEF Promise!Start
    <3> QED BY <3>3 DEF Promise!Next
  <2>4. CASE InclusionDirective
    <3>1. phase = "preprocess" /\ UNCHANGED <<phase, started>>
      <4>1. Reads
        BY <2>4 DEF Reads
      <4> QED BY <4>1, ReadsItem DEF Preprocessing
    <3>2. Promise!Record
      BY <2>1, <2>2, <2>4, <3>1, RecordStep DEF Promise!Record
    <3> QED BY <3>2 DEF Promise!Next
  <2>5. CASE Finish
    <3>1. /\ phase = "idle" /\ phase' = "finished" /\ UNCHANGED started
          /\ started = Len(program.sources)
      BY <2>5 DEF Finish
    <3>2. ~InclusionDirective
      BY <3>1, InclusionDirectiveGuard DEF IncludingFile, Lexing, Preprocessing
    <3>3. Promise!Finish
      BY <2>1, <2>2, <3>1, <3>2, AllDirectivesRecorded DEF Promise!Finish
    <3> QED BY <3>3 DEF Promise!Next
  <2>6. CASE ~EnterSource /\ ~InclusionDirective /\ ~Finish
    <3>1. UNCHANGED started
      BY <2>6, StartedStep
    <3> QED BY <2>1, <2>2, <2>6, <3>1, FinishedStep DEF Promise!vars
  <2> QED BY <2>3, <2>4, <2>5, <2>6
<1> QED BY <1>1, <1>2, PlainInvariant, InductiveInvariant, EdgesAlwaysCounted,
           PTL DEF Spec, PromiseKept, Promise!Spec

-----------------------------------------------------------------------------
(***************************************************************************)
(* The invariant of a settled program.  Whether a file is guarded is what  *)
(* its script says, at whatever visit clang judges it.                     *)
(***************************************************************************)
Judged(f) == IsGuardedScript(program.script[f])

EntriesJudged ==
  \A u \in DOMAIN id_to_node :
    id_to_node[u].fully_processed =>
      /\ nodes[id_to_node[u].v].is_guarded <=> Judged(u[1])
      /\ id_to_node[u].v \in unguarded_files <=> ~Judged(u[1])

(* What is on the stack above a file, the file includes, directly or not.  *)
Holds(S, f) ==
  /\ \A d \in Included(f) : d \in S
  /\ \A g \in S : \A d \in Included(g) : d \in S

StackBelow ==
  \A j \in DOMAIN frames : j # Len(frames) =>
    \A S \in SUBSET File : Holds(S, frames[j].file) =>
      /\ \A i \in DOMAIN frames : i < j => frames[i].file \in S
      /\ pending # NoFile => pending \in S

(* A guard that has been read has had its effect.                          *)
HasOnce(s) == \E j \in DOMAIN s : s[j].op = "once"

FrameJudges(i) ==
  LET f == frames[i].file
      s == Contents(f)
  IN
  /\ HasOnce(s) => f \in once \/ HasOnce(frames[i].rest)
  /\ FirstConditional(s) /\ Judged(f) =>
       \/ frames[i].rest = s /\ m_stack[i].seen_first = "None"
       \/ /\ frames[i].candidate
          /\ s[1].op = "ifndef" => m_stack[i].seen_first = "Ifndef"
  /\ m_stack[i].seen_first = "Ifndef" => FirstConditional(s) /\ s[1].op = "ifndef"

FramesJudge == \A i \in DOMAIN frames : i # Len(frames) => FrameJudges(i)

(* A guard macro that is defined belongs to a file in progress or is known *)
(* to be the controlling macro of its file.                                *)
MacrosGuard ==
  \A f \in (macros \cap File) \ ToSet(program.sources) :
    FirstConditional(Contents(f)) /\ Judged(f) =>
      \/ f \in controlling
      \/ \E i \in DOMAIN frames :
           i # Len(frames) /\ frames[i].file = f /\ frames[i].candidate

OnceGuards == \A f \in once : f \in File /\ Judged(f)

SettledInv == EntriesJudged /\ StackBelow /\ FramesJudge /\ MacrosGuard /\ OnceGuards

-----------------------------------------------------------------------------
(* Guards in scripts and contents.                                         *)
LEMMA TestedIsScript ==
  ASSUME TypeOK, ReplacementsKeepMacros, NEW f \in File,
         FirstConditional(Contents(f))
  PROVE  f \notin DOMAIN overwrites /\ Contents(f) = program.script[f]
<1>1. CASE f \in DOMAIN overwrites
  <2>1. Contents(f) = <<Once>> \o overwrites[f] /\ overwrites[f] \in Seq(Item)
    BY <1>1 DEF Contents, TypeOK
  <2>2. Contents(f)[1] = Once
    BY <2>1, SeqPush, MadeItems
  <2> QED BY <2>2 DEF FirstConditional, Conditional, Once
<1> QED BY <1>1 DEF Contents

LEMMA TestedIfGuarded ==
  ASSUME TypeOK, NEW f \in File, f \notin DOMAIN overwrites, ~HasOnce(Contents(f))
  PROVE  Judged(f) <=> FirstConditional(Contents(f)) /\ Contents(f)[1].op = "ifndef"
<1>1. Contents(f) = program.script[f] /\ program.script[f] \in Seq(Item)
  BY ProgramFields DEF Contents, TypeOK
<1>2. \A s \in Seq(Item) : s # <<>> <=> Len(s) > 0
  OBVIOUS
<1> QED BY <1>1, <1>2
        DEF Judged, HasOnce, IsGuardedScript, FirstConditional, Conditional

LEMMA ReplacedJudged ==
  ASSUME IInv, ReplacementsKnown, EntriesJudged, NEW f \in DOMAIN overwrites
  PROVE  Judged(f)
<1> DEFINE u == UniqueIDOf(f)
<1>1. f \in File
  BY DEF IInv, TypeOK
<1>2. u \in DOMAIN id_to_node /\ Known(id_to_node, nodes, u) /\ u[1] = f
  BY <1>1, ReplacedEntry, UniqueIDTyped DEF ReplacementsKnown
<1> HIDE DEF u
<1> QED BY <1>2 DEF Known, EntriesJudged

LEMMA OnceJudged ==
  ASSUME IInv, ReplacementsKnown, EntriesJudged, NEW f \in File, HasOnce(Contents(f))
  PROVE  Judged(f)
<1>1. CASE f \in DOMAIN overwrites
  BY <1>1, ReplacedJudged
<1>2. CASE f \notin DOMAIN overwrites
  BY <1>2 DEF Contents, HasOnce, Judged, IsGuardedScript
<1> QED BY <1>1, <1>2

(* What is read of a file in progress stands in its contents, and a guard  *)
(* is in no group that a macro excludes.                                   *)
LEMMA ReadGuard ==
  ASSUME IInv, Plain(program), Settled(program), PlainInv,
         Preprocessing, Remaining # <<>>, ~InPredefines
  PROVE  LET f == frames[1].file
             item == Head(Remaining)
         IN
         /\ f \in File
         /\ item.op \in Conditional =>
              FirstConditional(Contents(f)) /\ item = Contents(f)[1]
         /\ item.op = "once" => HasOnce(Contents(f))
         /\ item.op \in Conditional \cup {"once"} => Active(item)
<1> DEFINE f == frames[1].file
           item == Head(Remaining)
<1>1. /\ 1 \in DOMAIN frames /\ frames[1] \in Frame /\ Head(frames) = frames[1]
      /\ f \in File /\ frames[1].rest \in Seq(Item)
  BY Back DEF Preprocessing, Frame
<1>2. program \in Program /\ TypeOK /\ ReplacementsKeepMacros
  BY DEF IInv, TypeOK, PlainInv
<1>3. Remaining = frames[1].rest /\ frames[1].rest # <<>>
  BY <1>1 DEF Remaining
<1>4. item \in ToSet(frames[1].rest)
  BY <1>1, <1>3, TailItems
<1>5. PICK j \in DOMAIN Contents(f) : item = Contents(f)[j]
  BY <1>1, <1>4 DEF PlainInv, ReadsContents, ToSet
<1> HIDE DEF f, item
<1>6. item.op \in Conditional => j = 1
  BY <1>1, <1>2, <1>5, PlainContents
<1>7. Contents(f) # <<>>
  BY <1>5
<1>8. ASSUME item.op \in Conditional \cup {"once"} PROVE Active(item)
  <2>1. item.needs = {} /\ item.lacks = {}
    <3>1. CASE f \in DOMAIN overwrites
      <4>1. CASE item = Once
        BY <4>1 DEF Once
      <4>2. CASE j - 1 \in DOMAIN overwrites[f] /\ item = overwrites[f][j - 1]
        BY <1>2, <1>8, <3>1, <4>2 DEF ReplacementsKeepMacros, Kept, Conditional
      <4> QED BY <1>2, <1>5, <3>1, <4>1, <4>2, ReplacedContents
    <3>2. CASE f \notin DOMAIN overwrites
      <4>1. Contents(f) = program.script[f]
        BY <3>2 DEF Contents
      <4> QED BY <1>1, <1>5, <1>8, <4>1 DEF Settled
    <3> QED BY <3>1, <3>2
  <2> QED BY <2>1 DEF Active
<1> QED BY <1>1, <1>5, <1>6, <1>7, <1>8 DEF FirstConditional, HasOnce, f, item

-----------------------------------------------------------------------------
(* What a step does to the notes about the first conditional.              *)
SameNotes ==
  /\ DOMAIN m_stack' = DOMAIN m_stack
  /\ \A i \in DOMAIN m_stack : m_stack'[i].seen_first = m_stack[i].seen_first

LEMMA TopNote ==
  ASSUME NEW s \in Seq(InProgress), s # <<>>, NEW p, p.seen_first = s[1].seen_first
  PROVE  /\ DOMAIN [s EXCEPT ![1] = p] = DOMAIN s
         /\ \A i \in DOMAIN s : [s EXCEPT ![1] = p][i].seen_first = s[i].seen_first
OBVIOUS

LEMMA ReadNotes ==
  ASSUME IInv, Reads
  PROVE  SameNotes
<1>1. CASE PragmaDirective
  <2> DEFINE n == Head(Remaining).n
             sized == [m_stack[1] EXCEPT !.overridden_file_size = n]
             counted == [m_stack[1] EXCEPT !.overridden_token_count = n]
  <2>1. m_stack \in Seq(InProgress) /\ m_stack # <<>> /\ m_stack[1] \in InProgress
    BY <1>1, Back DEF PragmaDirective, Lexing, Preprocessing, IInv, TypeOK
  <2>2. /\ sized.seen_first = m_stack[1].seen_first
        /\ counted.seen_first = m_stack[1].seen_first
    BY <2>1 DEF InProgress
  <2>3. \/ m_stack' = [m_stack EXCEPT ![1] = sized]
        \/ m_stack' = [m_stack EXCEPT ![1] = counted]
    BY <1>1, <2>1 DEF PragmaDirective
  <2> HIDE DEF sized, counted
  <2> QED BY <2>1, <2>2, <2>3, TopNote DEF SameNotes
<1>2. CASE InclusionDirective
  <2>1. m_stack' = m_stack
    BY <1>2, Zenon DEF InclusionDirective
  <2> QED BY <2>1 DEF SameNotes
<1>3. CASE ~PragmaDirective /\ ~InclusionDirective
  <2>1. m_stack' = m_stack
    BY <1>3 DEF Reads, LexTokens, SkipExcluded, PragmaOnce, MacroDefined,
                MacroUndefined, MissingInclude, InclusionFromDone
  <2> QED BY <2>1 DEF SameNotes
<1> QED BY <1>1, <1>2, <1>3

LEMMA ConditionalNotes ==
  ASSUME IInv, IfOrIfndef
  PROVE  /\ DOMAIN m_stack' = DOMAIN m_stack
         /\ \A i \in DOMAIN m_stack :
              i # 1 => m_stack'[i].seen_first = m_stack[i].seen_first
         /\ m_stack[1].seen_first # "None" =>
              m_stack'[1].seen_first = m_stack[1].seen_first
         /\ m_stack[1].seen_first = "None" =>
              (m_stack'[1].seen_first = "Ifndef" <=> Head(Remaining).op = "ifndef")
<1> DEFINE kind == IF Head(Remaining).op = "if" THEN "If" ELSE "Ifndef"
           seen == IF m_stack[1].seen_first = "None" THEN kind
                   ELSE m_stack[1].seen_first
           new == [m_stack[1] EXCEPT !.seen_first = seen]
<1>1. /\ m_stack \in Seq(InProgress) /\ m_stack # <<>>
      /\ m_stack[1] \in InProgress /\ 1 \in DOMAIN m_stack
  BY Back DEF IfOrIfndef, Lexing, Preprocessing, IInv, TypeOK
<1>2. Head(Remaining).op \in {"if", "ifndef"}
  BY DEF IfOrIfndef, Lexing
<1>3. m_stack' = [m_stack EXCEPT ![1] = new]
  BY <1>1 DEF IfOrIfndef
<1>4. new.seen_first = seen
  <2> HIDE DEF seen
  <2> QED BY <1>1 DEF InProgress
<1> HIDE DEF new
<1> QED BY <1>1, <1>2, <1>3, <1>4

LEMMA EnteredNotes ==
  ASSUME IInv, EnterFile
  PROVE  /\ m_stack'[1].seen_first = "None"
         /\ \A i \in DOMAIN m_stack' :
              i # 1 => /\ i - 1 \in DOMAIN m_stack
                       /\ m_stack'[i].seen_first = m_stack[i - 1].seen_first
<1> DEFINE fresh == NewInProgress(UniqueIDOf(pending))
           cost == [m_stack[1].c EXCEPT !.token_count = lexed - accounted]
           top == [m_stack[1] EXCEPT !.c = cost]
           below == [m_stack EXCEPT ![1] = top]
<1>1. /\ m_stack \in Seq(InProgress) /\ m_stack # <<>>
      /\ m_stack[1] \in InProgress /\ 1 \in DOMAIN m_stack
  BY Back DEF EnterFile, Inclusion, IInv, TypeOK
<1>2. m_stack' = <<fresh>> \o below
  BY <1>1 DEF EnterFile
<1>3. fresh.seen_first = "None"
  BY DEF NewInProgress
<1>4. top.seen_first = m_stack[1].seen_first
  <2> HIDE DEF cost
  <2> QED BY <1>1 DEF InProgress
<1> HIDE DEF fresh, top
<1>5. /\ DOMAIN below = DOMAIN m_stack /\ below \in Seq({fresh, top} \cup InProgress)
      /\ \A i \in DOMAIN below : below[i].seen_first = m_stack[i].seen_first
  BY <1>1, <1>4, TopNote
<1> HIDE DEF below
<1>6. /\ m_stack'[1] = fresh
      /\ \A i \in DOMAIN m_stack' :
           i # 1 => i - 1 \in DOMAIN below /\ m_stack'[i] = below[i - 1]
  BY <1>2, <1>5, SeqPush
<1> QED BY <1>3, <1>5, <1>6

LEMMA LeftNotes ==
  ASSUME IInv, Leaves
  PROVE  \A i \in DOMAIN frames' :
           m_stack'[i].seen_first = m_stack[i + 1].seen_first
<1>1. LeavingFile
  BY DEF Leaves, ExitUnguarded, ExitGuardedFirst, ExitGuardedAgain
<1>2. /\ m_stack \in Seq(InProgress) /\ Len(m_stack) = Len(frames)
      /\ Len(frames) > 1 /\ m_stack # <<>>
  BY <1>1, Back DEF LeavingFile, Preprocessing, IInv, TypeOK, StackInSync
<1> DEFINE below == Tail(m_stack)
           top == [below[1] EXCEPT !.c = Plus(@, LeavingCost)]
<1>3. /\ below \in Seq(InProgress) /\ below # <<>> /\ below[1] \in InProgress
      /\ DOMAIN below = 1..(Len(frames) - 1)
      /\ \A i \in DOMAIN below : below[i] = m_stack[i + 1]
  <2>1. /\ below \in Seq(InProgress) /\ DOMAIN below = 1..(Len(m_stack) - 1)
        /\ \A i \in 1..(Len(m_stack) - 1) : below[i] = m_stack[i + 1]
    BY <1>2, SeqHead
  <2>2. Len(m_stack) \in Nat /\ 1 \in DOMAIN below
    BY <1>2, <2>1, SeqHead
  <2> HIDE DEF below
  <2>3. below # <<>> /\ below[1] \in InProgress
    BY <2>1, <2>2
  <2> QED BY <1>2, <2>1, <2>3
<1>4. DOMAIN frames' = DOMAIN below
  BY <1>3, FileLeft
<1>5. top.seen_first = below[1].seen_first
  <2> HIDE DEF below
  <2> QED BY <1>3 DEF InProgress
<1>6. m_stack' = below \/ m_stack' = [below EXCEPT ![1] = top]
  <2>1. m_stack' = below \/ m_stack' = CostPushedToIncluder
    BY DEF Leaves, ExitUnguarded, ExitGuardedFirst, ExitGuardedAgain
  <2>2. CostPushedToIncluder = [below EXCEPT ![1] = top]
    BY <1>3 DEF CostPushedToIncluder
  <2> QED BY <2>1, <2>2
<1> HIDE DEF below, top
<1>7. \A i \in DOMAIN below : m_stack'[i].seen_first = below[i].seen_first
  BY <1>3, <1>5, <1>6, TopNote
<1> QED BY <1>3, <1>4, <1>7

LEMMA OtherNotes ==
  ASSUME IInv, FileSkipped \/ EndOfMainFile \/ Finish \/ Quiet
  PROVE  SameNotes
<1>1. CASE EndOfMainFile
  <2> DEFINE new == [m_stack[1] EXCEPT !.c = LeavingCost]
  <2>1. m_stack \in Seq(InProgress) /\ m_stack # <<>> /\ m_stack[1] \in InProgress
    BY <1>1, Back DEF EndOfMainFile, Preprocessing, IInv, TypeOK
  <2>2. new.seen_first = m_stack[1].seen_first
    BY <2>1 DEF InProgress
  <2>3. m_stack' = [m_stack EXCEPT ![1] = new]
    BY <1>1, <2>1 DEF EndOfMainFile
  <2> HIDE DEF new
  <2> QED BY <2>1, <2>2, <2>3, TopNote DEF SameNotes
<1>2. CASE FileSkipped \/ Finish \/ Quiet
  <2>1. m_stack' = m_stack
    BY <1>2 DEF FileSkipped, Finish, Quiet, Fails, SourceSeenBefore,
                NewIncludeFromDone, CostAssignedTwice, Fail, Stutter, vars
  <2> QED BY <2>1 DEF SameNotes
<1> QED BY <1>1, <1>2

-----------------------------------------------------------------------------
(* The files above a file on the stack.                                    *)
LEMMA NotAbove ==
  ASSUME IInv, Settled(program), StackBelow,
         NEW j \in DOMAIN frames, j # Len(frames), NEW f \in File,
         frames[j].file = f, FirstConditional(program.script[f]), Judged(f)
  PROVE  \A i \in DOMAIN frames : i < j => frames[i].file # f
<1>1. PICK S \in SUBSET File :
        /\ Closes(program, S, f) /\ \A g \in S : Closes(program, S, g)
        /\ f \notin S
  BY DEF Settled, Judged, IncludesItself
<1>2. Holds(S, f)
  BY <1>1 DEF Holds, Included, Closes
<1> QED BY <1>1, <1>2 DEF StackBelow

LEMMA StaysBelow ==
  ASSUME IInv, Plain(program), PlainInv, StackBelow, [Next]_vars
  PROVE  StackBelow'
<1>1. UNCHANGED program
  BY ProgramFixed
<1>2. \A f, S : Holds(S, f)' <=> Holds(S, f)
  BY <1>1 DEF Holds, Included
<1>3. /\ Len(frames) \in Nat /\ DOMAIN frames = 1..Len(frames)
      /\ frames \in Seq(Frame)
  BY DEF IInv, TypeOK
<1>4. CASE SameFiles /\ pending' \in {pending, NoFile}
  <2>1. /\ DOMAIN frames' = DOMAIN frames /\ Len(frames') = Len(frames)
        /\ \A i \in DOMAIN frames : frames'[i].file = frames[i].file
    BY <1>4 DEF SameFiles
  <2> SUFFICES ASSUME NEW j \in DOMAIN frames, j # Len(frames),
                      NEW S \in SUBSET File, Holds(S, frames[j].file)
               PROVE  /\ \A i \in DOMAIN frames : i < j => frames[i].file \in S
                      /\ pending' # NoFile => pending' \in S
    BY <1>2, <2>1 DEF StackBelow
  <2> QED BY <1>4 DEF StackBelow
<1>5. CASE Reads /\ pending' \notin {pending, NoFile}
  <2>1. /\ Preprocessing /\ Remaining # <<>> /\ Advance
        /\ pending' = Head(Remaining).file /\ Head(Remaining).op = "include"
        /\ Head(Remaining).file \notin program.absent
    BY <1>5, ReadsItem, ReadStep
  <2>2. SameFiles
    BY <1>5, <2>1, ReadsItem, ItemRead DEF SameFiles
  <2> SUFFICES ASSUME NEW j \in DOMAIN frames, j # Len(frames),
                      NEW S \in SUBSET File, Holds(S, frames[j].file)
               PROVE  /\ \A i \in DOMAIN frames : i < j => frames[i].file \in S
                      /\ pending' \in S
    BY <1>2, <2>2 DEF StackBelow, SameFiles
  <2>3. \A i \in DOMAIN frames : i < j => frames[i].file \in S
    BY DEF StackBelow
  <2>4. ~InPredefines
    BY <1>3 DEF InPredefines
  <2>5. pending' \in Included(frames[1].file)
    BY <2>1, <2>4, NextPlainItem DEF PlainInv
  <2>6. CASE j = 1
    BY <2>3, <2>5, <2>6 DEF Holds
  <2>7. CASE j # 1
    <3>1. frames[1].file \in S
      BY <1>3, <2>3, <2>7
    <3> QED BY <2>3, <2>5, <3>1 DEF Holds
  <2> QED BY <2>6, <2>7
<1>6. CASE EnterFile
  <2>1. /\ pending # NoFile /\ pending' = NoFile
        /\ Len(frames') = Len(frames) + 1 /\ frames'[1].file = pending
        /\ DOMAIN frames' = 1..Len(frames')
        /\ \A i \in DOMAIN frames' :
             i # 1 => i - 1 \in DOMAIN frames /\ frames'[i] = frames[i - 1]
    BY <1>6, FileEntered
  <2> SUFFICES ASSUME NEW j \in DOMAIN frames', j # Len(frames'),
                      NEW S \in SUBSET File, Holds(S, frames'[j].file),
                      NEW i \in DOMAIN frames', i < j
               PROVE  frames'[i].file \in S
    BY <1>2, <2>1 DEF StackBelow
  <2>2. /\ j # 1 /\ j - 1 \in DOMAIN frames /\ j - 1 # Len(frames)
        /\ frames'[j] = frames[j - 1]
    BY <1>3, <2>1
  <2>3. /\ pending \in S
        /\ \A k \in DOMAIN frames : k < j - 1 => frames[k].file \in S
    BY <2>1, <2>2 DEF StackBelow
  <2>4. CASE i = 1
    BY <2>1, <2>3, <2>4
  <2>5. CASE i # 1
    <3>1. i - 1 \in DOMAIN frames /\ i - 1 < j - 1 /\ frames'[i] = frames[i - 1]
      BY <1>3, <2>1, <2>5
    <3> QED BY <2>3, <3>1
  <2> QED BY <2>4, <2>5
<1>7. CASE Leaves
  <2>1. /\ pending' = pending
        /\ Len(frames') = Len(frames) - 1
        /\ DOMAIN frames' = 1..Len(frames')
        /\ \A i \in DOMAIN frames' :
             i + 1 \in DOMAIN frames /\ frames'[i] = frames[i + 1]
    BY <1>7, FileLeft
  <2> SUFFICES ASSUME NEW j \in DOMAIN frames', j # Len(frames'),
                      NEW S \in SUBSET File, Holds(S, frames'[j].file)
               PROVE  /\ \A i \in DOMAIN frames' : i < j => frames'[i].file \in S
                      /\ pending # NoFile => pending \in S
    BY <1>2, <2>1 DEF StackBelow
  <2>2. j + 1 \in DOMAIN frames /\ j + 1 # Len(frames) /\ frames'[j] = frames[j + 1]
    BY <1>3, <2>1
  <2>3. /\ \A i \in DOMAIN frames : i < j + 1 => frames[i].file \in S
        /\ pending # NoFile => pending \in S
    BY <2>2 DEF StackBelow
  <2>4. ASSUME NEW i \in DOMAIN frames', i < j PROVE frames'[i].file \in S
    <3>1. i + 1 \in DOMAIN frames /\ i + 1 < j + 1 /\ frames'[i] = frames[i + 1]
      BY <1>3, <2>1, <2>4
    <3> QED BY <2>3, <3>1
  <2> QED BY <2>3, <2>4
<1>8. CASE EnterSource
  <2>1. DOMAIN frames' = {1} /\ Len(frames') = 1
    BY <1>8 DEF EnterSource
  <2> QED BY <2>1 DEF StackBelow
<1>9. CASE EndSourceFileAction
  <2>1. DOMAIN frames' = {}
    BY <1>9 DEF EndSourceFileAction
  <2> QED BY <2>1 DEF StackBelow
<1>10. CASE ~Reads /\ SameFiles
  BY <1>4, <1>10, StepKinds, QuietStep, EndStep, EnterStep, <1>6, <1>7, <1>8, <1>9
<1>11. CASE Reads
  <2>1. SameFiles
    BY <1>11, ReadsItem, ItemRead DEF SameFiles
  <2> QED BY <1>4, <1>5, <1>11, <2>1
<1> QED BY <1>6, <1>7, <1>8, <1>9, <1>10, <1>11, StackStep

-----------------------------------------------------------------------------
(* The guards of the files in progress.                                    *)

(* Every visit finds the macro of a guarded file undefined, since the file *)
(* is not in progress below and is not skipped.                            *)
LEMMA GuardUndefined ==
  ASSUME IInv, Plain(program), Settled(program), PlainInv, StackBelow, MacrosGuard,
         IfOrIfndef, 1 # Len(frames), Judged(frames[1].file)
  PROVE  frames[1].file \notin macros
<1> DEFINE f == frames[1].file
<1>1. /\ Preprocessing /\ 1 \in DOMAIN frames /\ ~InPredefines
      /\ 1 \in DOMAIN frames[1].rest /\ frames[1].rest[1].op \in Conditional
  BY ConditionalRead
<1>2. Remaining # <<>> /\ Head(Remaining).op \in Conditional
  BY DEF IfOrIfndef, Lexing, Conditional
<1>3. f \in File /\ FirstConditional(Contents(f))
  BY <1>1, <1>2, ReadGuard
<1>4. FirstConditional(program.script[f])
  <2> HIDE DEF f
  <2> QED BY <1>3, TestedIsScript DEF IInv, PlainInv
<1>5. ~frames[1].candidate /\ ShouldEnter(f)
  BY <1>1 DEF PlainInv, GuardFirst
<1>6. f \notin ToSet(program.sources)
  BY <1>1 DEF PlainInv, SourcesAreMain
<1>7. ASSUME NEW i \in DOMAIN frames, i # Len(frames), frames[i].file = f,
             frames[i].candidate
      PROVE  FALSE
  <2>1. i # 1 /\ 1 < i
    BY <1>5, <1>7 DEF IInv, TypeOK
  <2> QED BY <1>1, <1>3, <1>4, <1>7, <2>1, NotAbove
<1> QED BY <1>3, <1>5, <1>6, <1>7 DEF MacrosGuard, ShouldEnter

(* No group excludes a guard.                                              *)
LEMMA GuardRead ==
  ASSUME IInv, Plain(program), Settled(program), PlainInv, Reads, ~InPredefines
  PROVE  /\ Head(Remaining).op \notin Conditional
         /\ Head(Remaining).op = "once" => PragmaOnce
<1>1. Preprocessing /\ Remaining # <<>>
  BY ReadsItem
<1>2. Head(Remaining).op \in Conditional \cup {"once"} => ~SkipExcluded
  BY <1>1, ReadGuard DEF SkipExcluded
<1>3. InclusionDirective => Head(Remaining).op = "include"
  BY ReadStep
<1> QED BY <1>2, <1>3
        DEF Reads, LexTokens, PragmaOnce, PragmaDirective, MacroDefined,
            MacroUndefined, MissingInclude, InclusionFromDone, IncludingFile,
            Lexing, Conditional

LEMMA TailHasOnce ==
  ASSUME NEW s \in Seq(Item), HasOnce(s), s # <<>>
  PROVE  s[1].op = "once" \/ HasOnce(Tail(s))
<1>1. PICK j \in DOMAIN s : s[j].op = "once"
  BY DEF HasOnce
<1>2. CASE j # 1
  <2>1. j - 1 \in DOMAIN Tail(s) /\ Tail(s)[j - 1] = s[j]
    BY <1>2, SeqHead
  <2> QED BY <1>1, <2>1 DEF HasOnce
<1> QED BY <1>1, <1>2

LEMMA OnceGrows ==
  ASSUME Reads \/ IfOrIfndef \/ EnterFile \/ Leaves \/ FileSkipped
           \/ EndOfMainFile \/ Finish \/ Quiet,
         IInv
  PROVE  once \subseteq once' /\ UNCHANGED <<program, overwrites>>
<1>1. CASE InclusionDirective \/ InclusionFromDone
  BY <1>1, ReadsItem, ReadStep DEF Reads
<1>2. CASE Reads /\ ~(InclusionDirective \/ InclusionFromDone)
  <2>1. once \subseteq once'
    BY <1>2 DEF Reads, LexTokens, SkipExcluded, PragmaOnce, PragmaDirective,
                MacroDefined, MacroUndefined, MissingInclude
  <2> QED BY <1>2, <2>1, ReadsItem
<1> QED BY <1>1, <1>2, EnterStep, FileLeft, EndStep, QuietStep

LEMMA FrameKept ==
  ASSUME NEW i, NEW k, FrameJudges(i), once \subseteq once',
         UNCHANGED <<program, overwrites>>,
         frames'[k] = frames[i], m_stack'[k].seen_first = m_stack[i].seen_first
  PROVE  FrameJudges(k)'
<1>1. \A f : Contents(f)' = Contents(f) /\ (Judged(f)' <=> Judged(f))
  BY ContentsStay DEF Judged
<1> QED BY <1>1 DEF FrameJudges

LEMMA ReadJudges ==
  ASSUME IInv, Plain(program), Settled(program), PlainInv, FramesJudge, Reads
  PROVE  FramesJudge'
<1>1. /\ Preprocessing /\ Remaining # <<>> /\ Advance
      /\ UNCHANGED <<program, overwrites>> /\ once \subseteq once'
  BY ReadsItem, OnceGrows
<1>2. /\ DOMAIN frames' = DOMAIN frames /\ Len(frames') = Len(frames)
      /\ 1 \in DOMAIN frames /\ Head(frames) = frames[1]
      /\ \A i \in DOMAIN frames : i # 1 => frames'[i] = frames[i]
      /\ frames'[1].file = frames[1].file
      /\ frames'[1].candidate = frames[1].candidate
  BY <1>1, ItemRead
<1>3. \A i \in DOMAIN frames : m_stack'[i].seen_first = m_stack[i].seen_first
  BY ReadNotes DEF SameNotes, IInv, StackInSync, TypeOK
<1> SUFFICES ASSUME NEW i \in DOMAIN frames, i # Len(frames), FrameJudges(i)
             PROVE  FrameJudges(i)'
  BY <1>2 DEF FramesJudge
<1>4. CASE i # 1
  BY <1>1, <1>2, <1>3, <1>4, FrameKept
<1>5. CASE i = 1
  <2>0. Len(frames) \in Nat /\ DOMAIN frames = 1..Len(frames)
    BY DEF IInv, TypeOK
  <2>1. ~InPredefines /\ Len(frames) > 1
    BY <1>2, <1>5, <2>0 DEF InPredefines
  <2>2. /\ frames[1].rest \in Seq(Item) /\ frames[1].rest # <<>>
        /\ frames'[1].rest = Tail(frames[1].rest)
        /\ Head(Remaining) = frames[1].rest[1]
    BY <1>1, <2>1, ItemRead
  <2>3. /\ frames[1].rest[1].op \notin Conditional
        /\ frames[1].rest[1].op = "once" => frames[1].file \in once'
    <3>1. PragmaOnce => frames[1].file \in once'
      BY <1>2, <2>1 DEF PragmaOnce
    <3> QED BY <2>1, <2>2, <3>1, GuardRead
  <2>4. \A g : Contents(g)' = Contents(g) /\ (Judged(g)' <=> Judged(g))
    BY <1>1, ContentsStay DEF Judged
  <2>5. HasOnce(frames[1].rest) => frames[1].file \in once' \/ HasOnce(frames'[1].rest)
    BY <2>2, <2>3, TailHasOnce
  <2>6. FirstConditional(Contents(frames[1].file)) =>
          frames[1].rest # Contents(frames[1].file)
    BY <2>3 DEF FirstConditional
  <2> QED BY <1>1, <1>2, <1>3, <1>5, <2>4, <2>5, <2>6 DEF FrameJudges
<1> QED BY <1>4, <1>5

LEMMA ConditionalJudges ==
  ASSUME IInv, Plain(program), Settled(program), PlainInv, ReplacementsKnown,
         SettledInv, IfOrIfndef
  PROVE  FramesJudge'
<1>1. /\ UNCHANGED <<program, overwrites>> /\ once \subseteq once'
  BY OnceGrows
<1>2. /\ Preprocessing /\ Len(frames') = Len(frames)
      /\ DOMAIN frames' = DOMAIN frames
      /\ 1 \in DOMAIN frames /\ ~InPredefines
      /\ \A i \in DOMAIN frames : i # 1 => frames'[i] = frames[i]
      /\ frames'[1].file = frames[1].file
      /\ frames[1].rest \in Seq(Item) /\ frames[1].rest # <<>>
      /\ 1 \in DOMAIN frames[1].rest /\ frames[1].rest[1].op \in Conditional
  BY ConditionalRead
<1>3. DOMAIN m_stack = DOMAIN frames
  BY DEF IInv, StackInSync, TypeOK
<1> SUFFICES ASSUME NEW i \in DOMAIN frames, i # Len(frames), FrameJudges(i)
             PROVE  FrameJudges(i)'
  BY <1>2 DEF FramesJudge, SettledInv
<1>4. CASE i # 1
  BY <1>1, <1>2, <1>3, <1>4, ConditionalNotes, FrameKept
<1>5. CASE i = 1
  <2> DEFINE f == frames[1].file
             s == Contents(f)
  <2>1. Head(frames) = frames[1] /\ Remaining = frames[1].rest
    BY <1>2, Back DEF Preprocessing, Remaining
  <2>2. /\ Remaining # <<>> /\ Head(Remaining) = frames[1].rest[1]
        /\ Head(Remaining).op \in Conditional
    BY <1>2, <2>1
  <2>3. f \in File /\ FirstConditional(s) /\ frames[1].rest[1] = s[1]
    BY <1>2, <2>2, ReadGuard
  <2>4. ~frames[1].candidate
    BY <1>2 DEF PlainInv, GuardFirst
  <2>5. \A g : Contents(g)' = Contents(g) /\ (Judged(g)' <=> Judged(g))
    BY <1>1, ContentsStay DEF Judged
  <2>6. HasOnce(s) => Judged(f)
    BY <2>3, OnceJudged DEF SettledInv
  <2>7. Judged(f) => f \notin macros
    BY <1>5, GuardUndefined DEF SettledInv
  <2>8. Judged(f) => frames'[1].rest = Tail(frames[1].rest)
    BY <1>2, <2>7, ConditionalRead
  <2>9. Judged(f) => frames[1].rest = s /\ m_stack[1].seen_first = "None"
    BY <1>5, <2>3, <2>4 DEF FrameJudges
  <2>10. Judged(f) => frames'[1].candidate
    <3> SUFFICES ASSUME Judged(f) PROVE frames'[1].candidate
      OBVIOUS
    <3>1. Head(frames).rest = Contents(f) /\ f \notin macros
      BY <2>1, <2>7, <2>9
    <3> DEFINE next == [frames[1] EXCEPT !.rest = Tail(@), !.candidate = TRUE]
    <3>2. frames[1] \in Frame /\ frames \in Seq(Frame)
      BY <1>2, Back DEF Preprocessing
    <3>3. next.candidate
      BY <3>2 DEF Frame
    <3>4. frames' = [frames EXCEPT ![1] = next]
      BY <1>2, <2>1, <3>1, <3>2 DEF IfOrIfndef
    <3> HIDE DEF next
    <3> QED BY <1>2, <3>3, <3>4
  <2>11. /\ m_stack[1].seen_first # "None" =>
              m_stack'[1].seen_first = m_stack[1].seen_first
         /\ m_stack[1].seen_first = "None" =>
              (m_stack'[1].seen_first = "Ifndef" <=> s[1].op = "ifndef")
    BY <2>2, <2>3, ConditionalNotes
  <2>12. HasOnce(s) => f \in once' \/ HasOnce(frames'[1].rest)
    <3> SUFFICES ASSUME HasOnce(s) PROVE f \in once' \/ HasOnce(frames'[1].rest)
      OBVIOUS
    <3>1. f \in once \/ HasOnce(frames[1].rest)
      BY <1>5 DEF FrameJudges
    <3>2. HasOnce(frames[1].rest) => HasOnce(Tail(frames[1].rest))
      BY <1>2, TailHasOnce DEF Conditional
    <3> QED BY <1>1, <2>6, <2>8, <3>1, <3>2
  <2>13. /\ m_stack[1].seen_first = "Ifndef" => s[1].op = "ifndef"
    BY <1>5 DEF FrameJudges
  <2>14. m_stack'[1].seen_first = "Ifndef" => s[1].op = "ifndef"
    BY <2>11, <2>13
  <2> QED BY <1>2, <1>5, <2>3, <2>5, <2>9, <2>10, <2>11, <2>12, <2>14
          DEF FrameJudges
<1> QED BY <1>4, <1>5

LEMMA FramesStayJudged ==
  ASSUME IInv, Plain(program), Settled(program), PlainInv, ReplacementsKnown,
         SettledInv, [Next]_vars
  PROVE  FramesJudge'
<1>1. FramesJudge
  BY DEF SettledInv
<1>2. CASE Reads
  BY <1>1, <1>2, ReadJudges
<1>3. CASE IfOrIfndef
  BY <1>3, ConditionalJudges
<1>4. CASE EnterFile
  <2>1. UNCHANGED <<program, overwrites>> /\ once \subseteq once'
    BY <1>4, OnceGrows
  <2>2. /\ Len(frames') = Len(frames) + 1 /\ Len(frames) \in Nat
        /\ frames'[1].file = pending /\ frames'[1].rest = Contents(pending)
        /\ DOMAIN frames' = 1..Len(frames')
        /\ \A i \in DOMAIN frames' :
             i # 1 => i - 1 \in DOMAIN frames /\ frames'[i] = frames[i - 1]
    BY <1>4, FileEntered
  <2>3. DOMAIN m_stack' = DOMAIN frames'
    BY <1>4, EnterFileKeeps DEF IInv, StackInSync, TypeOK
  <2>4. ASSUME NEW k \in DOMAIN frames', k # Len(frames'), k # 1
        PROVE  FrameJudges(k)'
    <3>1. /\ k - 1 \in DOMAIN frames /\ k - 1 # Len(frames)
          /\ frames'[k] = frames[k - 1]
          /\ m_stack'[k].seen_first = m_stack[k - 1].seen_first
      BY <1>4, <2>2, <2>3, <2>4, EnteredNotes
    <3>2. FrameJudges(k - 1)
      BY <1>1, <3>1 DEF FramesJudge
    <3> QED BY <2>1, <3>1, <3>2, FrameKept
  <2>5. FrameJudges(1)'
    <3>1. m_stack'[1].seen_first = "None"
      BY <1>4, EnteredNotes
    <3>2. Contents(pending)' = Contents(pending)'
      OBVIOUS
    <3>3. \A f : Contents(f)' = Contents(f)
      BY <2>1, ContentsStay
    <3> QED BY <2>2, <3>1, <3>3 DEF FrameJudges
  <2> QED BY <2>4, <2>5 DEF FramesJudge
<1>5. CASE Leaves
  <2>1. UNCHANGED <<program, overwrites>> /\ once \subseteq once'
    BY <1>5, OnceGrows
  <2>2. /\ Len(frames') = Len(frames) - 1 /\ Len(frames) \in Nat
        /\ \A i \in DOMAIN frames' :
             i + 1 \in DOMAIN frames /\ frames'[i] = frames[i + 1]
        /\ DOMAIN frames' = 1..Len(frames')
    BY <1>5, FileLeft
  <2> SUFFICES ASSUME NEW k \in DOMAIN frames', k # Len(frames')
               PROVE  FrameJudges(k)'
    BY DEF FramesJudge
  <2>3. /\ k + 1 \in DOMAIN frames /\ k + 1 # Len(frames)
        /\ frames'[k] = frames[k + 1]
        /\ m_stack'[k].seen_first = m_stack[k + 1].seen_first
    BY <1>5, <2>2, LeftNotes
  <2>4. FrameJudges(k + 1)
    BY <1>1, <2>3 DEF FramesJudge
  <2> QED BY <2>1, <2>3, <2>4, FrameKept
<1>6. CASE FileSkipped \/ EndOfMainFile \/ Finish \/ Quiet
  <2>1. UNCHANGED <<program, overwrites>> /\ once \subseteq once' /\ frames' = frames
    BY <1>6, OnceGrows, EndStep, QuietStep
  <2>2. \A i \in DOMAIN frames : m_stack'[i].seen_first = m_stack[i].seen_first
    BY <1>6, OtherNotes DEF SameNotes, IInv, StackInSync, TypeOK
  <2> SUFFICES ASSUME NEW k \in DOMAIN frames, k # Len(frames)
               PROVE  FrameJudges(k)'
    BY <2>1 DEF FramesJudge
  <2>3. FrameJudges(k)
    BY <1>1 DEF FramesJudge
  <2> QED BY <2>1, <2>2, <2>3, FrameKept
<1>7. CASE EnterSource
  <2>1. DOMAIN frames' = {1} /\ Len(frames') = 1
    BY <1>7 DEF EnterSource
  <2> QED BY <2>1 DEF FramesJudge
<1>8. CASE EndSourceFileAction
  <2>1. DOMAIN frames' = {}
    BY <1>8 DEF EndSourceFileAction
  <2> QED BY <2>1 DEF FramesJudge
<1> QED BY <1>2, <1>3, <1>4, <1>5, <1>6, <1>7, <1>8, StepKinds

-----------------------------------------------------------------------------
(* The macros of guards, and #pragma once.                                 *)

LEMMA MacrosStayGuards ==
  ASSUME IInv, IInv', Plain(program), Settled(program), PlainInv,
         ReplacementsKnown, SettledInv, [Next]_vars
  PROVE  MacrosGuard'
<1>1. UNCHANGED program
  BY ProgramFixed
<1>2. \A f : Judged(f)' <=> Judged(f)
  BY <1>1 DEF Judged
<1> SUFFICES ASSUME NEW f \in (macros' \cap File) \ ToSet(program.sources),
                    FirstConditional(Contents(f)'), Judged(f)
             PROVE  \/ f \in controlling'
                    \/ \E i \in DOMAIN frames' :
                         /\ i # Len(frames') /\ frames'[i].file = f
                         /\ frames'[i].candidate
  BY <1>1, <1>2 DEF MacrosGuard, FirstConditional
<1>3. FirstConditional(Contents(f))
  <2>1. CASE EndSourceFileAction
    <3>1. DOMAIN overwrites \subseteq DOMAIN overwrites'
      BY <2>1 DEF EndSourceFileAction
    <3>2. f \notin DOMAIN overwrites'
      <4> SUFFICES ASSUME f \in DOMAIN overwrites' PROVE FALSE
        OBVIOUS
      <4>1. /\ Contents(f)' = <<Once>> \o overwrites'[f]
            /\ overwrites'[f] \in Seq(Item)
        BY DEF Contents, IInv, TypeOK
      <4>2. (Contents(f)')[1] = Once
        BY <4>1, SeqPush, MadeItems
      <4> QED BY <4>2 DEF FirstConditional, Conditional, Once
    <3> QED BY <1>1, <3>1, <3>2 DEF Contents
  <2>2. CASE ~EndSourceFileAction
    BY <1>1, <2>2, StepGrows, ContentsStay
  <2> QED BY <2>1, <2>2
<1>4. CASE MacroDefined /\ f \notin macros
  <2>1. Reads
    BY <1>4 DEF Reads
  <2>2. /\ Preprocessing /\ Remaining # <<>> /\ Advance
        /\ Head(Remaining).op = "define" /\ f = Head(Remaining).macro
    BY <1>4, <2>1, ReadsItem DEF MacroDefined, Lexing
  <2>3. f = frames[1].file /\ ~InPredefines
    BY <2>2, NextPlainItem DEF PlainInv
  <2>4. /\ Len(frames') = Len(frames) /\ DOMAIN frames' = DOMAIN frames
        /\ 1 \in DOMAIN frames
        /\ frames'[1].file = frames[1].file
        /\ frames'[1].candidate = frames[1].candidate
        /\ Head(Remaining) = frames[1].rest[1]
    BY <2>2, <2>3, ItemRead
  <2>5. 1 # Len(frames)
    BY <2>2, <2>3, MainIsSource DEF PlainInv, Preprocessing
  <2>6. FrameJudges(1)
    BY <2>4, <2>5 DEF SettledInv, FramesJudge
  <2>7. frames[1].rest # Contents(f)
    BY <1>3, <2>2, <2>4 DEF FirstConditional, Conditional
  <2>8. frames[1].candidate
    BY <1>3, <2>3, <2>6, <2>7 DEF FrameJudges
  <2> QED BY <2>3, <2>4, <2>5, <2>8
<1>5. ASSUME f \in macros, f \notin controlling
      PROVE  \E i \in DOMAIN frames :
               i # Len(frames) /\ frames[i].file = f /\ frames[i].candidate
  BY <1>3, <1>5 DEF SettledInv, MacrosGuard
<1>6. CASE f \in macros /\ Reads
  <2>1. controlling' = controlling /\ Preprocessing /\ Remaining # <<>> /\ Advance
    BY <1>6, ReadsItem
  <2>2. /\ Len(frames') = Len(frames) /\ DOMAIN frames' = DOMAIN frames
        /\ \A i \in DOMAIN frames : /\ frames'[i].file = frames[i].file
                                    /\ frames'[i].candidate = frames[i].candidate
    BY <2>1, ItemRead
  <2> QED BY <1>5, <1>6, <2>1, <2>2
<1>7. CASE f \in macros /\ IfOrIfndef
  <2>1. controlling' = controlling
    BY <1>7, EnterStep
  <2>2. /\ Len(frames') = Len(frames) /\ DOMAIN frames' = DOMAIN frames
        /\ 1 \in DOMAIN frames
        /\ \A i \in DOMAIN frames : i # 1 => frames'[i] = frames[i]
        /\ 1 \in DOMAIN frames[1].rest /\ frames[1].rest[1].op \in Conditional
    BY <1>7, ConditionalRead
  <2>3. ~frames[1].candidate
    BY <2>2 DEF PlainInv, GuardFirst
  <2> QED BY <1>5, <1>7, <2>1, <2>2, <2>3
<1>8. CASE f \in macros /\ EnterFile
  <2>1. controlling' = controlling
    BY <1>8, EnterStep
  <2>2. /\ Len(frames') = Len(frames) + 1 /\ DOMAIN frames = 1..Len(frames)
        /\ Len(frames) \in Nat
        /\ \A i \in DOMAIN frames :
             i + 1 \in DOMAIN frames' /\ frames'[i + 1] = frames[i]
    BY <1>8, FileEntered
  <2> SUFFICES ASSUME f \notin controlling
               PROVE  \E i \in DOMAIN frames' :
                        /\ i # Len(frames') /\ frames'[i].file = f
                        /\ frames'[i].candidate
    BY <2>1
  <2>3. PICK i \in DOMAIN frames :
          i # Len(frames) /\ frames[i].file = f /\ frames[i].candidate
    BY <1>5, <1>8
  <2>4. i + 1 # Len(frames')
    BY <2>2, <2>3
  <2> QED BY <2>2, <2>3, <2>4
<1>9. CASE f \in macros /\ Leaves
  <2>1. /\ Len(frames') = Len(frames) - 1 /\ DOMAIN frames = 1..Len(frames)
        /\ Len(frames) \in Nat /\ Head(frames) = frames[1]
        /\ \A i \in DOMAIN frames :
             i # 1 => i - 1 \in DOMAIN frames' /\ frames[i] = frames'[i - 1]
    BY <1>9, FileLeft
  <2>2. controlling' = Controlling
    BY <1>9 DEF Leaves, ExitUnguarded, ExitGuardedFirst, ExitGuardedAgain, LeaveFile
  <2> SUFFICES ASSUME f \notin controlling'
               PROVE  \E i \in DOMAIN frames' :
                        /\ i # Len(frames') /\ frames'[i].file = f
                        /\ frames'[i].candidate
    OBVIOUS
  <2>3. f \notin controlling
    BY <2>2 DEF Controlling
  <2>4. PICK i \in DOMAIN frames :
          i # Len(frames) /\ frames[i].file = f /\ frames[i].candidate
    BY <1>5, <1>9, <2>3
  <2>5. i # 1
    BY <2>1, <2>2, <2>4 DEF Controlling
  <2>6. i - 1 # Len(frames')
    BY <2>1, <2>4
  <2> QED BY <2>1, <2>4, <2>5, <2>6
<1>10. CASE f \in macros /\ (FileSkipped \/ EndOfMainFile \/ Finish \/ Quiet)
  <2>1. frames' = frames /\ controlling' = controlling
    BY <1>10, EndStep, QuietStep
  <2> QED BY <1>5, <1>10, <2>1
<1>11. CASE EnterSource
  BY <1>11 DEF EnterSource, Plain
<1>12. CASE EndSourceFileAction
  <2>1. macros' = macros /\ controlling' = controlling /\ phase = "end"
    BY <1>12 DEF EndSourceFileAction
  <2>2. Len(frames) = 1 /\ DOMAIN frames = 1..Len(frames)
    BY <2>1 DEF IInv, StackInSync, TypeOK
  <2> QED BY <1>5, <2>1, <2>2
<1>13. MacroDefined \/ f \in macros
  BY MacrosDefined
<1> QED BY <1>4, <1>6, <1>7, <1>8, <1>9, <1>10, <1>11, <1>12, <1>13, StepKinds
        DEF Reads

LEMMA OnceStaysJudged ==
  ASSUME IInv, Plain(program), Settled(program), PlainInv, ReplacementsKnown,
         SettledInv, [Next]_vars
  PROVE  OnceGuards'
<1>1. \A f : Judged(f)' <=> Judged(f)
  BY ProgramFixed DEF Judged
<1> SUFFICES ASSUME NEW f \in once' PROVE f \in File /\ Judged(f)
  BY <1>1 DEF OnceGuards
<1>2. CASE f \in once
  BY <1>2 DEF SettledInv, OnceGuards
<1>3. CASE f \notin once
  <2>1. PragmaOnce
    <3>1. CASE Reads /\ ~PragmaOnce
      <4>1. CASE InclusionDirective \/ InclusionFromDone
        BY <1>3, <3>1, <4>1, ReadStep
      <4>2. CASE ~(InclusionDirective \/ InclusionFromDone)
        BY <1>3, <3>1, <4>2
           DEF Reads, LexTokens, SkipExcluded, PragmaDirective, MacroDefined,
               MacroUndefined, MissingInclude
      <4> QED BY <4>1, <4>2
    <3>2. CASE Leaves
      BY <1>3, <3>2, FileLeft
    <3>3. CASE EnterSource \/ EndSourceFileAction
      BY <1>3, <3>3 DEF EnterSource, EndSourceFileAction
    <3> QED BY <1>3, <3>1, <3>2, <3>3, StepKinds, QuietStep, EndStep, EnterStep
            DEF Reads
  <2>2. /\ Preprocessing /\ Remaining # <<>> /\ Head(Remaining).op = "once"
        /\ Len(frames) > 1 /\ f = Head(frames).file
    BY <1>3, <2>1 DEF PragmaOnce, Lexing
  <2>3. f = frames[1].file /\ ~InPredefines
    <3>1. Len(frames) # 1
      <4>1. Len(frames) \in Nat
        BY DEF IInv, TypeOK
      <4>2. \A n \in Nat : n > 1 => n # 1
        OBVIOUS
      <4> QED BY <2>2, <4>1, <4>2
    <3> QED BY <2>2, <3>1, Back DEF Preprocessing, InPredefines
  <2>4. f \in File /\ HasOnce(Contents(f))
    BY <2>2, <2>3, ReadGuard
  <2> QED BY <2>4, OnceJudged DEF SettledInv
<1> QED BY <1>2, <1>3

(* A file is left as guarded if and only if its script is guarded.         *)
LEMMA ExitJudges ==
  ASSUME IInv, PlainInv, SettledInv, LeavingFile
  PROVE  Guarded <=> Judged(frames[1].file)
<1>1. /\ Head(frames) = frames[1] /\ Head(m_stack) = m_stack[1]
      /\ 1 \in DOMAIN frames /\ frames[1].rest = <<>> /\ 1 # Len(frames)
      /\ frames[1].file \in File
  <2>1. phase = "preprocess" /\ Len(frames) > 1 /\ Head(frames).rest = <<>>
    BY DEF LeavingFile, Preprocessing
  <2>2. Len(frames) \in Nat /\ \A n \in Nat : n > 1 => n # 1
    BY DEF IInv, TypeOK
  <2> QED BY <2>1, <2>2, Back DEF Frame
<1>2. PICK f \in File : f = frames[1].file
  BY <1>1
<1>3. Contents(f) \in Seq(Item)
  BY ContentsTyped DEF IInv
<1>4. PICK s : s = Contents(f)
  OBVIOUS
<1>5. FrameJudges(1)
  BY <1>1 DEF SettledInv, FramesJudge
<1>6. /\ HasOnce(s) => f \in once
      /\ FirstConditional(s) /\ Judged(f) =>
           /\ frames[1].candidate
           /\ s[1].op = "ifndef" => m_stack[1].seen_first = "Ifndef"
      /\ m_stack[1].seen_first = "Ifndef" => FirstConditional(s) /\ s[1].op = "ifndef"
  <2>1. ~HasOnce(<<>>) /\ ~FirstConditional(<<>>)
    BY DEF HasOnce, FirstConditional
  <2> QED BY <1>1, <1>2, <1>4, <1>5, <2>1 DEF FrameJudges
<1>7. Guarded <=> \/ f \in once
                  \/ /\ f \in Controlling
                     /\ m_stack[1].seen_first = "Ifndef"
  BY <1>1, <1>2 DEF Guarded
<1>8. ASSUME Guarded PROVE Judged(f)
  <2>1. CASE f \in once
    BY <2>1 DEF SettledInv, OnceGuards
  <2>2. CASE m_stack[1].seen_first = "Ifndef"
    <3>1. f \notin DOMAIN overwrites /\ Contents(f) = program.script[f]
      BY <1>4, <1>6, <2>2, TestedIsScript DEF IInv, PlainInv
    <3>2. Len(program.script[f]) > 0 /\ program.script[f][1].op = "ifndef"
      BY <1>3, <1>4, <1>6, <2>2, <3>1 DEF FirstConditional
    <3> QED BY <3>2 DEF Judged, IsGuardedScript
  <2> QED BY <1>7, <1>8, <2>1, <2>2
<1>9. ASSUME Judged(f) PROVE Guarded
  <2>1. CASE HasOnce(s)
    BY <1>6, <1>7, <2>1
  <2>2. CASE ~HasOnce(s)
    <3>1. f \notin DOMAIN overwrites
      <4> SUFFICES ASSUME f \in DOMAIN overwrites PROVE FALSE
        OBVIOUS
      <4>1. Contents(f) = <<Once>> \o overwrites[f] /\ overwrites[f] \in Seq(Item)
        BY DEF Contents, IInv, TypeOK
      <4>2. Contents(f)[1] = Once /\ 1 \in DOMAIN Contents(f)
        BY <4>1, SeqPush, MadeItems
      <4> QED BY <1>4, <2>2, <4>2 DEF HasOnce, Once
    <3>2. FirstConditional(s) /\ s[1].op = "ifndef"
      BY <1>4, <1>9, <2>2, <3>1, TestedIfGuarded DEF IInv
    <3>3. f \in Controlling
      BY <1>1, <1>2, <1>6, <1>9, <3>2 DEF Controlling
    <3> QED BY <1>6, <1>7, <1>9, <3>2, <3>3
  <2> QED BY <2>1, <2>2
<1> QED BY <1>2, <1>8, <1>9

-----------------------------------------------------------------------------
(* The files that have been left.                                          *)

LEMMA UnguardedUntouched ==
  ASSUME [Next]_vars, ~Leaves
  PROVE  UNCHANGED unguarded_files
<1>1. CASE InclusionDirective
  BY <1>1, Zenon DEF InclusionDirective
<1>2. CASE Reads /\ ~InclusionDirective
  BY <1>2 DEF Reads, LexTokens, SkipExcluded, PragmaOnce, PragmaDirective,
              MacroDefined, MacroUndefined, MissingInclude, InclusionFromDone,
              resultVars
<1>3. CASE IfOrIfndef \/ EnterFile \/ FileSkipped \/ EndOfMainFile
  BY <1>3 DEF IfOrIfndef, EnterFile, FileSkipped, EndOfMainFile, resultVars
<1>4. CASE EnterSource \/ EndSourceFileAction \/ Finish
  BY <1>4 DEF EnterSource, EndSourceFileAction, Finish, resultVars
<1>5. CASE Quiet
  BY <1>5 DEF Quiet, Fails, SourceSeenBefore, NewIncludeFromDone,
              CostAssignedTwice, Fail, Stutter, vars, resultVars
<1> QED BY <1>1, <1>2, <1>3, <1>4, <1>5, StepKinds

(* A file is processed when it is left for the first time.                 *)
LEMMA ProcessedStep ==
  ASSUME IInv, Plain(program), PlainInv, [Next]_vars, ~EndSourceFileAction,
         NEW u \in DOMAIN id_to_node', id_to_node'[u].fully_processed
  PROVE  /\ u \in DOMAIN id_to_node /\ id_to_node'[u].v = id_to_node[u].v
         /\ \/ id_to_node[u].fully_processed
            \/ ExitUnguarded \/ ExitGuardedFirst
<1>1. CASE InclusionDirective
  BY <1>1, InclusionEntries
<1>2. CASE EnterSource
  BY <1>2, StartedEntries
<1>3. CASE MacroDefined \/ MacroUndefined
  BY <1>3, MacroStepKept
<1>4. CASE ExitUnguarded \/ ExitGuardedFirst
  <2>1. id_to_node' = MarkedProcessed /\ phase = "preprocess"
    BY <1>4 DEF ExitUnguarded, ExitGuardedFirst, LeavingFile, Preprocessing
  <2> QED BY <1>4, <2>1, ProcessedEntries
<1> QED BY <1>1, <1>2, <1>3, <1>4, EntriesUntouched

LEMMA EntriesStayJudged ==
  ASSUME IInv, IInv', Plain(program), PlainInv, SettledInv, [Next]_vars
  PROVE  EntriesJudged'
<1>1. \A f : Judged(f)' <=> Judged(f)
  BY ProgramFixed DEF Judged
<1> SUFFICES ASSUME NEW u \in DOMAIN id_to_node', id_to_node'[u].fully_processed
             PROVE  /\ nodes'[id_to_node'[u].v].is_guarded <=> Judged(u[1])
                    /\ id_to_node'[u].v \in unguarded_files' <=> ~Judged(u[1])
  BY <1>1 DEF EntriesJudged
<1>2. CASE EndSourceFileAction
  <2>1. PICK w \in DOMAIN id_to_node : id_to_node'[u] = id_to_node[w] /\ w[1] = u[1]
    BY <1>2, MovedEntry
  <2>2. UNCHANGED <<nodes, unguarded_files>>
    BY <1>2 DEF EndSourceFileAction, resultVars
  <2> QED BY <2>1, <2>2 DEF SettledInv, EntriesJudged
<1>3. CASE ~EndSourceFileAction
  <2>1. /\ u \in DOMAIN id_to_node /\ id_to_node'[u].v = id_to_node[u].v
        /\ \/ id_to_node[u].fully_processed
           \/ ExitUnguarded \/ ExitGuardedFirst
    BY <1>3, ProcessedStep
  <2>2. PICK v \in DOMAIN nodes : v = id_to_node[u].v
    BY <2>1 DEF IInv, VerticesIdentified
  <2>3. id_to_node[u].fully_processed =>
          /\ nodes[v].is_guarded <=> Judged(u[1])
          /\ v \in unguarded_files <=> ~Judged(u[1])
    BY <2>1, <2>2 DEF SettledInv, EntriesJudged
  <2>4. CASE ~Leaves
    <3>1. id_to_node[u].fully_processed /\ unguarded_files' = unguarded_files
      BY <2>1, <2>4, UnguardedUntouched DEF Leaves
    <3>2. nodes'[v].is_guarded = nodes[v].is_guarded
      <4>1. SameFile(nodes'[v], nodes[v]) \/ Marked(v)
        BY VertexStep
      <4> QED BY <2>4, <4>1 DEF SameFile, Marked, Leaves
    <3> QED BY <2>1, <2>2, <2>3, <3>1, <3>2
  <2>5. CASE Leaves /\ v # BackState.v
    <3>1. phase = "preprocess"
      BY <2>5, FileLeft DEF Preprocessing
    <3>2. id_to_node[u].fully_processed
      <4>1. CASE ExitUnguarded \/ ExitGuardedFirst
        <5>1. id_to_node' = MarkedProcessed
          BY <4>1 DEF ExitUnguarded, ExitGuardedFirst
        <5>2. u # Head(m_stack).id
          BY <2>2, <2>5 DEF BackState
        <5> QED BY <2>1, <3>1, <5>1, <5>2, ProcessedEntries
      <4> QED BY <2>1, <4>1
    <3>3. v \in unguarded_files' <=> v \in unguarded_files
      BY <2>5 DEF Leaves, ExitUnguarded, ExitGuardedFirst, ExitGuardedAgain
    <3>4. SameFile(nodes'[v], nodes[v])
      BY <2>5, VertexStep DEF Marked
    <3> QED BY <2>1, <2>2, <2>3, <3>2, <3>3, <3>4 DEF SameFile
  <2>6. CASE Leaves /\ v = BackState.v
    <3>1. LeavingFile /\ phase = "preprocess"
      BY <2>6 DEF Leaves, ExitUnguarded, ExitGuardedFirst, ExitGuardedAgain,
                  LeavingFile, Preprocessing
    <3>2. u[1] = frames[1].file
      BY <2>1, <2>2, <2>6, <3>1, MarkedIsTop
    <3>3. Guarded <=> Judged(u[1])
      BY <3>1, <3>2, ExitJudges
    <3>4. u = Head(m_stack).id
      BY <2>1, <2>2, <2>6, <3>1, MarkedIsTop
    <3>5. BackState.fully_processed <=> id_to_node[u].fully_processed
      BY <3>4 DEF BackState
    <3>6. CASE ExitUnguarded
      <4>1. /\ ~Guarded /\ unguarded_files' = unguarded_files \cup {v}
            /\ nodes' = nodes
        BY <2>6, <3>6 DEF ExitUnguarded
      <4>2. ~nodes[v].is_guarded
        BY <2>3, <2>6, <3>1, <3>3, <3>5, <4>1, CostUnset
      <4> QED BY <2>1, <2>2, <3>3, <4>1, <4>2
    <3>7. CASE ExitGuardedFirst
      <4>1. /\ Guarded /\ unguarded_files' = unguarded_files \ {v}
            /\ nodes' = MarkedGuarded(v)
        BY <2>6, <3>7 DEF ExitGuardedFirst
      <4>2. nodes'[v].is_guarded
        BY <2>6, <3>1, <4>1, MarkedGuardedGrows
      <4> QED BY <2>1, <2>2, <3>3, <4>1, <4>2
    <3>8. CASE ExitGuardedAgain
      <4>1. /\ Guarded /\ unguarded_files' = unguarded_files \ {v}
            /\ nodes' = nodes /\ BackState.fully_processed
        BY <2>6, <3>8 DEF ExitGuardedAgain
      <4> QED BY <2>1, <2>2, <2>3, <3>3, <3>5, <4>1
    <3> QED BY <2>6, <3>6, <3>7, <3>8 DEF Leaves
  <2> QED BY <2>4, <2>5, <2>6
<1> QED BY <1>2, <1>3

-----------------------------------------------------------------------------
LEMMA SettledInvKept ==
  ASSUME IInv, IInv', ReplacementsKnown, Plain(program), PlainInv,
         Settled(program), SettledInv, [Next]_vars
  PROVE  Settled(program)' /\ SettledInv'
<1>1. Settled(program)'
  BY ProgramFixed DEF Settled, Closes, IncludesItself
<1>2. StackBelow'
  BY StaysBelow DEF SettledInv
<1> QED BY <1>1, <1>2, EntriesStayJudged, FramesStayJudged, MacrosStayGuards,
           OnceStaysJudged DEF SettledInv

LEMMA SettledInvInitially ==
  ASSUME Init
  PROVE  SettledInv
<1>1. /\ DOMAIN frames = {} /\ DOMAIN id_to_node = {} /\ macros = {} /\ once = {}
  BY DEF Init
<1> QED BY <1>1 DEF SettledInv, EntriesJudged, StackBelow, FramesJudge,
                    MacrosGuard, OnceGuards

LEMMA SettledInvariant ==
  Spec /\ Plain(program) /\ Settled(program) => [](Settled(program) /\ SettledInv)
<1>1. Init => SettledInv
  BY SettledInvInitially
<1>2. IInv /\ IInv' /\ ReplacementsKnown /\ (Plain(program) /\ PlainInv)
        /\ (Settled(program) /\ SettledInv) /\ [Next]_vars
        => (Settled(program) /\ SettledInv)'
  BY SettledInvKept
<1> QED BY <1>1, <1>2, InductiveInvariant, PlainInvariant,
           ReplacementsAlwaysKnown, PTL DEF Spec

(* On a settled plain program, every file that has been left is marked     *)
(* guarded or reported as unguarded, never both and never neither (lines   *)
(* 530-568): whichever visit judged it, the judgement is that of its       *)
(* script.                                                                 *)
THEOREM GuardsAlwaysJudged ==
  Spec /\ Plain(program) /\ Settled(program) => []GuardedOrReported
<1>1. SettledInv => GuardedOrReported
  BY DEF SettledInv, EntriesJudged, GuardedOrReported
<1> QED BY <1>1, SettledInvariant, PTL

-----------------------------------------------------------------------------
(***************************************************************************)
(* What a file gathers.  Amount is what an item brings its file if w is    *)
(* what every header pushes; Total is what the items of a sequence bring,  *)
(* added up from the first one on.                                         *)
(***************************************************************************)
Amount(w, item) == IF item.op = "include" THEN w[item.file] ELSE 0

RunningTotal(w, s, p) ==
  /\ p \in [0..Len(s) -> Nat]
  /\ p[0] = 0
  /\ \A k \in 1..Len(s) : p[k] = p[k - 1] + Amount(w, s[k])

Total(w, s) == (CHOOSE p : RunningTotal(w, s, p))[Len(s)]

LEMMA LeastNumber ==
  ASSUME NEW T \in SUBSET Nat, T # {}
  PROVE  \E n \in T : \A m \in T : n <= m
<1>1. PICK n \in T : \A m \in T : ~(<<m, n>> \in OpToRel(<, Nat))
  BY NatLessThanWellFounded, WFMin, Zenon
<1>2. \A m \in T : ~(m < n)
  BY <1>1 DEF OpToRel
<1> QED BY <1>2

LEMMA AmountTyped ==
  ASSUME NEW w \in [File -> Nat], NEW item \in Item
  PROVE  Amount(w, item) \in Nat
BY ItemFields DEF Amount

LEMMA TotalExists ==
  ASSUME NEW w \in [File -> Nat], NEW s \in Seq(Item)
  PROVE  \E p : RunningTotal(w, s, p)
<1> DEFINE Upto(n, p) == /\ p \in [0..n -> Nat]
                         /\ p[0] = 0
                         /\ \A k \in 1..n : p[k] = p[k - 1] + Amount(w, s[k])
           Bad == {n \in 0..Len(s) : ~ \E p : Upto(n, p)}
<1>1. \A k \in 1..Len(s) : Amount(w, s[k]) \in Nat
  BY AmountTyped
<1>2. Upto(0, [k \in 0..0 |-> 0])
  OBVIOUS
<1>3. ASSUME NEW n \in 0..Len(s), n + 1 \in 0..Len(s), NEW p, Upto(n, p)
      PROVE  \E q : Upto(n + 1, q)
  <2> DEFINE x == p[n] + Amount(w, s[n + 1])
             q == [k \in 0..(n + 1) |-> IF k = n + 1 THEN x ELSE p[k]]
  <2>1. n \in Nat /\ n + 1 \in 1..Len(s) /\ x \in Nat
    BY <1>1, <1>3
  <2> HIDE DEF x
  <2>2. q \in [0..(n + 1) -> Nat] /\ q[0] = 0 /\ q[n + 1] = x
        /\ \A k \in 0..n : q[k] = p[k]
    BY <1>3, <2>1
  <2> HIDE DEF q
  <2>3. ASSUME NEW k \in 1..(n + 1)
        PROVE  q[k] = q[k - 1] + Amount(w, s[k])
    <3>1. CASE k = n + 1
      BY <2>1, <2>2, <3>1 DEF x
    <3>2. CASE k # n + 1
      <4>1. k \in 1..n /\ k \in 0..n /\ k - 1 \in 0..n
        BY <2>1, <3>2
      <4> QED BY <1>3, <2>2, <4>1
    <3> QED BY <3>1, <3>2
  <2> QED BY <2>2, <2>3
<1> HIDE DEF Upto
<1>4. Bad = {}
  <2> SUFFICES ASSUME Bad # {} PROVE FALSE
    OBVIOUS
  <2>1. PICK n \in Bad : \A m \in Bad : n <= m
    <3>1. Bad \in SUBSET Nat
      OBVIOUS
    <3> HIDE DEF Bad
    <3> QED BY LeastNumber, <3>1
  <2>2. n \in 0..Len(s) /\ n # 0 /\ Len(s) \in Nat
    BY <1>2
  <2>3. n - 1 \in 0..Len(s) /\ n - 1 \notin Bad /\ (n - 1) + 1 = n
    BY <2>1, <2>2
  <2>4. PICK p : Upto(n - 1, p)
    BY <2>3
  <2>5. \E q : Upto((n - 1) + 1, q)
    BY <1>3, <2>2, <2>3, <2>4
  <2> QED BY <2>3, <2>5
<1>5. Len(s) \in 0..Len(s)
  OBVIOUS
<1>6. PICK p : Upto(Len(s), p)
  BY <1>4, <1>5
<1> QED BY <1>6 DEF RunningTotal, Upto

LEMMA TotalIsLast ==
  ASSUME NEW w \in [File -> Nat], NEW s \in Seq(Item)
  PROVE  \E p : RunningTotal(w, s, p) /\ Total(w, s) = p[Len(s)]
BY TotalExists, Zenon DEF Total

(* Two ways to add up the same amounts.                                    *)
LEMMA TotalsAgree ==
  ASSUME NEW n \in Nat, NEW p, NEW q, p[0] = q[0],
         \A k \in 1..n : p[k - 1] = q[k - 1] => p[k] = q[k]
  PROVE  p[n] = q[n]
<1> DEFINE Bad == {k \in 0..n : p[k] # q[k]}
<1>1. Bad = {}
  <2> SUFFICES ASSUME Bad # {} PROVE FALSE
    OBVIOUS
  <2>1. PICK m \in Bad : \A k \in Bad : m <= k
    <3>1. Bad \in SUBSET Nat
      OBVIOUS
    <3> HIDE DEF Bad
    <3> QED BY LeastNumber, <3>1
  <2>2. m \in 1..n /\ m - 1 \in 0..n /\ m - 1 \notin Bad
    BY <2>1
  <2> QED BY <2>2
<1> QED BY <1>1

LEMMA TotalOfNothing ==
  ASSUME NEW w \in [File -> Nat]
  PROVE  Total(w, <<>>) = 0
<1>1. <<>> \in Seq(Item) /\ Len(<<>>) = 0
  OBVIOUS
<1>2. PICK p : RunningTotal(w, <<>>, p) /\ Total(w, <<>>) = p[Len(<<>>)]
  BY <1>1, TotalIsLast
<1> QED BY <1>1, <1>2 DEF RunningTotal

LEMMA TotalOfTail ==
  ASSUME NEW w \in [File -> Nat], NEW s \in Seq(Item), s # <<>>
  PROVE  /\ Total(w, s) = Amount(w, Head(s)) + Total(w, Tail(s))
         /\ Total(w, Tail(s)) \in Nat /\ Amount(w, Head(s)) \in Nat
<1>1. /\ Len(s) \in Nat /\ Len(s) >= 1 /\ Head(s) \in Item /\ Head(s) = s[1]
      /\ Tail(s) \in Seq(Item) /\ Len(Tail(s)) = Len(s) - 1
      /\ \A i \in 1..(Len(s) - 1) : Tail(s)[i] = s[i + 1]
  BY SeqHead
<1>2. PICK p : RunningTotal(w, s, p) /\ Total(w, s) = p[Len(s)]
  BY TotalIsLast
<1>3. PICK t : RunningTotal(w, Tail(s), t) /\ Total(w, Tail(s)) = t[Len(Tail(s))]
  BY <1>1, TotalIsLast
<1>4. PICK a : a = Amount(w, Head(s))
  OBVIOUS
<1>5. a \in Nat
  BY <1>1, <1>4, AmountTyped
<1>6. PICK n \in Nat : n = Len(s) - 1
  <2>1. Len(s) \in Nat /\ Len(s) >= 1
    BY <1>1
  <2>2. Len(s) - 1 \in Nat
    BY <2>1
  <2> QED BY <2>2
<1> DEFINE late == [k \in 0..n |-> p[k + 1]]
           more == [k \in 0..n |-> a + t[k]]
<1>7. late[0] = more[0]
  <2>1. p[1] = p[0] + Amount(w, s[1]) /\ p[0] = 0
    BY <1>1, <1>2 DEF RunningTotal
  <2>2. t[0] = 0
    BY <1>3 DEF RunningTotal
  <2> QED BY <1>1, <1>4, <1>5, <2>1, <2>2
<1>8. ASSUME NEW k \in 1..n, late[k - 1] = more[k - 1]
      PROVE  late[k] = more[k]
  <2>1. p[k + 1] = p[(k + 1) - 1] + Amount(w, s[k + 1])
    BY <1>1, <1>2, <1>6 DEF RunningTotal
  <2>2. t[k] = t[k - 1] + Amount(w, Tail(s)[k]) /\ t[k - 1] \in Nat
    <3>1. k \in 1..Len(Tail(s)) /\ k - 1 \in 0..Len(Tail(s))
      BY <1>1, <1>6
    <3> QED BY <1>3, <3>1 DEF RunningTotal
  <2>3. Tail(s)[k] = s[k + 1] /\ (k + 1) - 1 = k /\ k - 1 \in 0..n
        /\ (k - 1) + 1 = k /\ k \in 0..n /\ s[k + 1] \in Item
    BY <1>1, <1>6
  <2>4. Amount(w, s[k + 1]) \in Nat
    BY <2>3, AmountTyped
  <2>5. p[k] = a + t[k - 1]
    BY <1>8, <2>3
  <2>6. t[k] = t[k - 1] + Amount(w, s[k + 1])
    BY <2>2, <2>3
  <2>7. p[k + 1] = (a + t[k - 1]) + Amount(w, s[k + 1])
    BY <2>1, <2>3, <2>5
  <2>8. p[k + 1] = a + t[k]
    <3>1. PICK b \in Nat : b = Amount(w, s[k + 1])
      BY <2>4
    <3>2. PICK c \in Nat : c = t[k - 1]
      BY <2>2
    <3>3. p[k + 1] = (a + c) + b /\ t[k] = c + b
      BY <2>6, <2>7, <3>1, <3>2
    <3> QED BY <1>5, <3>3
  <2> QED BY <2>3, <2>8
<1> HIDE DEF late, more
<1>9. late[n] = more[n]
  BY <1>7, <1>8, TotalsAgree
<1>10. p[n + 1] = a + t[n]
  BY <1>9 DEF late, more
<1>11. t[n] \in Nat /\ n + 1 = Len(s)
  BY <1>1, <1>3, <1>6 DEF RunningTotal
<1> QED BY <1>1, <1>2, <1>3, <1>4, <1>5, <1>6, <1>10, <1>11

LEMMA TotalTyped ==
  ASSUME NEW w \in [File -> Nat], NEW s \in Seq(Item)
  PROVE  Total(w, s) \in Nat
<1>1. PICK p : RunningTotal(w, s, p) /\ Total(w, s) = p[Len(s)]
  BY TotalIsLast
<1> QED BY <1>1 DEF RunningTotal

(* Only the headers that are included count.                               *)
LEMMA SameTotal ==
  ASSUME NEW w \in [File -> Nat], NEW x \in [File -> Nat], NEW s \in Seq(Item),
         \A k \in DOMAIN s : s[k].op = "include" => w[s[k].file] = x[s[k].file]
  PROVE  Total(w, s) = Total(x, s)
<1>1. PICK p : RunningTotal(w, s, p) /\ Total(w, s) = p[Len(s)]
  BY TotalIsLast
<1>2. PICK q : RunningTotal(x, s, q) /\ Total(x, s) = q[Len(s)]
  BY TotalIsLast
<1>3. \A k \in 1..Len(s) : Amount(w, s[k]) = Amount(x, s[k])
  BY DEF Amount
<1>4. p[0] = q[0] /\ \A k \in 1..Len(s) : p[k - 1] = q[k - 1] => p[k] = q[k]
  BY <1>1, <1>2, <1>3 DEF RunningTotal
<1>5. Len(s) \in Nat
  OBVIOUS
<1> QED BY <1>1, <1>2, <1>4, <1>5, TotalsAgree

(***************************************************************************)
(* The sums of the specification are such totals: of what the unguarded    *)
(* headers that are there push, when e is the size of every file.          *)
(***************************************************************************)
Pushed(e) ==
  [f \in File |-> IF f \in program.absent \/ Judged(f) THEN 0 ELSE e[f]]

Brings(e, item) == IF PushesItsCost(item) THEN e[item.file] ELSE 0

Gathered(e, s) ==
  LET Bring(item) == IF PushesItsCost(item) THEN e[item.file] ELSE 0
  IN SumOver(s, Bring)

LEMMA ExpectedSizeDef ==
  ExpectedSize =
    CHOOSE e : e = [f \in File |->
                      Overridden(program.script[f], "override_size",
                                 program.size[f] + Gathered(e, EffectiveScript(f)))]
BY Zenon DEF ExpectedSize, Gathered, SumOver, FoldLeft, MapThenFoldSet

LEMMA BringsAmount ==
  ASSUME NEW e \in [File -> Nat], NEW item \in Item
  PROVE  Brings(e, item) = Amount(Pushed(e), item)
BY ItemFields DEF Brings, Amount, Pushed, PushesItsCost, Judged

Folding(e, s, D, it) ==
  it = [S \in SUBSET D |->
          IF S = {} THEN 0 ELSE it[S \ {Max(S)}] + Brings(e, s[Max(S)])]

LEMMA GatheredDef ==
  ASSUME NEW e, NEW s
  PROVE  Gathered(e, s) = (CHOOSE it : Folding(e, s, DOMAIN s, it))[DOMAIN s]
BY Zenon DEF Gathered, SumOver, FoldLeft, MapThenFoldSet, Folding, Brings

LEMMA MaxOfFirst ==
  ASSUME NEW n \in Nat, NEW S \in SUBSET (1..(n + 1)), n + 1 \in S
  PROVE  Max(S) = n + 1
<1>1. n + 1 \in S /\ \A y \in S : n + 1 >= y
  OBVIOUS
<1>2. PICK m : m = Max(S)
  OBVIOUS
<1>3. m \in S /\ \A y \in S : m >= y
  BY <1>1, <1>2, Zenon DEF Max
<1>4. m \in 1..(n + 1) /\ m >= n + 1
  BY <1>1, <1>3
<1> QED BY <1>2, <1>4

LEMMA FoldingExists ==
  ASSUME NEW e, NEW s, NEW n \in Nat
  PROVE  \E it : Folding(e, s, 1..n, it)
<1> DEFINE Bad == {k \in Nat : ~ \E it : Folding(e, s, 1..k, it)}
<1>1. \E it : Folding(e, s, 1..0, it)
  <2> DEFINE it == [S \in SUBSET (1..0) |-> 0]
  <2>1. \A S \in SUBSET (1..0) : S = {}
    OBVIOUS
  <2>2. Folding(e, s, 1..0, it)
    BY <2>1, Zenon DEF Folding
  <2> QED BY <2>2
<1>2. ASSUME NEW k \in Nat, NEW it, Folding(e, s, 1..k, it)
      PROVE  \E jt : Folding(e, s, 1..(k + 1), jt)
  <2> DEFINE
        Step(h, S) == IF S = {} THEN 0 ELSE h[S \ {Max(S)}] + Brings(e, s[Max(S)])
        jt == [S \in SUBSET (1..(k + 1)) |-> Step(it, S)]
  <2>1. ASSUME NEW S \in SUBSET (1..k)
        PROVE  S \in SUBSET (1..(k + 1)) /\ it[S] = Step(it, S)
    <3>1. it[S] = Step(it, S)
      BY <1>2, Zenon DEF Folding
    <3>2. S \in SUBSET (1..(k + 1))
      OBVIOUS
    <3> QED BY <3>1, <3>2
  <2>2. ASSUME NEW S \in SUBSET (1..k)
        PROVE  jt[S] = it[S]
    <3> HIDE DEF Step
    <3> QED BY <2>1
  <2>3. ASSUME NEW S \in SUBSET (1..(k + 1)), S # {}
        PROVE  S \ {Max(S)} \in SUBSET (1..k)
    <3>1. PICK m : m = Max(S)
      OBVIOUS
    <3>2. k + 1 \in S => m = k + 1
      BY <1>2, <3>1, MaxOfFirst
    <3>3. ASSUME NEW j \in S, j # m
          PROVE  j \in 1..k
      BY <1>2, <3>2, <3>3
    <3>4. S \ {m} \in SUBSET (1..k)
      BY <3>3
    <3> QED BY <3>1, <3>4
  <2> HIDE DEF jt
  <2>4. ASSUME NEW S \in SUBSET (1..(k + 1))
        PROVE  Step(jt, S) = Step(it, S)
    <3>1. S # {} => jt[S \ {Max(S)}] = it[S \ {Max(S)}]
      BY <2>2, <2>3
    <3> QED BY <3>1
  <2>5. jt = [S \in SUBSET (1..(k + 1)) |-> Step(jt, S)]
    <3> HIDE DEF Step
    <3> QED BY <2>4 DEF jt
  <2>6. Folding(e, s, 1..(k + 1), jt)
    BY <2>5, Zenon DEF Folding
  <2> QED BY <2>6
<1>3. Bad = {}
  <2> SUFFICES ASSUME Bad # {} PROVE FALSE
    OBVIOUS
  <2>1. PICK m \in Bad : \A k \in Bad : m <= k
    <3>1. Bad \in SUBSET Nat
      OBVIOUS
    <3> HIDE DEF Bad
    <3> QED BY LeastNumber, <3>1
  <2>2. m \in Nat /\ m # 0
    BY <1>1
  <2>3. m - 1 \in Nat /\ m - 1 \notin Bad /\ (m - 1) + 1 = m
    BY <2>1, <2>2
  <2>4. PICK it : Folding(e, s, 1..(m - 1), it)
    BY <2>3
  <2>5. \E jt : Folding(e, s, 1..((m - 1) + 1), jt)
    BY <1>2, <2>3, <2>4
  <2> QED BY <2>3, <2>5
<1> QED BY <1>3

Gathering(e, s, q) ==
  /\ q[0] = 0
  /\ \A k \in 1..Len(s) : q[k] = q[k - 1] + Brings(e, s[k])

LEMMA GatheredSteps ==
  ASSUME NEW e, NEW s \in Seq(Item)
  PROVE  \E q : Gathering(e, s, q) /\ Gathered(e, s) = q[Len(s)]
<1>1. DOMAIN s = 1..Len(s) /\ Len(s) \in Nat
  OBVIOUS
<1>2. PICK it : Folding(e, s, DOMAIN s, it) /\ Gathered(e, s) = it[DOMAIN s]
  <2>1. \E it : Folding(e, s, DOMAIN s, it)
    BY <1>1, FoldingExists
  <2> QED BY <2>1, GatheredDef, Zenon
<1> DEFINE q == [k \in 0..Len(s) |-> it[1..k]]
<1>3. it[{}] = 0
  <2>1. {} \in SUBSET DOMAIN s
    OBVIOUS
  <2> QED BY <1>2, <2>1, Zenon DEF Folding
<1>4. q[0] = 0 /\ q[Len(s)] = it[DOMAIN s]
  BY <1>1, <1>3
<1>5. ASSUME NEW k \in 1..Len(s)
      PROVE  q[k] = q[k - 1] + Brings(e, s[k])
  <2>1. /\ 1..k \in SUBSET DOMAIN s /\ 1..k # {} /\ k - 1 \in Nat
        /\ k \in 1..k /\ (k - 1) + 1 = k
    <3>1. k \in Nat /\ k >= 1 /\ k <= Len(s)
      BY <1>1
    <3>2. k \in 1..k /\ k - 1 \in Nat /\ (k - 1) + 1 = k
      BY <3>1
    <3>3. \A j \in 1..k : j \in 1..Len(s)
      BY <1>1, <3>1
    <3> QED BY <1>1, <3>2, <3>3
  <2>2. Max(1..k) = k
    BY <2>1, MaxOfFirst
  <2>3. (1..k) \ {k} = 1..(k - 1)
    BY <2>1
  <2>4. it[1..k] = it[(1..k) \ {Max(1..k)}] + Brings(e, s[Max(1..k)])
    BY <1>2, <2>1, Zenon DEF Folding
  <2>5. q[k] = it[1..k] /\ q[k - 1] = it[1..(k - 1)]
    BY <1>1
  <2> HIDE DEF q
  <2> QED BY <2>2, <2>3, <2>4, <2>5
<1> HIDE DEF q
<1> QED BY <1>2, <1>4, <1>5 DEF Gathering

LEMMA GatheredAgree ==
  ASSUME NEW e, NEW x, NEW s \in Seq(Item),
         \A k \in DOMAIN s : Brings(e, s[k]) = Brings(x, s[k])
  PROVE  Gathered(e, s) = Gathered(x, s)
<1>1. DOMAIN s = 1..Len(s) /\ Len(s) \in Nat
  OBVIOUS
<1>2. PICK p : Gathering(e, s, p) /\ Gathered(e, s) = p[Len(s)]
  BY GatheredSteps
<1>3. PICK q : Gathering(x, s, q) /\ Gathered(x, s) = q[Len(s)]
  BY GatheredSteps
<1>4. p[0] = q[0] /\ \A k \in 1..Len(s) : p[k - 1] = q[k - 1] => p[k] = q[k]
  BY <1>1, <1>2, <1>3 DEF Gathering
<1> QED BY <1>1, <1>2, <1>3, <1>4, TotalsAgree

LEMMA GatheredIsTotal ==
  ASSUME NEW e \in [File -> Nat], NEW s \in Seq(Item)
  PROVE  Gathered(e, s) = Total(Pushed(e), s)
<1>1. DOMAIN s = 1..Len(s) /\ Len(s) \in Nat /\ \A k \in 1..Len(s) : s[k] \in Item
  OBVIOUS
<1>2. PICK w \in [File -> Nat] : w = Pushed(e)
  BY DEF Pushed
<1>3. PICK p : RunningTotal(w, s, p) /\ Total(w, s) = p[Len(s)]
  BY TotalIsLast
<1>4. PICK q : Gathering(e, s, q) /\ Gathered(e, s) = q[Len(s)]
  BY GatheredSteps
<1>5. \A k \in 1..Len(s) : Brings(e, s[k]) = Amount(w, s[k])
  BY <1>1, <1>2, BringsAmount
<1>6. p[0] = q[0] /\ \A k \in 1..Len(s) : p[k - 1] = q[k - 1] => p[k] = q[k]
  BY <1>3, <1>4, <1>5 DEF RunningTotal, Gathering
<1> QED BY <1>1, <1>2, <1>3, <1>4, <1>6, TotalsAgree

-----------------------------------------------------------------------------
(* What an override item sets.                                             *)
LEMMA LastIndex ==
  ASSUME NEW n \in Nat, NEW S \in SUBSET (1..n), S # {}
  PROVE  \E i \in S : \A j \in S : j <= i
<1> DEFINE T == {n - i : i \in S}
<1>1. T \in SUBSET Nat /\ T # {}
  <2>1. \A i \in S : n - i \in Nat
    OBVIOUS
  <2> QED BY <2>1
<1>2. PICK m \in T : \A k \in T : m <= k
  <2> HIDE DEF T
  <2> QED BY <1>1, LeastNumber
<1>3. PICK i \in S : m = n - i
  OBVIOUS
<1>4. ASSUME NEW j \in S
      PROVE  j <= i
  <2>1. m <= n - j
    BY <1>2
  <2> QED BY <1>3, <2>1
<1> QED BY <1>4

LEMMA OverriddenIs ==
  ASSUME NEW s \in Seq(Item), NEW op, NEW n
  PROVE  \/ /\ \A j \in DOMAIN s : s[j].op # op
            /\ Overridden(s, op, n) = n
         \/ \E i \in DOMAIN s : /\ s[i].op = op
                                /\ \A j \in DOMAIN s : s[j].op = op => j <= i
                                /\ Overridden(s, op, n) = s[i].n
<1> DEFINE is == {i \in DOMAIN s : s[i].op = op}
           last == CHOOSE i \in is : \A j \in is : j <= i
<1>1. Overridden(s, op, n) = IF is = {} THEN n ELSE s[last].n
  BY Zenon DEF Overridden
<1>2. CASE is = {}
  BY <1>1, <1>2
<1>3. CASE is # {}
  <2>1. DOMAIN s = 1..Len(s) /\ Len(s) \in Nat /\ is \in SUBSET (1..Len(s))
    OBVIOUS
  <2>2. \E i \in is : \A j \in is : j <= i
    <3> HIDE DEF is
    <3> QED BY <1>3, <2>1, LastIndex
  <2>3. last \in is /\ \A j \in is : j <= last
    <3> HIDE DEF is
    <3> QED BY <2>2, Zenon
  <2> HIDE DEF last
  <2> QED BY <1>1, <1>3, <2>3
<1> QED BY <1>2, <1>3

LEMMA OverriddenTyped ==
  ASSUME NEW s \in Seq(Item), NEW n \in Nat
  PROVE  Overridden(s, "override_size", n) \in Nat
<1>1. ASSUME NEW i \in DOMAIN s, s[i].op = "override_size"
      PROVE  s[i].n \in Nat
  <2>1. s[i] \in Item
    OBVIOUS
  <2> QED BY <1>1, <2>1, ItemFields
<1> QED BY <1>1, OverriddenIs

LEMMA OverriddenOfTail ==
  ASSUME NEW s \in Seq(Item), s # <<>>, NEW op, NEW n
  PROVE  Overridden(s, op, n) =
           Overridden(Tail(s), op, IF Head(s).op = op THEN Head(s).n ELSE n)
<1> DEFINE t == Tail(s)
           m == IF Head(s).op = op THEN Head(s).n ELSE n
<1>1. /\ Len(s) \in Nat /\ Len(s) >= 1 /\ 1 \in DOMAIN s /\ Head(s) = s[1]
      /\ t \in Seq(Item) /\ DOMAIN s = 1..Len(s) /\ DOMAIN t = 1..(Len(s) - 1)
      /\ \A i \in 1..(Len(s) - 1) : t[i] = s[i + 1]
  BY SeqHead
<1>2. \A i \in DOMAIN t : i + 1 \in DOMAIN s /\ t[i] = s[i + 1]
  BY <1>1
<1>3. \A i \in DOMAIN s : i = 1 \/ (i - 1 \in DOMAIN t /\ t[i - 1] = s[i])
  BY <1>1
<1> HIDE DEF t
<1>4. CASE \A j \in DOMAIN t : t[j].op # op
  <2>1. Overridden(t, op, m) = m
    BY <1>1, <1>4, OverriddenIs
  <2>2. CASE Head(s).op = op
    <3>1. \A j \in DOMAIN s : s[j].op = op => j = 1
      BY <1>3, <1>4
    <3>2. Overridden(s, op, n) = s[1].n
      BY <1>1, <2>2, <3>1, OverriddenIs
    <3> QED BY <1>1, <2>1, <2>2, <3>2 DEF t
  <2>3. CASE Head(s).op # op
    <3>1. \A j \in DOMAIN s : s[j].op # op
      BY <1>1, <1>3, <1>4, <2>3
    <3>2. Overridden(s, op, n) = n
      BY <3>1, OverriddenIs
    <3> QED BY <2>1, <2>3, <3>2 DEF t
  <2> QED BY <2>2, <2>3
<1>5. CASE \E j \in DOMAIN t : t[j].op = op
  <2>1. PICK i \in DOMAIN t : /\ t[i].op = op
                              /\ \A j \in DOMAIN t : t[j].op = op => j <= i
                              /\ Overridden(t, op, m) = t[i].n
    <3>1. PICK x : x = m
      OBVIOUS
    <3>2. t \in Seq(Item) /\ ~ \A j \in DOMAIN t : t[j].op # op
      BY <1>1, <1>5
    <3> HIDE DEF m
    <3> QED BY <3>1, <3>2, OverriddenIs
  <2>2. i + 1 \in DOMAIN s /\ s[i + 1].op = op /\ s[i + 1].n = t[i].n
    BY <1>2, <2>1
  <2>3. PICK k \in DOMAIN s : /\ s[k].op = op
                              /\ \A j \in DOMAIN s : s[j].op = op => j <= k
                              /\ Overridden(s, op, n) = s[k].n
    BY <2>2, OverriddenIs
  <2>4. i + 1 <= k /\ k \in Int /\ i \in Int /\ i >= 1
    BY <1>1, <2>2, <2>3
  <2>5. k - 1 \in DOMAIN t /\ t[k - 1] = s[k]
    BY <1>3, <2>4
  <2>6. k - 1 <= i
    BY <2>1, <2>3, <2>5
  <2>7. k = i + 1
    BY <2>4, <2>6
  <2> QED BY <2>1, <2>2, <2>3, <2>7 DEF t
<1> QED BY <1>4, <1>5

-----------------------------------------------------------------------------
(***************************************************************************)
(* The sizes of the files.  A file of a measured program needs the sizes   *)
(* of what is pushed to it, and that ends: there is one way to size every  *)
(* file, the one that ExpectedSize is.                                     *)
(***************************************************************************)
SizeOf(e, f) ==
  Overridden(program.script[f], "override_size",
             program.size[f] + Total(Pushed(e), EffectiveScript(f)))

IsSizes(e) == e \in [File -> Nat] /\ \A f \in File : e[f] = SizeOf(e, f)

Needs(f, d) ==
  \E k \in DOMAIN EffectiveScript(f) :
    /\ EffectiveScript(f)[k].op = "include" /\ EffectiveScript(f)[k].file = d
    /\ d \notin program.absent /\ ~Judged(d)

LEMMA ForcedTyped ==
  ASSUME program \in Program
  PROVE  [i \in DOMAIN program.forced |-> Include(program.forced[i])] \in Seq(Item)
<1>1. program.forced \in Seq(File)
  BY ProgramFields
<1>2. \A i \in DOMAIN program.forced : Include(program.forced[i]) \in Item
  BY <1>1, MadeItems
<1>3. DOMAIN program.forced = 1..Len(program.forced) /\ Len(program.forced) \in Nat
  BY <1>1
<1> QED BY <1>2, <1>3

LEMMA EffectiveTyped ==
  ASSUME program \in Program, NEW f \in File
  PROVE  EffectiveScript(f) \in Seq(Item)
<1>1. program.script[f] \in Seq(Item)
  BY ProgramFields
<1> QED BY <1>1, ForcedTyped DEF EffectiveScript

LEMMA PushedTyped ==
  ASSUME NEW e \in [File -> Nat]
  PROVE  Pushed(e) \in [File -> Nat]
BY DEF Pushed

LEMMA SizeTyped ==
  ASSUME program \in Program, NEW e \in [File -> Nat], NEW f \in File
  PROVE  SizeOf(e, f) \in Nat
<1>1. program.script[f] \in Seq(Item) /\ program.size[f] \in Nat
  BY ProgramFields
<1>2. Total(Pushed(e), EffectiveScript(f)) \in Nat
  BY EffectiveTyped, PushedTyped, TotalTyped
<1>3. program.size[f] + Total(Pushed(e), EffectiveScript(f)) \in Nat
  BY <1>1, <1>2
<1> QED BY <1>1, <1>3, OverriddenTyped DEF SizeOf

LEMMA SizeNeeds ==
  ASSUME program \in Program, NEW e \in [File -> Nat], NEW x \in [File -> Nat],
         NEW f \in File, \A d \in File : Needs(f, d) => e[d] = x[d]
  PROVE  SizeOf(e, f) = SizeOf(x, f)
<1>1. PICK s \in Seq(Item) : s = EffectiveScript(f)
  BY EffectiveTyped
<1>2. ASSUME NEW k \in DOMAIN s, s[k].op = "include"
      PROVE  Pushed(e)[s[k].file] = Pushed(x)[s[k].file]
  <2>1. s[k] \in Item
    OBVIOUS
  <2>2. s[k].file \in File
    BY <1>2, <2>1, ItemFields
  <2> QED BY <1>1, <1>2, <2>2 DEF Needs, Pushed
<1>3. Total(Pushed(e), s) = Total(Pushed(x), s)
  <2>1. PICK w \in [File -> Nat] : w = Pushed(e)
    BY PushedTyped
  <2>2. PICK y \in [File -> Nat] : y = Pushed(x)
    BY PushedTyped
  <2> QED BY <1>2, <2>1, <2>2, SameTotal
<1> QED BY <1>1, <1>3 DEF SizeOf

(* Some file of every set needs none of the others: no source is pushed.   *)
LEMMA NeedsNone ==
  ASSUME program \in Program, Plain(program), Measured(program),
         NEW S \in SUBSET File, S # {}
  PROVE  \E f \in S : \A d \in S : ~Needs(f, d)
<1> DEFINE Headers == S \ ToSet(program.sources)
<1>1. ASSUME NEW f \in File, NEW d, Needs(f, d)
      PROVE  /\ d \notin ToSet(program.sources)
             /\ f \notin ToSet(program.sources) => Pushes(program, f, d)
  <2>1. PICK s \in Seq(Item) : s = EffectiveScript(f)
    BY EffectiveTyped
  <2>2. PICK item \in ToSet(s) : /\ item.op = "include" /\ item.file = d
                                 /\ d \notin program.absent /\ ~Judged(d)
    BY <1>1, <2>1 DEF Needs, ToSet
  <2>3. CASE f \notin ToSet(program.sources)
    <3>1. PICK j \in DOMAIN program.script[f] : item = program.script[f][j]
      BY <2>1, <2>2, <2>3 DEF EffectiveScript, ToSet
    <3> QED BY <2>2, <3>1 DEF Plain, Pushes, Judged
  <2>4. CASE f \in ToSet(program.sources)
    <3> DEFINE forced == [i \in DOMAIN program.forced |-> Include(program.forced[i])]
    <3>1. forced \in Seq(Item) /\ program.script[f] \in Seq(Item)
      BY ForcedTyped, ProgramFields
    <3>2. s = forced \o program.script[f]
      BY <2>1, <2>4 DEF EffectiveScript
    <3>3. item \in ToSet(forced) \/ item \in ToSet(program.script[f])
      <4> HIDE DEF forced
      <4> QED BY <2>2, <3>1, <3>2, ItemsOfBoth
    <3>4. CASE item \in ToSet(forced)
      <4>1. PICK i \in DOMAIN program.forced : item = Include(program.forced[i])
        BY <3>4 DEF ToSet
      <4>2. d = program.forced[i]
        BY <2>2, <4>1 DEF Include
      <4>3. d \in ToSet(program.forced)
        BY <4>2 DEF ToSet
      <4> QED BY <2>4, <4>3 DEF Plain
    <3>5. CASE item \in ToSet(program.script[f])
      <4>1. PICK j \in DOMAIN program.script[f] : item = program.script[f][j]
        BY <3>5 DEF ToSet
      <4> QED BY <2>2, <2>4, <4>1 DEF Plain
    <3> QED BY <3>3, <3>4, <3>5
  <2> QED BY <2>3, <2>4
<1>2. CASE Headers = {}
  BY <1>1, <1>2
<1>3. CASE Headers # {}
  <2>1. PICK f \in Headers : \A d \in Headers : ~Pushes(program, f, d)
    BY <1>3 DEF Measured
  <2> QED BY <1>1, <2>1
<1> QED BY <1>2, <1>3

(* A sizing of some files, with all they need.                             *)
Sizing(C, e) ==
  /\ C \in SUBSET File /\ e \in [File -> Nat]
  /\ \A f \in C : /\ e[f] = SizeOf(e, f)
                  /\ \A d \in File : Needs(f, d) => d \in C

LEMMA SizingsAgree ==
  ASSUME program \in Program, Plain(program), Measured(program),
         NEW C, NEW e, Sizing(C, e), NEW D, NEW x, Sizing(D, x)
  PROVE  \A f \in C \cap D : e[f] = x[f]
<1> DEFINE Bad == {f \in C \cap D : e[f] # x[f]}
<1>1. Bad = {}
  <2> SUFFICES ASSUME Bad # {} PROVE FALSE
    OBVIOUS
  <2>1. Bad \in SUBSET File
    BY DEF Sizing
  <2>2. PICK f \in Bad : \A d \in Bad : ~Needs(f, d)
    <3> HIDE DEF Bad
    <3> QED BY <2>1, NeedsNone
  <2>3. f \in File /\ f \in C /\ f \in D /\ e \in [File -> Nat] /\ x \in [File -> Nat]
    BY <2>1, <2>2 DEF Sizing
  <2>4. \A d \in File : Needs(f, d) => e[d] = x[d]
    BY <2>2, <2>3 DEF Sizing
  <2>5. SizeOf(e, f) = SizeOf(x, f)
    BY <2>3, <2>4, SizeNeeds
  <2> QED BY <2>2, <2>3, <2>5 DEF Sizing
<1> QED BY <1>1

LEMMA SizesExist ==
  ASSUME program \in Program, Plain(program), Measured(program)
  PROVE  \E e : IsSizes(e)
<1> DEFINE G == {f \in File : \E C, e : Sizing(C, e) /\ f \in C}
           sizing(f) == CHOOSE e : \E C : Sizing(C, e) /\ f \in C
           E == [f \in File |-> IF f \in G THEN sizing(f)[f] ELSE 0]
<1>1. ASSUME NEW f \in G
      PROVE  \E C : Sizing(C, sizing(f)) /\ f \in C
  <2>1. \E e : \E C : Sizing(C, e) /\ f \in C
    OBVIOUS
  <2> QED BY <2>1, Zenon
<1>2. ASSUME NEW C, NEW e, Sizing(C, e), NEW f \in C
      PROVE  f \in G /\ E[f] = e[f] /\ f \in File
  <2>1. f \in G /\ f \in File
    BY <1>2 DEF Sizing
  <2>2. PICK D : Sizing(D, sizing(f)) /\ f \in D
    BY <1>1, <2>1
  <2>3. PICK x : x = sizing(f)
    OBVIOUS
  <2>4. x[f] = e[f]
    BY <1>2, <2>2, <2>3, SizingsAgree
  <2>5. E[f] = x[f]
    <3> HIDE DEF G, sizing
    <3> QED BY <2>1, <2>3
  <2> QED BY <2>1, <2>4, <2>5
<1>3. E \in [File -> Nat]
  <2>1. ASSUME NEW f \in G PROVE sizing(f)[f] \in Nat
    <3>1. PICK C, x : Sizing(C, x) /\ f \in C /\ x = sizing(f)
      BY <1>1
    <3>2. x[f] \in Nat
      BY <3>1 DEF Sizing
    <3> QED BY <3>1, <3>2
  <2> HIDE DEF G, sizing
  <2> QED BY <2>1
<1>4. Sizing(G, E)
  <2> SUFFICES ASSUME NEW f \in G
               PROVE  /\ E[f] = SizeOf(E, f)
                      /\ \A d \in File : Needs(f, d) => d \in G
    <3> HIDE DEF E
    <3> QED BY <1>3 DEF Sizing
  <2>1. PICK C, e : Sizing(C, e) /\ f \in C
    OBVIOUS
  <2> HIDE DEF E
  <2>2. \A d \in File : Needs(f, d) => d \in C
    BY <2>1 DEF Sizing
  <2>3. \A d \in C : d \in G /\ E[d] = e[d]
    BY <1>2, <2>1
  <2>4. f \in File /\ e \in [File -> Nat] /\ e[f] = SizeOf(e, f)
    BY <2>1 DEF Sizing
  <2>5. SizeOf(e, f) = SizeOf(E, f)
    <3>1. \A d \in File : Needs(f, d) => e[d] = E[d]
      <4> HIDE DEF G
      <4> QED BY <2>2, <2>3
    <3> QED BY <1>3, <2>4, <3>1, SizeNeeds
  <2> HIDE DEF G
  <2> QED BY <2>1, <2>2, <2>3, <2>4, <2>5
<1> HIDE DEF E
<1>5. G = File
  <2> SUFFICES ASSUME G # File PROVE FALSE
    OBVIOUS
  <2>1. File \ G \in SUBSET File /\ File \ G # {}
    OBVIOUS
  <2>2. PICK f \in File \ G : \A d \in File \ G : ~Needs(f, d)
    <3> HIDE DEF G
    <3> QED BY <2>1, NeedsNone
  <2> DEFINE x == [E EXCEPT ![f] = SizeOf(E, f)]
  <2>3. PICK n \in Nat : n = SizeOf(E, f)
    BY <1>3, <2>2, SizeTyped
  <2>4. x \in [File -> Nat] /\ x[f] = n /\ \A d \in File : d # f => x[d] = E[d]
    <3> HIDE DEF G
    <3> QED BY <1>3, <2>2, <2>3
  <2> HIDE DEF x
  <2>5. \A d \in G : d \in File /\ d # f
    BY <2>2
  <2> HIDE DEF G
  <2>6. ASSUME NEW g \in G \cup {f}
        PROVE  /\ x[g] = SizeOf(x, g)
               /\ \A d \in File : Needs(g, d) => d \in G
    <3>1. g \in File
      BY <2>2, <2>5
    <3>2. \A d \in File : Needs(g, d) => d \in G
      BY <1>4, <2>2 DEF Sizing
    <3>3. \A d \in File : Needs(g, d) => E[d] = x[d]
      BY <2>4, <2>5, <3>2
    <3>4. SizeOf(E, g) = SizeOf(x, g)
      BY <1>3, <2>4, <3>1, <3>3, SizeNeeds
    <3>5. x[g] = SizeOf(E, g)
      <4>1. CASE g = f
        BY <2>3, <2>4, <4>1
      <4>2. CASE g # f
        BY <1>4, <2>4, <3>1, <4>2 DEF Sizing
      <4> QED BY <4>1, <4>2
    <3> QED BY <3>2, <3>4, <3>5
  <2>7. Sizing(G \cup {f}, x)
    <3>1. G \cup {f} \in SUBSET File
      BY <2>2, <2>5
    <3> QED BY <2>4, <2>6, <3>1 DEF Sizing
  <2>8. f \in G
    BY <1>2, <2>7
  <2> QED BY <2>2, <2>8
<1>6. IsSizes(E)
  <2> HIDE DEF G
  <2> QED BY <1>4, <1>5 DEF Sizing, IsSizes
<1> QED BY <1>6

SizesKnown ==
  IsSizes(ExpectedSize) /\ \A e : IsSizes(e) => e = ExpectedSize

LEMMA ExpectedIsSizes ==
  ASSUME program \in Program, Plain(program), Measured(program)
  PROVE  SizesKnown
<1>1. PICK e : IsSizes(e)
  BY SizesExist
<1>2. e \in [File -> Nat] /\ Sizing(File, e)
  BY <1>1 DEF IsSizes, Sizing
<1> DEFINE Raw(x) ==
      x = [f \in File |->
             Overridden(program.script[f], "override_size",
                        program.size[f] + Gathered(x, EffectiveScript(f)))]
<1>3. \A f \in File :
        Gathered(e, EffectiveScript(f)) = Total(Pushed(e), EffectiveScript(f))
  BY <1>2, EffectiveTyped, GatheredIsTotal
<1>4. Raw(e)
  <2>1. \A f \in File :
          e[f] = Overridden(program.script[f], "override_size",
                            program.size[f] + Gathered(e, EffectiveScript(f)))
    BY <1>1, <1>3 DEF IsSizes, SizeOf
  <2> QED BY <1>2, <2>1
<1>5. PICK c : c = ExpectedSize /\ Raw(c)
  BY <1>4, ExpectedSizeDef, Zenon
<1>6. \A f \in File :
        c[f] = Overridden(program.script[f], "override_size",
                          program.size[f] + Gathered(c, EffectiveScript(f)))
  BY <1>5, Zenon
<1> DEFINE Bad == {f \in File : c[f] # e[f]}
<1>7. Bad = {}
  <2> SUFFICES ASSUME Bad # {} PROVE FALSE
    OBVIOUS
  <2>1. PICK f \in Bad : \A d \in Bad : ~Needs(f, d)
    <3>1. Bad \in SUBSET File
      OBVIOUS
    <3> HIDE DEF Bad
    <3> QED BY <3>1, NeedsNone
  <2>2. f \in File
    OBVIOUS
  <2>3. PICK s \in Seq(Item) : s = EffectiveScript(f)
    BY <2>2, EffectiveTyped
  <2>4. ASSUME NEW k \in DOMAIN s
        PROVE  Brings(c, s[k]) = Brings(e, s[k])
    <3>1. s[k] \in Item
      OBVIOUS
    <3>2. CASE PushesItsCost(s[k])
      <4>1. s[k].file \in File /\ Needs(f, s[k].file)
        BY <2>3, <3>1, <3>2, ItemFields DEF PushesItsCost, Needs, Judged
      <4> QED BY <2>1, <4>1 DEF Brings
    <3>3. CASE ~PushesItsCost(s[k])
      BY <3>3 DEF Brings
    <3> QED BY <3>2, <3>3
  <2>5. Gathered(c, s) = Gathered(e, s)
    BY <2>4, GatheredAgree
  <2>6. c[f] = e[f]
    <3>1. e[f] = Overridden(program.script[f], "override_size",
                            program.size[f] + Gathered(e, s))
      BY <1>1, <1>3, <2>2, <2>3 DEF IsSizes, SizeOf
    <3>2. c[f] = Overridden(program.script[f], "override_size",
                            program.size[f] + Gathered(c, s))
      BY <1>6, <2>2, <2>3
    <3> QED BY <2>5, <3>1, <3>2
  <2> QED BY <2>1, <2>6
<1>8. c = e
  <2>1. \A f \in File : c[f] = e[f]
    BY <1>7
  <2>2. DOMAIN c = File /\ c = [f \in DOMAIN c |-> c[f]]
    BY <1>5
  <2>3. c = [f \in File |-> e[f]]
    <3> HIDE DEF Raw
    <3> QED BY <2>1, <2>2
  <2> QED BY <1>2, <2>3
<1>9. ASSUME NEW x, IsSizes(x) PROVE x = e
  <2>1. Sizing(File, x) /\ x \in [File -> Nat]
    BY <1>9 DEF IsSizes, Sizing
  <2>2. \A f \in File : x[f] = e[f]
    BY <1>2, <2>1, SizingsAgree
  <2> QED BY <1>2, <2>1, <2>2
<1> QED BY <1>1, <1>5, <1>8, <1>9 DEF SizesKnown

-----------------------------------------------------------------------------
(***************************************************************************)
(* The invariant of a measured program.  What a file in progress has       *)
(* gathered, what is on its way to it from the file above it, and what is  *)
(* left of its items, are together what its script brings.                 *)
(***************************************************************************)
Left(i) ==
  IF i = Len(frames) THEN predefines \o frames[i].rest ELSE frames[i].rest

InFlight(w, i) ==
  IF i # 1 THEN w[frames[i - 1].file]
  ELSE IF pending = NoFile THEN 0 ELSE w[pending]

Gathers(w, i) ==
  LET f == frames[i].file IN
  /\ m_stack[i].c.file_size + InFlight(w, i) + Total(w, Left(i))
       = Total(w, EffectiveScript(f))
  /\ Overridden(frames[i].rest, "override_size", m_stack[i].overridden_file_size)
       = Overridden(program.script[f], "override_size", NoValue)

FramesGather(w) ==
  phase = "preprocess" =>
    \A i \in DOMAIN frames :
      frames[i].file \notin DOMAIN overwrites => Gathers(w, i)

(* The files that are included are there, and clang skips only files that  *)
(* are guarded.                                                            *)
Present ==
  /\ pending \notin program.absent
  /\ \A i \in DOMAIN frames : i # Len(frames) => frames[i].file \notin program.absent

Skippable ==
  /\ \A f \in controlling : f \in File /\ Judged(f)
  /\ \A i \in DOMAIN frames :
       i # Len(frames) /\ frames[i].candidate => Judged(frames[i].file)

(* The conditional of a main file does not exclude what follows it.        *)
MainTaken ==
  phase = "preprocess" =>
    \/ Unconditional(frames[Len(frames)].rest)
    \/ frames[Len(frames)].file \notin macros

(* The vertices of the sources, and of those whose translation unit has    *)
(* been read to its end.                                                   *)
SourceVertices ==
  ToSet(sources) = {v \in DOMAIN nodes : nodes[v].path \in ToSet(program.sources)}

Scanned(f) ==
  /\ f \in ToSet(program.sources)
  /\ ~(phase = "preprocess" /\ f = program.sources[started])

CostsRight(e) ==
  \A f \in File : \A v \in DOMAIN nodes :
    nodes[v].path = f =>
      nodes[v].underlying_cost.file_size =
        IF nodes[v].is_guarded \/ Scanned(f) THEN e[f] ELSE 0

MeasuredInv ==
  /\ Present /\ Skippable /\ MainTaken /\ SourceVertices
  /\ FramesGather(Pushed(ExpectedSize)) /\ CostsRight(ExpectedSize)

-----------------------------------------------------------------------------
(* What a step does to the sizes of the files in progress.                 *)
SameSizes(p, q) ==
  /\ p.c.file_size = q.c.file_size
  /\ p.overridden_file_size = q.overridden_file_size

LEMMA TopSized ==
  ASSUME NEW s \in Seq(InProgress), s # <<>>, NEW p
  PROVE  /\ DOMAIN [s EXCEPT ![1] = p] = DOMAIN s
         /\ [s EXCEPT ![1] = p][1] = p /\ 1 \in DOMAIN s
         /\ \A i \in DOMAIN s : i # 1 => [s EXCEPT ![1] = p][i] = s[i]
OBVIOUS

LEMMA ReadSizes ==
  ASSUME IInv, Reads
  PROVE  /\ DOMAIN m_stack' = DOMAIN m_stack
         /\ \A i \in DOMAIN m_stack :
              /\ m_stack'[i].c.file_size = m_stack[i].c.file_size
              /\ i # 1 => SameSizes(m_stack'[i], m_stack[i])
         /\ m_stack'[1].overridden_file_size =
              IF PragmaDirective /\ Head(Remaining).op = "override_size"
              THEN Head(Remaining).n
              ELSE m_stack[1].overridden_file_size
<1>1. CASE PragmaDirective
  <2> DEFINE n == Head(Remaining).n
             sized == [m_stack[1] EXCEPT !.overridden_file_size = n]
             counted == [m_stack[1] EXCEPT !.overridden_token_count = n]
  <2>1. m_stack \in Seq(InProgress) /\ m_stack # <<>> /\ m_stack[1] \in InProgress
    BY <1>1, Back DEF PragmaDirective, Lexing, Preprocessing, IInv, TypeOK
  <2>2. /\ sized.c = m_stack[1].c /\ sized.overridden_file_size = n
        /\ counted.c = m_stack[1].c
        /\ counted.overridden_file_size = m_stack[1].overridden_file_size
    <3> HIDE DEF n
    <3> QED BY <2>1 DEF InProgress
  <2>3. /\ Head(Remaining).op = "override_size" =>
             m_stack' = [m_stack EXCEPT ![1] = sized]
        /\ Head(Remaining).op # "override_size" =>
             m_stack' = [m_stack EXCEPT ![1] = counted]
    BY <1>1, <2>1 DEF PragmaDirective
  <2> HIDE DEF sized, counted
  <2> QED BY <1>1, <2>1, <2>2, <2>3, TopSized DEF SameSizes
<1>2. CASE ~PragmaDirective
  <2>1. m_stack' = m_stack
    <3>1. CASE InclusionDirective
      BY <3>1, Zenon DEF InclusionDirective
    <3>2. CASE ~InclusionDirective
      BY <1>2, <3>2 DEF Reads, LexTokens, SkipExcluded, PragmaOnce, MacroDefined,
                        MacroUndefined, MissingInclude, InclusionFromDone
    <3> QED BY <3>1, <3>2
  <2> QED BY <1>2, <2>1 DEF SameSizes
<1> QED BY <1>1, <1>2

LEMMA ConditionalSizes ==
  ASSUME IInv, IfOrIfndef
  PROVE  \A i \in DOMAIN m_stack : SameSizes(m_stack'[i], m_stack[i])
<1> DEFINE kind == IF Head(Remaining).op = "if" THEN "If" ELSE "Ifndef"
           seen == IF m_stack[1].seen_first = "None" THEN kind
                   ELSE m_stack[1].seen_first
           new == [m_stack[1] EXCEPT !.seen_first = seen]
<1>1. m_stack \in Seq(InProgress) /\ m_stack # <<>> /\ m_stack[1] \in InProgress
  BY Back DEF IfOrIfndef, Lexing, Preprocessing, IInv, TypeOK
<1>2. m_stack' = [m_stack EXCEPT ![1] = new]
  BY <1>1 DEF IfOrIfndef
<1>3. SameSizes(new, m_stack[1])
  <2> HIDE DEF seen
  <2> QED BY <1>1 DEF InProgress, SameSizes
<1> HIDE DEF new
<1> QED BY <1>1, <1>2, <1>3, TopSized DEF SameSizes

LEMMA EnteredSizes ==
  ASSUME IInv, EnterFile
  PROVE  /\ m_stack'[1].c.file_size = 0
         /\ m_stack'[1].overridden_file_size = NoValue
         /\ \A i \in DOMAIN m_stack' :
              i # 1 => /\ i - 1 \in DOMAIN m_stack
                       /\ SameSizes(m_stack'[i], m_stack[i - 1])
<1> DEFINE fresh == NewInProgress(UniqueIDOf(pending))
           cost == [m_stack[1].c EXCEPT !.token_count = lexed - accounted]
           top == [m_stack[1] EXCEPT !.c = cost]
           below == [m_stack EXCEPT ![1] = top]
<1>1. /\ m_stack \in Seq(InProgress) /\ m_stack # <<>>
      /\ m_stack[1] \in InProgress /\ 1 \in DOMAIN m_stack
  BY Back DEF EnterFile, Inclusion, IInv, TypeOK
<1>2. m_stack' = <<fresh>> \o below
  BY <1>1 DEF EnterFile
<1>3. fresh.c.file_size = 0 /\ fresh.overridden_file_size = NoValue
  BY DEF NewInProgress, ZeroCost
<1>4. SameSizes(top, m_stack[1])
  <2>1. m_stack[1].c \in Cost
    BY <1>1 DEF InProgress
  <2>2. cost.file_size = m_stack[1].c.file_size
    BY <2>1 DEF Cost
  <2> HIDE DEF cost
  <2> QED BY <1>1, <2>2 DEF InProgress, SameSizes
<1> HIDE DEF fresh, top
<1>5. /\ DOMAIN below = DOMAIN m_stack /\ below \in Seq({fresh, top} \cup InProgress)
      /\ \A i \in DOMAIN below : SameSizes(below[i], m_stack[i])
  <2>1. below \in Seq({fresh, top} \cup InProgress)
    BY <1>1
  <2> QED BY <1>1, <1>4, <2>1, TopSized DEF SameSizes
<1> HIDE DEF below
<1>6. /\ m_stack'[1] = fresh
      /\ \A i \in DOMAIN m_stack' :
           i # 1 => i - 1 \in DOMAIN below /\ m_stack'[i] = below[i - 1]
  BY <1>2, <1>5, SeqPush
<1> QED BY <1>3, <1>5, <1>6

LEMMA LeftSizes ==
  ASSUME IInv, Leaves
  PROVE  /\ \A i \in DOMAIN frames' :
              /\ i + 1 \in DOMAIN m_stack
              /\ i # 1 => SameSizes(m_stack'[i], m_stack[i + 1])
              /\ m_stack'[i].overridden_file_size = m_stack[i + 1].overridden_file_size
         /\ m_stack'[1].c.file_size =
              m_stack[2].c.file_size + (IF ExitUnguarded THEN LeavingCost.file_size ELSE 0)
<1>1. LeavingFile
  BY DEF Leaves, ExitUnguarded, ExitGuardedFirst, ExitGuardedAgain
<1>2. /\ m_stack \in Seq(InProgress) /\ Len(m_stack) = Len(frames)
      /\ Len(frames) > 1 /\ m_stack # <<>>
  BY <1>1, Back DEF LeavingFile, Preprocessing, IInv, TypeOK, StackInSync
<1>3. PICK cost \in Cost : cost = LeavingCost
  BY <1>1, LeavingCostTyped DEF LeavingFile, Preprocessing
<1> DEFINE below == Tail(m_stack)
           sum == Plus(below[1].c, cost)
           top == [below[1] EXCEPT !.c = sum]
<1>4. /\ below \in Seq(InProgress) /\ below # <<>> /\ below[1] \in InProgress
      /\ DOMAIN below = 1..(Len(frames) - 1) /\ 1 \in DOMAIN below
      /\ \A i \in DOMAIN below : i + 1 \in DOMAIN m_stack /\ below[i] = m_stack[i + 1]
  <2>1. /\ below \in Seq(InProgress) /\ DOMAIN below = 1..(Len(m_stack) - 1)
        /\ DOMAIN m_stack = 1..Len(m_stack)
        /\ \A i \in 1..(Len(m_stack) - 1) : below[i] = m_stack[i + 1]
    BY <1>2, SeqHead
  <2>2. Len(m_stack) \in Nat /\ 1 \in DOMAIN below
    BY <1>2, <2>1, SeqHead
  <2> HIDE DEF below
  <2>3. below # <<>> /\ below[1] \in InProgress
    BY <2>1, <2>2
  <2> QED BY <1>2, <2>1, <2>2, <2>3
<1>5. DOMAIN frames' = DOMAIN below
  BY <1>4, FileLeft
<1>6. below[1].c \in Cost /\ below[1].c.file_size \in Nat /\ cost.file_size \in Nat
  <2> HIDE DEF below
  <2> QED BY <1>3, <1>4 DEF InProgress, Cost
<1>7. /\ top.c.file_size = below[1].c.file_size + cost.file_size
      /\ top.overridden_file_size = below[1].overridden_file_size
  <2>1. sum.file_size = below[1].c.file_size + cost.file_size
    BY DEF Plus
  <2> HIDE DEF below, sum
  <2> QED BY <1>4, <2>1 DEF InProgress
<1>8. \/ ExitUnguarded /\ m_stack' = [below EXCEPT ![1] = top]
      \/ ~ExitUnguarded /\ m_stack' = below
  <2>1. CostPushedToIncluder = [below EXCEPT ![1] = top]
    BY <1>3, <1>4 DEF CostPushedToIncluder
  <2>2. ExitUnguarded => m_stack' = CostPushedToIncluder
    BY DEF ExitUnguarded
  <2>3. ~ExitUnguarded => m_stack' = below
    BY DEF Leaves, ExitGuardedFirst, ExitGuardedAgain
  <2> QED BY <2>1, <2>2, <2>3
<1>9. below[1] = m_stack[2]
  <2> HIDE DEF below
  <2> QED BY <1>4
<1> HIDE DEF below, top
<1>10. \A i \in DOMAIN below :
         /\ i # 1 => m_stack'[i] = below[i]
         /\ m_stack'[i].overridden_file_size = below[i].overridden_file_size
  BY <1>4, <1>7, <1>8, TopSized
<1>11. m_stack'[1].c.file_size =
         below[1].c.file_size + (IF ExitUnguarded THEN cost.file_size ELSE 0)
  BY <1>4, <1>6, <1>7, <1>8, TopSized
<1> QED BY <1>3, <1>4, <1>5, <1>9, <1>10, <1>11 DEF SameSizes

-----------------------------------------------------------------------------
(* The files that are there, and those that clang skips.                   *)
LEMMA PhaseStep ==
  ASSUME IInv, [Next]_vars, ~EnterSource, ~EndOfMainFile
  PROVE  /\ UNCHANGED started
         /\ phase' = "preprocess" <=> phase = "preprocess"
<1>1. CASE EndSourceFileAction
  BY <1>1 DEF EndSourceFileAction
<1> QED BY <1>1, StepKinds, ReadsItem, EnterStep, EndStep, FileLeft, QuietStep

LEMMA FileThere ==
  ASSUME IInv, NEW f \in File, f \notin program.absent, NEW w \in [File -> Nat]
  PROVE  f # NoFile /\ w[f] \in Nat
BY NoFileAssumption

LEMMA StaysPresent ==
  ASSUME IInv, ReplacementsKnown, Plain(program), PlainInv, Present, [Next]_vars
  PROVE  Present'
<1>1. UNCHANGED program /\ NoFile \notin program.absent
  BY ProgramFixed, ProgramFields, NoFileAssumption DEF IInv, TypeOK
<1>2. pending' \in {pending, NoFile} \/ pending' \notin program.absent
  <2>1. CASE Reads
    BY <2>1, ReadStep
  <2>2. CASE EnterSource \/ EndSourceFileAction
    BY <2>2 DEF EnterSource, EndSourceFileAction
  <2> QED BY <2>1, <2>2, StepKinds, EnterStep, EndStep, FileLeft, QuietStep
<1>3. ASSUME NEW i \in DOMAIN frames', i # Len(frames')
      PROVE  frames'[i].file \notin program.absent
  <2>1. CASE SameFiles
    BY <1>3, <2>1 DEF SameFiles, Present
  <2>2. CASE EnterFile
    <3>1. CASE i = 1
      BY <2>2, <3>1, FileEntered DEF Present
    <3>2. CASE i # 1
      <4>1. /\ i - 1 \in DOMAIN frames /\ frames'[i] = frames[i - 1]
            /\ Len(frames') = Len(frames) + 1 /\ Len(frames) \in Nat
            /\ DOMAIN frames = 1..Len(frames)
        BY <2>2, <3>2, FileEntered
      <4>2. i - 1 # Len(frames)
        BY <1>3, <4>1
      <4> QED BY <4>1, <4>2 DEF Present
    <3> QED BY <3>1, <3>2
  <2>3. CASE Leaves
    <3>1. /\ i + 1 \in DOMAIN frames /\ frames'[i] = frames[i + 1]
          /\ Len(frames') = Len(frames) - 1 /\ Len(frames) \in Nat
          /\ DOMAIN frames = 1..Len(frames)
      BY <2>3, FileLeft
    <3>2. i + 1 # Len(frames)
      BY <1>3, <3>1
    <3> QED BY <3>1, <3>2 DEF Present
  <2>4. CASE EnterSource
    <3>1. frames' = <<[file |-> NextSource, rest |-> Contents(NextSource),
                       candidate |-> FALSE]>>
      BY <2>4 DEF EnterSource
    <3> QED BY <1>3, <3>1
  <2>5. CASE EndSourceFileAction
    <3>1. frames' = <<>>
      BY <2>5 DEF EndSourceFileAction
    <3> QED BY <3>1
  <2> QED BY <2>1, <2>2, <2>3, <2>4, <2>5, StackStep
<1> QED BY <1>1, <1>2, <1>3 DEF Present

LEMMA TestedJudged ==
  ASSUME IInv, Plain(program), Settled(program), Measured(program), PlainInv,
         IfOrIfndef, 1 # Len(frames)
  PROVE  Judged(frames[1].file)
<1>1. /\ Preprocessing /\ 1 \in DOMAIN frames /\ ~InPredefines
      /\ 1 \in DOMAIN frames[1].rest /\ frames[1].rest[1].op \in Conditional
  BY ConditionalRead
<1>2. Remaining # <<>> /\ Head(Remaining).op \in Conditional
  BY DEF IfOrIfndef, Lexing, Conditional
<1>3. frames[1].file \in File /\ FirstConditional(Contents(frames[1].file))
  BY <1>1, <1>2, ReadGuard
<1>4. FirstConditional(program.script[frames[1].file])
  <2>1. PICK f \in File : f = frames[1].file
    BY <1>3
  <2> QED BY <1>3, <2>1, TestedIsScript DEF IInv, PlainInv
<1>5. frames[1].file \notin ToSet(program.sources)
  BY <1>1 DEF PlainInv, SourcesAreMain
<1> QED BY <1>3, <1>4, <1>5 DEF Measured, Judged

LEMMA StaysSkippable ==
  ASSUME IInv, ReplacementsKnown, Plain(program), Settled(program),
         Measured(program), PlainInv, Skippable, [Next]_vars
  PROVE  Skippable'
<1>1. UNCHANGED program /\ \A f : Judged(f)' <=> Judged(f)
  BY ProgramFixed DEF Judged
<1>2. ASSUME NEW f \in controlling' PROVE f \in File /\ Judged(f)
  <2>1. CASE Leaves
    <3>1. /\ controlling' \subseteq controlling \cup {frames[1].file}
          /\ frames[1].candidate \/ controlling' = controlling
          /\ 1 \in DOMAIN frames /\ Len(frames) > 1 /\ Len(frames) \in Nat
      BY <2>1, FileLeft
    <3>2. frames[1].file \in File
      BY <3>1, FrameTyped DEF IInv
    <3>3. 1 # Len(frames)
      <4>1. \A n \in Nat : n > 1 => n # 1
        OBVIOUS
      <4> QED BY <3>1, <4>1
    <3> QED BY <1>2, <3>1, <3>2, <3>3 DEF Skippable
  <2>2. CASE EnterSource
    BY <1>2, <2>2 DEF EnterSource
  <2>3. CASE EndSourceFileAction
    BY <1>2, <2>3 DEF EndSourceFileAction, Skippable
  <2>4. CASE UNCHANGED controlling
    BY <1>2, <2>4 DEF Skippable
  <2> QED BY <2>1, <2>2, <2>3, <2>4, StepKinds, ReadsItem, EnterStep, EndStep, QuietStep
<1>3. ASSUME NEW i \in DOMAIN frames', i # Len(frames'), frames'[i].candidate
      PROVE  Judged(frames'[i].file)
  <2>1. CASE Reads
    <3>1. /\ Len(frames') = Len(frames) /\ DOMAIN frames' = DOMAIN frames
          /\ \A j \in DOMAIN frames : j # 1 => frames'[j] = frames[j]
          /\ frames'[1].file = frames[1].file
          /\ frames'[1].candidate = frames[1].candidate
      BY <2>1, ReadsItem, ItemRead
    <3> QED BY <1>3, <3>1 DEF Skippable
  <2>2. CASE IfOrIfndef
    <3>1. /\ Len(frames') = Len(frames) /\ DOMAIN frames' = DOMAIN frames
          /\ \A j \in DOMAIN frames : j # 1 => frames'[j] = frames[j]
          /\ frames'[1].file = frames[1].file
      BY <2>2, ConditionalRead
    <3>2. CASE i = 1
      BY <1>3, <2>2, <3>1, <3>2, TestedJudged
    <3>3. CASE i # 1
      BY <1>3, <3>1, <3>3 DEF Skippable
    <3> QED BY <3>2, <3>3
  <2>3. CASE EnterFile
    <3>1. /\ ~frames'[1].candidate /\ Len(frames') = Len(frames) + 1
          /\ Len(frames) \in Nat /\ DOMAIN frames = 1..Len(frames)
          /\ i # 1 => i - 1 \in DOMAIN frames /\ frames'[i] = frames[i - 1]
      BY <2>3, FileEntered
    <3>2. i # 1 /\ i - 1 # Len(frames)
      BY <1>3, <3>1
    <3> QED BY <1>3, <3>1, <3>2 DEF Skippable
  <2>4. CASE Leaves
    <3>1. /\ i + 1 \in DOMAIN frames /\ frames'[i] = frames[i + 1]
          /\ Len(frames') = Len(frames) - 1 /\ Len(frames) \in Nat
          /\ DOMAIN frames = 1..Len(frames)
      BY <2>4, FileLeft
    <3>2. i + 1 # Len(frames)
      BY <1>3, <3>1
    <3> QED BY <1>3, <3>1, <3>2 DEF Skippable
  <2>5. CASE EnterSource
    <3>1. frames' = <<[file |-> NextSource, rest |-> Contents(NextSource),
                       candidate |-> FALSE]>>
      BY <2>5 DEF EnterSource
    <3> QED BY <1>3, <3>1
  <2>6. CASE EndSourceFileAction
    <3>1. frames' = <<>>
      BY <2>6 DEF EndSourceFileAction
    <3> QED BY <3>1
  <2>7. CASE UNCHANGED frames
    BY <1>3, <2>7 DEF Skippable
  <2> QED BY <2>1, <2>2, <2>3, <2>4, <2>5, <2>6, <2>7, StepKinds, EndStep, QuietStep
<1> QED BY <1>1, <1>2, <1>3 DEF Skippable

-----------------------------------------------------------------------------
(* The main file.                                                          *)

(* What is left of a file after one of its items has no conditional.       *)
LEMMA RestUnconditional ==
  ASSUME IInv, PlainInv, NEW i \in DOMAIN frames, frames[i].rest # <<>>
  PROVE  Unconditional(Tail(frames[i].rest))
<1>1. frames[i].rest \in Seq(Item)
  BY FrameTyped DEF IInv
<1>2. \A j \in DOMAIN Tail(frames[i].rest) :
        /\ j + 1 \in DOMAIN frames[i].rest /\ j + 1 # 1
        /\ Tail(frames[i].rest)[j] = frames[i].rest[j + 1]
  BY <1>1, TailItems
<1> QED BY <1>2 DEF PlainInv, GuardFirst, Unconditional

LEMMA OwnMacroDefined ==
  ASSUME IInv, Plain(program), PlainInv, MacroDefined,
         NEW f \in macros' \cap File, f \notin macros
  PROVE  f = frames[1].file /\ ~InPredefines
<1>1. /\ Preprocessing /\ Remaining # <<>> /\ Head(Remaining).op = "define"
      /\ macros' = macros \cup {Head(Remaining).macro}
  BY ReadsItem DEF Reads, MacroDefined, Lexing
<1> QED BY <1>1, NextPlainItem DEF PlainInv

LEMMA StaysTaken ==
  ASSUME IInv, IInv', Plain(program), PlainInv, PlainInv', MainTaken, [Next]_vars
  PROVE  MainTaken'
<1> SUFFICES ASSUME phase' = "preprocess"
             PROVE  \/ Unconditional(frames'[Len(frames')].rest)
                    \/ frames'[Len(frames')].file \notin macros'
  BY DEF MainTaken, Unconditional
<1> DEFINE main == frames[Len(frames)].file
<1>1. CASE EnterSource
  <2>1. /\ frames' = <<[file |-> NextSource, rest |-> Contents(NextSource),
                       candidate |-> FALSE]>>
        /\ macros' = program.macros
    BY <1>1 DEF EnterSource
  <2>2. Len(frames') = 1 /\ frames'[1].file = NextSource
    BY <2>1
  <2>3. NextSource \in File
    BY <1>1, ProgramFields DEF EnterSource, MoreSources, NextSource, IInv, TypeOK
  <2> QED BY <2>1, <2>2, <2>3 DEF Plain
<1>2. CASE ~EnterSource
  <2>1. phase = "preprocess"
    <3>1. ~EndOfMainFile
      BY DEF EndOfMainFile
    <3> QED BY <1>2, <3>1, PhaseStep
  <2>2. /\ main \in ToSet(program.sources) /\ Len(frames) \in DOMAIN frames
        /\ main \in File
    BY <2>1, MainIsSource, FrameTyped DEF PlainInv, IInv
  <2>3. Unconditional(frames[Len(frames)].rest) \/ main \notin macros
    BY <2>1 DEF MainTaken
  <2>4. frames'[Len(frames')].file = main
    <3>1. UNCHANGED started
      BY <1>2, StartedStep
    <3> QED BY <2>1, <3>1, ProgramFixed DEF PlainInv, SourcesAreMain
  <2>5. \/ frames'[Len(frames')].rest = frames[Len(frames)].rest
        \/ frames[Len(frames)].rest # <<>>
           /\ frames'[Len(frames')].rest \in {<<>>, Tail(frames[Len(frames)].rest)}
    <3>1. CASE Reads
      <4>1. /\ Len(frames') = Len(frames)
            /\ \A i \in DOMAIN frames : i # 1 => frames'[i] = frames[i]
            /\ InPredefines => frames' = frames
            /\ ~InPredefines => /\ frames[1].rest # <<>>
                                /\ frames'[1].rest = Tail(frames[1].rest)
        BY <3>1, ReadsItem, ItemRead
      <4> QED BY <2>2, <4>1
    <3>2. CASE IfOrIfndef
      BY <2>2, <3>2, ConditionalRead
    <3>3. CASE EnterFile
      <4>1. /\ Len(frames) + 1 \in DOMAIN frames'
            /\ frames'[Len(frames) + 1] = frames[Len(frames)]
            /\ Len(frames') = Len(frames) + 1
        BY <2>2, <3>3, FileEntered
      <4> QED BY <4>1
    <3>4. CASE Leaves
      <4>1. /\ Len(frames') = Len(frames) - 1 /\ Len(frames) > 1
            /\ Len(frames) # 1 /\ Len(frames) \in Nat
            /\ frames[Len(frames)] = frames'[Len(frames) - 1]
        BY <2>2, <3>4, FileLeft
      <4> QED BY <4>1
    <3>5. CASE UNCHANGED frames
      BY <3>5
    <3>6. ~EndSourceFileAction
      BY DEF EndSourceFileAction
    <3> QED BY <1>2, <3>1, <3>2, <3>3, <3>4, <3>5, <3>6, StepKinds, EndStep, QuietStep
  <2>6. CASE Unconditional(frames'[Len(frames')].rest)
    BY <2>6
  <2>7. CASE ~Unconditional(frames'[Len(frames')].rest)
    <3>1. Unconditional(<<>>)
      BY DEF Unconditional
    <3>2. /\ frames'[Len(frames')].rest = frames[Len(frames)].rest
          /\ ~Unconditional(frames[Len(frames)].rest)
      BY <2>2, <2>5, <2>7, <3>1, RestUnconditional
    <3>3. main \notin macros
      BY <2>3, <3>2
    <3>4. main \notin macros'
      <4>1. CASE ~MacroDefined
        BY <2>2, <3>3, <4>1, MacrosDefined
      <4>2. CASE MacroDefined
        <5> SUFFICES ASSUME main \in macros' PROVE FALSE
          OBVIOUS
        <5>1. main = frames[1].file /\ ~InPredefines
          BY <2>2, <3>3, <4>2, OwnMacroDefined
        <5>2. 1 = Len(frames)
          <6>1. 1 \in DOMAIN frames
            BY <2>1, Back
          <6> QED BY <2>2, <5>1, <6>1 DEF PlainInv, SourcesAreMain
        <5>3. /\ frames[1].rest # <<>> /\ frames'[1].rest = Tail(frames[1].rest)
              /\ Len(frames') = Len(frames)
          <6>1. Reads
            BY <4>2 DEF Reads
          <6> QED BY <5>1, <6>1, ReadsItem, ItemRead
        <5>4. Unconditional(Tail(frames[1].rest))
          BY <2>2, <5>2, <5>3, RestUnconditional
        <5> QED BY <2>7, <5>2, <5>3, <5>4
      <4> QED BY <4>1, <4>2
    <3> QED BY <2>4, <3>4
  <2> QED BY <2>6, <2>7
<1> QED BY <1>1, <1>2

-----------------------------------------------------------------------------
(* What the files in progress gather, step by step.                        *)

(* What no file pushes weighs nothing.                                     *)
Weighs(w) ==
  /\ w \in [File -> Nat]
  /\ \A f \in File : f \in program.absent \/ Judged(f) => w[f] = 0

LEMMA ScriptsStay ==
  ASSUME UNCHANGED program
  PROVE  \A f : EffectiveScript(f)' = EffectiveScript(f)
BY DEF EffectiveScript

(* A frame of which nothing changes, at its place or the next.             *)
LEMMA GathersStays ==
  ASSUME UNCHANGED program, NEW w, NEW i, NEW k, Gathers(w, i),
         frames'[k].file = frames[i].file, frames'[k].rest = frames[i].rest,
         Left(k)' = Left(i),
         m_stack'[k].overridden_file_size = m_stack[i].overridden_file_size,
         m_stack'[k].c.file_size + InFlight(w, k)'
           = m_stack[i].c.file_size + InFlight(w, i)
  PROVE  Gathers(w, k)'
BY ScriptsStay DEF Gathers

LEMMA StackTyped ==
  ASSUME IInv, phase = "preprocess"
  PROVE  /\ DOMAIN m_stack = DOMAIN frames /\ Len(frames) \in Nat
         /\ 1 \in DOMAIN frames /\ DOMAIN frames = 1..Len(frames)
         /\ \A i \in DOMAIN frames :
              /\ m_stack[i].c.file_size \in Nat
              /\ frames[i].file \in File /\ frames[i].rest \in Seq(Item)
              /\ m_stack[i].overridden_file_size \in Nat \cup {NoValue}
<1>1. /\ m_stack \in Seq(InProgress) /\ frames \in Seq(Frame)
      /\ Len(m_stack) = Len(frames) /\ 1 \in DOMAIN frames
  BY Back DEF IInv, TypeOK, StackInSync
<1>2. DOMAIN m_stack = DOMAIN frames /\ DOMAIN frames = 1..Len(frames)
      /\ Len(frames) \in Nat
  BY <1>1
<1>3. ASSUME NEW i \in DOMAIN frames
      PROVE  /\ m_stack[i].c.file_size \in Nat
             /\ m_stack[i].overridden_file_size \in Nat \cup {NoValue}
  <2>1. m_stack[i] \in InProgress
    BY <1>1, <1>2
  <2> QED BY <2>1 DEF InProgress, Cost
<1> QED BY <1>1, <1>2, <1>3, FrameTyped DEF IInv

LEMMA LeftTyped ==
  ASSUME IInv, phase = "preprocess", NEW i \in DOMAIN frames
  PROVE  Left(i) \in Seq(Item)
<1>1. frames[i].rest \in Seq(Item)
  BY StackTyped
<1>2. predefines \in Seq(Item)
  <2>1. {Include(f) : f \in File} \subseteq Item
    BY MadeItems
  <2> QED BY <2>1 DEF IInv, TypeOK
<1> QED BY <1>1, <1>2 DEF Left

(* What is left of the current file starts with the next item.             *)
LEMMA LeftRead ==
  ASSUME IInv, Preprocessing, Remaining # <<>>
  PROVE  /\ Left(1) # <<>> /\ Head(Left(1)) = Head(Remaining)
         /\ Left(1) \in Seq(Item)
         /\ InPredefines => /\ 1 = Len(frames)
                            /\ Tail(Left(1)) = Tail(predefines) \o frames[1].rest
         /\ ~InPredefines => /\ Left(1) = frames[1].rest /\ frames[1].rest # <<>>
                             /\ 1 = Len(frames) => predefines = <<>>
<1>1. /\ frames[1].rest \in Seq(Item) /\ 1 \in DOMAIN frames
      /\ Head(frames) = frames[1] /\ Left(1) \in Seq(Item)
      /\ predefines \in Seq({Include(f) : f \in File})
  BY StackTyped, LeftTyped, Back DEF Preprocessing, IInv, TypeOK
<1>2. CASE InPredefines
  <2>1. /\ 1 = Len(frames) /\ predefines # <<>> /\ Remaining = predefines
        /\ Left(1) = predefines \o frames[1].rest
    BY <1>2 DEF InPredefines, Remaining, Left
  <2>2. /\ predefines \o frames[1].rest # <<>>
        /\ Head(predefines \o frames[1].rest) = Head(predefines)
        /\ Tail(predefines \o frames[1].rest) = Tail(predefines) \o frames[1].rest
    BY <1>1, <2>1
  <2> QED BY <1>1, <1>2, <2>1, <2>2
<1>3. CASE ~InPredefines
  <2>1. Remaining = frames[1].rest /\ (1 = Len(frames) => predefines = <<>>)
    BY <1>1, <1>3 DEF InPredefines, Remaining
  <2>2. <<>> \o frames[1].rest = frames[1].rest
    BY <1>1
  <2>3. Left(1) = frames[1].rest
    BY <2>1, <2>2 DEF Left
  <2> QED BY <1>1, <1>3, <2>1, <2>3
<1> QED BY <1>2, <1>3

LEMMA LeftAdvances ==
  ASSUME IInv, Preprocessing, Remaining # <<>>, Advance
  PROVE  Left(1)' = Tail(Left(1))
<1>1. Len(frames') = Len(frames)
  BY ItemRead
<1>2. CASE InPredefines
  <2>1. frames' = frames /\ predefines' = Tail(predefines)
    BY <1>2 DEF Advance
  <2> QED BY <1>2, <2>1, LeftRead DEF Left
<1>3. CASE ~InPredefines
  <2>1. /\ frames'[1].rest = Tail(frames[1].rest) /\ predefines' = predefines
        /\ frames[1].rest \in Seq(Item) /\ frames[1].rest # <<>>
    BY <1>3, ItemRead
  <2>2. PICK t \in Seq(Item) : t = Tail(frames[1].rest)
    BY <2>1, SeqHead
  <2>3. <<>> \o t = t
    OBVIOUS
  <2> QED BY <1>1, <1>3, <2>1, <2>2, <2>3, LeftRead DEF Left
<1> QED BY <1>2, <1>3

(* Nor do the files below it change.                                       *)
LEMMA GathersBelow ==
  ASSUME IInv, phase = "preprocess", UNCHANGED program, NEW w, NEW i \in DOMAIN frames, i # 1,
         Gathers(w, i), Len(frames') = Len(frames), frames'[i] = frames[i],
         frames'[i - 1].file = frames[i - 1].file,
         i = Len(frames) => predefines' = predefines,
         SameSizes(m_stack'[i], m_stack[i])
  PROVE  Gathers(w, i)'
<1>1. Left(i)' = Left(i)
  BY DEF Left
<1>2. InFlight(w, i)' = InFlight(w, i)
  BY DEF InFlight
<1> QED BY <1>1, <1>2, GathersStays DEF SameSizes

(* The current file, over an item.                                         *)
LEMMA TopAdvances ==
  ASSUME IInv, IInv', Preprocessing, Remaining # <<>>, UNCHANGED program, phase' = "preprocess",
         NEW w \in [File -> Nat], Gathers(w, 1),
         frames'[1].file = frames[1].file, Left(1)' = Tail(Left(1)),
         InFlight(w, 1)' = Amount(w, Head(Remaining)),
         m_stack'[1].c.file_size = m_stack[1].c.file_size,
         \/ /\ InPredefines /\ frames'[1].rest = frames[1].rest
            /\ m_stack'[1].overridden_file_size = m_stack[1].overridden_file_size
         \/ /\ ~InPredefines /\ frames'[1].rest = Tail(frames[1].rest)
            /\ m_stack'[1].overridden_file_size =
                 IF Head(Remaining).op = "override_size" THEN Head(Remaining).n
                 ELSE m_stack[1].overridden_file_size
  PROVE  Gathers(w, 1)'
<1>1. PICK f : f = frames[1].file
  OBVIOUS
<1>2. PICK c \in Nat : c = m_stack[1].c.file_size
  BY StackTyped DEF Preprocessing
<1>3. PICK s \in Seq(Item) : s = Left(1)
  BY LeftRead
<1>4. s # <<>> /\ Head(s) = Head(Remaining)
  BY <1>3, LeftRead
<1>5. /\ Total(w, s) = Amount(w, Head(s)) + Total(w, Tail(s))
      /\ Total(w, Tail(s)) \in Nat /\ Amount(w, Head(s)) \in Nat
  BY <1>4, TotalOfTail
<1>6. InFlight(w, 1) = 0
  BY DEF InFlight, Preprocessing
<1>7. c + 0 + Total(w, s) = Total(w, EffectiveScript(f))
  BY <1>1, <1>2, <1>3, <1>6 DEF Gathers
<1>8. c + Amount(w, Head(s)) + Total(w, Tail(s)) = Total(w, EffectiveScript(f))
  <2>1. PICK a \in Nat : a = Amount(w, Head(s))
    BY <1>5
  <2>2. PICK t \in Nat : t = Total(w, Tail(s))
    BY <1>5
  <2>3. c + 0 + (a + t) = c + a + t
    OBVIOUS
  <2> QED BY <1>5, <1>7, <2>1, <2>2, <2>3
<1>9. /\ m_stack'[1].c.file_size = c /\ Left(1)' = Tail(s)
      /\ InFlight(w, 1)' = Amount(w, Head(s))
  BY <1>2, <1>3, <1>4
<1>10. (m_stack[1].c.file_size + InFlight(w, 1) + Total(w, Left(1)))'
         = Total(w, EffectiveScript(f))
  BY <1>8, <1>9
<1>11. Overridden(frames'[1].rest, "override_size", m_stack'[1].overridden_file_size)
         = Overridden(frames[1].rest, "override_size", m_stack[1].overridden_file_size)
  <2>1. CASE InPredefines
    BY <2>1
  <2>2. CASE ~InPredefines
    <3>1. PICK r \in Seq(Item) : r = frames[1].rest
      BY StackTyped DEF Preprocessing
    <3>2. r # <<>> /\ Head(r) = Head(Remaining)
      BY <2>2, <3>1, LeftRead
    <3>3. PICK n : n = m_stack[1].overridden_file_size
      OBVIOUS
    <3>4. Overridden(r, "override_size", n) =
            Overridden(Tail(r), "override_size",
                       IF Head(r).op = "override_size" THEN Head(r).n ELSE n)
      BY <3>2, OverriddenOfTail
    <3> QED BY <2>2, <3>1, <3>2, <3>3, <3>4
  <2> QED BY <2>1, <2>2
<1>12. Overridden(frames[1].rest, "override_size", m_stack[1].overridden_file_size)
         = Overridden(program.script[f], "override_size", NoValue)
  BY <1>1 DEF Gathers
<1>13. EffectiveScript(f)' = EffectiveScript(f)
  BY ScriptsStay
<1> QED BY <1>1, <1>10, <1>11, <1>12, <1>13, ScriptsStay DEF Gathers

-----------------------------------------------------------------------------
(* A directive is what an item brings, on its way.                         *)
LEMMA InFlightRead ==
  ASSUME IInv, Plain(program), PlainInv, Reads, NEW w, Weighs(w)
  PROVE  InFlight(w, 1)' = Amount(w, Head(Remaining))
<1>1. PICK item \in Item : item = Head(Remaining)
  BY ReadsItem, NextItem
<1>2. /\ Preprocessing /\ Remaining # <<>> /\ pending = NoFile
  BY ReadsItem DEF Preprocessing
<1>3. item.op = "include" => /\ item.file \in File
                             /\ item.needs = {} /\ item.lacks = {}
  BY <1>1, <1>2, NextPlainItem DEF PlainInv, Include
<1>4. CASE InclusionDirective \/ InclusionFromDone
  <2>1. /\ pending' = item.file /\ item.op = "include" /\ item.file \in File
    BY <1>1, <1>3, <1>4, ReadStep
  <2>2. pending' # NoFile
    BY <2>1, NoFileAssumption
  <2> QED BY <1>1, <2>1, <2>2 DEF InFlight, Amount
<1>5. CASE ~InclusionDirective /\ ~InclusionFromDone
  <2>1. pending' = NoFile
    BY <1>2, <1>5, ReadStep
  <2>2. CASE MissingInclude
    <3>1. item.op = "include" /\ item.file \in program.absent
      BY <1>1, <2>2 DEF MissingInclude, Lexing
    <3> QED BY <1>1, <1>3, <2>1, <3>1 DEF Weighs, InFlight, Amount
  <2>3. CASE ~MissingInclude
    <3>1. item.op # "include"
      <4>1. CASE SkipExcluded
        BY <1>1, <1>3, <4>1 DEF SkipExcluded, Active
      <4>2. CASE ~SkipExcluded
        BY <1>1, <1>5, <2>3, <4>2 DEF Reads, LexTokens, PragmaOnce, PragmaDirective,
              MacroDefined, MacroUndefined, Lexing
      <4> QED BY <4>1, <4>2
    <3> QED BY <1>1, <2>1, <3>1 DEF InFlight, Amount
  <2> QED BY <2>2, <2>3
<1> QED BY <1>4, <1>5

(* An override that stands in a script is not excluded.                    *)
LEMMA OverrideRead ==
  ASSUME IInv, Plain(program), Measured(program), PlainInv, Reads, ~InPredefines,
         frames[1].file \notin DOMAIN overwrites,
         Head(Remaining).op = "override_size"
  PROVE  PragmaDirective
<1>1. PICK item : item = Head(Remaining)
  OBVIOUS
<1>2. /\ Preprocessing /\ Remaining # <<>>
      /\ 1 \in DOMAIN frames /\ Head(frames) = frames[1]
      /\ frames[1].file \in File /\ frames[1].rest \in Seq(Item)
  BY ReadsItem, Back, StackTyped DEF Preprocessing
<1>3. Remaining = frames[1].rest /\ frames[1].rest # <<>>
  BY <1>2 DEF Remaining
<1>4. item \in ToSet(frames[1].rest)
  BY <1>1, <1>2, <1>3, TailItems
<1>5. Contents(frames[1].file) = program.script[frames[1].file]
  BY DEF Contents
<1>6. PICK j \in DOMAIN program.script[frames[1].file] :
        item = program.script[frames[1].file][j]
  BY <1>2, <1>4, <1>5 DEF PlainInv, ReadsContents, ToSet
<1>7. item.needs = {} /\ item.lacks = {}
  BY <1>1, <1>2, <1>6 DEF Measured
<1>8. ~SkipExcluded
  BY <1>1, <1>7 DEF SkipExcluded, Active
<1>9. ~InclusionDirective /\ ~InclusionFromDone
  BY ReadStep
<1> QED BY <1>8, <1>9 DEF Reads, LexTokens, PragmaOnce, MacroDefined, MacroUndefined,
        MissingInclude, Lexing

LEMMA ReadGathers ==
  ASSUME IInv, IInv', Plain(program), Measured(program), PlainInv, Reads,
         NEW w, Weighs(w), FramesGather(w)
  PROVE  FramesGather(w)'
<1>1. /\ Preprocessing /\ Remaining # <<>> /\ Advance /\ phase = "preprocess"
      /\ UNCHANGED <<program, phase, overwrites>>
  BY ReadsItem DEF Preprocessing
<1>2. /\ Len(frames') = Len(frames) /\ DOMAIN frames' = DOMAIN frames
      /\ 1 \in DOMAIN frames
      /\ \A i \in DOMAIN frames : i # 1 => frames'[i] = frames[i]
      /\ frames'[1].file = frames[1].file
      /\ InPredefines => frames' = frames /\ Len(frames) = 1
      /\ ~InPredefines => /\ predefines' = predefines
                          /\ frames'[1].rest = Tail(frames[1].rest)
  BY <1>1, ItemRead
<1>3. DOMAIN m_stack = DOMAIN frames /\ Len(frames) \in Nat /\ DOMAIN frames = 1..Len(frames)
  BY <1>1, StackTyped
<1> SUFFICES ASSUME NEW i \in DOMAIN frames, frames[i].file \notin DOMAIN overwrites
             PROVE  Gathers(w, i)'
  BY <1>1, <1>2 DEF FramesGather
<1>4. Gathers(w, i)
  BY <1>1 DEF FramesGather
<1>5. CASE i # 1
  <2>1. i - 1 \in DOMAIN frames
    BY <1>3, <1>5
  <2>2. frames'[i - 1].file = frames[i - 1].file
    BY <1>2, <2>1
  <2>3. i = Len(frames) => predefines' = predefines
    BY <1>2, <1>5
  <2>4. SameSizes(m_stack'[i], m_stack[i])
    BY <1>3, <1>5, ReadSizes
  <2> QED BY <1>1, <1>2, <1>4, <1>5, <2>2, <2>3, <2>4, GathersBelow
<1>6. CASE i = 1
  <2>1. Left(1)' = Tail(Left(1))
    BY <1>1, LeftAdvances
  <2>2. InFlight(w, 1)' = Amount(w, Head(Remaining))
    BY InFlightRead
  <2>3. /\ m_stack'[1].c.file_size = m_stack[1].c.file_size
        /\ m_stack'[1].overridden_file_size =
             IF PragmaDirective /\ Head(Remaining).op = "override_size"
             THEN Head(Remaining).n
             ELSE m_stack[1].overridden_file_size
    BY <1>2, <1>3, ReadSizes
  <2>4. CASE InPredefines
    <3>1. Head(Remaining).op = "include"
      BY <1>1, <2>4, NextPlainItem DEF PlainInv
    <3> QED BY <1>1, <1>2, <1>4, <1>6, <2>1, <2>2, <2>3, <2>4, <3>1, TopAdvances
            DEF Weighs
  <2>5. CASE ~InPredefines
    <3>1. Head(Remaining).op = "override_size" => PragmaDirective
      BY <1>6, <2>5, OverrideRead
    <3> QED BY <1>1, <1>2, <1>4, <1>6, <2>1, <2>2, <2>3, <2>5, <3>1, TopAdvances
            DEF Weighs
  <2> QED BY <2>4, <2>5
<1> QED BY <1>5, <1>6

(* No guard excludes what follows it.                                      *)
LEMMA ConditionalTaken ==
  ASSUME IInv, Plain(program), Settled(program), Measured(program), PlainInv,
         SettledInv, MainTaken, IfOrIfndef
  PROVE  frames[1].file \notin macros
<1>1. CASE 1 # Len(frames)
  BY <1>1, TestedJudged, GuardUndefined DEF SettledInv
<1>2. CASE 1 = Len(frames)
  <2>1. /\ phase = "preprocess" /\ 1 \in DOMAIN frames[1].rest
        /\ frames[1].rest[1].op \in Conditional
    BY ConditionalRead DEF Preprocessing
  <2> QED BY <1>2, <2>1 DEF MainTaken, Unconditional
<1> QED BY <1>1, <1>2

LEMMA ConditionalGathers ==
  ASSUME IInv, IInv', Plain(program), Settled(program), Measured(program), PlainInv,
         SettledInv, MainTaken, IfOrIfndef, NEW w, Weighs(w), FramesGather(w)
  PROVE  FramesGather(w)'
<1>1. /\ Preprocessing /\ Remaining # <<>> /\ phase = "preprocess"
      /\ UNCHANGED <<program, phase, overwrites, predefines, pending>>
      /\ Head(Remaining).op \in Conditional
  BY DEF IfOrIfndef, Lexing, Preprocessing, Conditional
<1>2. /\ Len(frames') = Len(frames) /\ DOMAIN frames' = DOMAIN frames
      /\ 1 \in DOMAIN frames /\ ~InPredefines
      /\ \A i \in DOMAIN frames : i # 1 => frames'[i] = frames[i]
      /\ frames'[1].file = frames[1].file
      /\ frames'[1].rest = Tail(frames[1].rest)
  BY ConditionalRead, ConditionalTaken
<1>3. DOMAIN m_stack = DOMAIN frames /\ Len(frames) \in Nat /\ DOMAIN frames = 1..Len(frames)
  BY <1>1, StackTyped
<1> SUFFICES ASSUME NEW i \in DOMAIN frames, frames[i].file \notin DOMAIN overwrites
             PROVE  Gathers(w, i)'
  BY <1>1, <1>2 DEF FramesGather
<1>4. Gathers(w, i)
  BY <1>1 DEF FramesGather
<1>5. SameSizes(m_stack'[i], m_stack[i])
  BY <1>3, ConditionalSizes
<1>6. CASE i # 1
  <2>1. i - 1 \in DOMAIN frames
    BY <1>3, <1>6
  <2>2. frames'[i - 1].file = frames[i - 1].file
    BY <1>2, <2>1
  <2> QED BY <1>1, <1>2, <1>4, <1>5, <1>6, <2>2, GathersBelow
<1>7. CASE i = 1
  <2>1. Left(1)' = Tail(Left(1))
    <3>1. PICK t \in Seq(Item) : t = Tail(frames[1].rest)
      <4>1. frames[1].rest \in Seq(Item) /\ frames[1].rest # <<>>
        BY ConditionalRead
      <4> QED BY <4>1, SeqHead
    <3>2. <<>> \o t = t
      OBVIOUS
    <3> QED BY <1>1, <1>2, <3>1, <3>2, LeftRead DEF Left
  <2>2. InFlight(w, 1)' = Amount(w, Head(Remaining))
    BY <1>1 DEF InFlight, Amount, Conditional, Preprocessing
  <2>3. Head(Remaining).op # "override_size"
    BY <1>1 DEF Conditional
  <2> QED BY <1>1, <1>2, <1>4, <1>5, <1>7, <2>1, <2>2, <2>3, TopAdvances
          DEF Weighs, SameSizes
<1> QED BY <1>6, <1>7

-----------------------------------------------------------------------------
(* Into a file.                                                            *)
LEMMA EnterGathers ==
  ASSUME IInv, IInv', PlainInv, EnterFile, NEW w, Weighs(w), FramesGather(w)
  PROVE  FramesGather(w)'
<1>1. /\ pending \in File /\ pending # NoFile /\ pending' = NoFile
      /\ Len(frames') = Len(frames) + 1 /\ Len(frames) \in Nat
      /\ DOMAIN frames' = 1..Len(frames') /\ DOMAIN frames = 1..Len(frames)
      /\ frames'[1].file = pending /\ frames'[1].rest = Contents(pending)
      /\ \A i \in DOMAIN frames' :
           i # 1 => i - 1 \in DOMAIN frames /\ frames'[i] = frames[i - 1]
  BY FileEntered
<1>2. /\ UNCHANGED <<program, phase, predefines, overwrites>>
      /\ phase = "preprocess" /\ 1 \in DOMAIN frames
  BY EnterStep, Back
<1>3. DOMAIN m_stack = DOMAIN frames
  BY <1>2, StackTyped
<1>4. /\ m_stack'[1].c.file_size = 0 /\ m_stack'[1].overridden_file_size = NoValue
      /\ \A i \in DOMAIN frames' : i # 1 => SameSizes(m_stack'[i], m_stack[i - 1])
  <2>1. DOMAIN m_stack' = DOMAIN frames'
    <3>1. /\ m_stack' \in Seq(InProgress) /\ frames' \in Seq(Frame)
          /\ Len(m_stack') = Len(frames')
      BY DEF IInv, TypeOK, StackInSync
    <3> QED BY <3>1
  <2> QED BY <2>1, EnteredSizes
<1> SUFFICES ASSUME NEW k \in DOMAIN frames', frames'[k].file \notin DOMAIN overwrites
             PROVE  Gathers(w, k)'
  BY <1>2 DEF FramesGather
<1>5. CASE k = 1
  <2>1. PICK f \in File : f = pending
    BY <1>1
  <2>2. f \notin ToSet(program.sources)
    BY <2>1 DEF PlainInv, SourcesAreMain
  <2>3. Contents(f) = program.script[f] /\ EffectiveScript(f) = program.script[f]
    BY <1>1, <1>5, <2>1, <2>2 DEF Contents, EffectiveScript
  <2>4. EffectiveScript(f)' = EffectiveScript(f)
    BY <1>2, ScriptsStay
  <2>5. Left(1)' = program.script[f]
    <3>1. 1 # Len(frames')
      BY <1>1, <1>2
    <3> QED BY <1>1, <2>1, <2>3, <3>1 DEF Left
  <2>6. InFlight(w, 1)' = 0
    BY <1>1 DEF InFlight
  <2>7. PICK t \in Nat : t = Total(w, program.script[f])
    <3>1. program.script[f] \in Seq(Item)
      BY ProgramFields DEF IInv, TypeOK
    <3> QED BY <3>1, TotalTyped DEF Weighs
  <2>8. 0 + 0 + t = t
    OBVIOUS
  <2>9. /\ frames'[1].file = f /\ frames'[1].rest = program.script[f]
        /\ program'.script[f] = program.script[f]
    BY <1>1, <1>2, <2>1, <2>3
  <2> QED BY <1>4, <1>5, <2>3, <2>4, <2>5, <2>6, <2>7, <2>8, <2>9 DEF Gathers
<1>6. CASE k # 1
  <2>1. PICK i : i = k - 1
    OBVIOUS
  <2>2. i \in DOMAIN frames /\ frames'[k] = frames[i]
    BY <1>1, <1>6, <2>1
  <2>3. k = Len(frames') <=> i = Len(frames)
    BY <1>1, <2>1
  <2>4. Left(k)' = Left(i)
    BY <1>2, <2>2, <2>3 DEF Left
  <2>5. InFlight(w, k)' = InFlight(w, i)
    <3>1. InFlight(w, k)' = w[frames'[i].file]
      BY <1>6, <2>1 DEF InFlight
    <3>2. CASE i = 1
      BY <1>1, <3>1, <3>2 DEF InFlight
    <3>3. CASE i # 1
      <4>1. i \in DOMAIN frames'
        BY <1>1, <2>2
      <4>2. frames'[i] = frames[i - 1]
        BY <1>1, <3>3, <4>1
      <4> QED BY <3>1, <3>3, <4>2 DEF InFlight
    <3> QED BY <3>2, <3>3
  <2>6. Gathers(w, i)
    BY <1>2, <2>2 DEF FramesGather
  <2>7. SameSizes(m_stack'[k], m_stack[i])
    BY <1>4, <1>6, <2>1
  <2> QED BY <1>2, <2>2, <2>4, <2>5, <2>6, <2>7, GathersStays DEF SameSizes
<1> QED BY <1>5, <1>6

(* A file that clang does not enter is guarded: it brings nothing.         *)
LEMMA SkipGathers ==
  ASSUME IInv, IInv', SettledInv, Skippable, FileSkipped, NEW w, Weighs(w), FramesGather(w)
  PROVE  FramesGather(w)'
<1>1. /\ UNCHANGED <<program, phase, frames, predefines, m_stack, overwrites>>
      /\ phase = "preprocess" /\ pending # NoFile /\ pending' = NoFile
      /\ pending \in once \/ pending \in controlling
  BY DEF FileSkipped, Inclusion, ShouldEnter
<1>2. pending \in File /\ Judged(pending)
  BY <1>1 DEF SettledInv, OnceGuards, Skippable
<1>3. w[pending] = 0
  BY <1>2 DEF Weighs
<1> SUFFICES ASSUME NEW i \in DOMAIN frames, frames[i].file \notin DOMAIN overwrites
             PROVE  Gathers(w, i)'
  BY <1>1 DEF FramesGather
<1>4. Gathers(w, i)
  BY <1>1 DEF FramesGather
<1>5. InFlight(w, i)' = InFlight(w, i)
  BY <1>1, <1>3 DEF InFlight
<1>6. Left(i)' = Left(i)
  BY <1>1 DEF Left
<1> QED BY <1>1, <1>4, <1>5, <1>6, GathersStays

(* What a file costs when it is left.                                      *)
LEMMA LeavingSize ==
  ASSUME IInv, phase = "preprocess", NEW e, IsSizes(e), NEW w, w = Pushed(e),
         Gathers(w, 1), pending = NoFile, Left(1) = <<>>, frames[1].rest = <<>>,
         frames[1].file \notin DOMAIN overwrites
  PROVE  LeavingCost.file_size = e[frames[1].file]
<1>1. PICK f \in File : f = frames[1].file
  BY StackTyped
<1>2. PICK c \in Nat : c = m_stack[1].c.file_size
  BY StackTyped
<1>3. PICK n : n = m_stack[1].overridden_file_size
  OBVIOUS
<1>4. w \in [File -> Nat] /\ e \in [File -> Nat]
  BY PushedTyped DEF IsSizes
<1>5. Total(w, <<>>) = 0
  BY <1>4, TotalOfNothing
<1>6. InFlight(w, 1) = 0
  BY DEF InFlight
<1>7. PICK t \in Nat : t = Total(w, EffectiveScript(f))
  BY <1>4, EffectiveTyped, TotalTyped DEF IInv, TypeOK
<1>8. c = t
  <2>1. c + 0 + 0 = t
    BY <1>1, <1>2, <1>5, <1>6, <1>7 DEF Gathers
  <2> QED BY <2>1
<1>9. PICK s \in Seq(Item) : s = program.script[f]
  BY ProgramFields DEF IInv, TypeOK
<1>10. n = Overridden(s, "override_size", NoValue)
  <2>1. <<>> \in Seq(Item) /\ DOMAIN <<>> = {}
    OBVIOUS
  <2>2. Overridden(<<>>, "override_size", n) = n
    <3>1. PICK s0 \in Seq(Item) : s0 = <<>> /\ DOMAIN s0 = {}
      BY <2>1
    <3>2. Overridden(s0, "override_size", n) = n
      BY <3>1, OverriddenIs
    <3> QED BY <3>1, <3>2
  <2>3. Overridden(<<>>, "override_size", n) = Overridden(s, "override_size", NoValue)
    BY <1>1, <1>3, <1>9 DEF Gathers
  <2> QED BY <2>2, <2>3
<1>11. PICK z \in Nat : z = program.size[f]
  BY ProgramFields DEF IInv, TypeOK
<1>12. e[f] = Overridden(s, "override_size", z + t)
  BY <1>7, <1>9, <1>11 DEF IsSizes, SizeOf
<1>13. LeavingCost.file_size = IF n # NoValue THEN n ELSE c + z
  <2>1. Head(m_stack) = m_stack[1] /\ Head(frames) = frames[1]
    BY Back
  <2>2. FileSize(f) = z
    BY <1>1, <1>11 DEF FileSize
  <2> QED BY <1>1, <1>2, <1>3, <2>1, <2>2 DEF LeavingCost
<1>14. CASE \A j \in DOMAIN s : s[j].op # "override_size"
  <2>1. n = NoValue /\ e[f] = z + t
    BY <1>10, <1>12, <1>14, OverriddenIs
  <2> QED BY <1>1, <1>8, <1>13, <2>1
<1>15. CASE \E j \in DOMAIN s : s[j].op = "override_size"
  <2>1. PICK i \in DOMAIN s : /\ s[i].op = "override_size"
                              /\ \A j \in DOMAIN s : s[j].op = "override_size" => j <= i
                              /\ n = s[i].n
    BY <1>10, <1>15, OverriddenIs
  <2>2. PICK k \in DOMAIN s : /\ s[k].op = "override_size"
                              /\ \A j \in DOMAIN s : s[j].op = "override_size" => j <= k
                              /\ e[f] = s[k].n
    BY <1>12, <1>15, OverriddenIs
  <2>3. i <= k /\ k <= i /\ i \in Int /\ k \in Int
    BY <2>1, <2>2
  <2>4. i = k
    BY <2>3
  <2>5. s[i].n \in Nat
    <3>1. s[i] \in Item
      OBVIOUS
    <3> QED BY <2>1, <3>1, ItemFields
  <2>6. n # NoValue
    BY <2>1, <2>5 DEF NoValue
  <2> QED BY <1>1, <1>13, <2>1, <2>2, <2>4, <2>6
<1> QED BY <1>14, <1>15

(* Out of a file: it pushes its size, unless it is guarded.                *)
LEMMA LeaveGathers ==
  ASSUME IInv, IInv', ReplacementsKnown, PlainInv, SettledInv, Present, Leaves,
         NEW e, IsSizes(e), NEW w, w = Pushed(e), Weighs(w), FramesGather(w)
  PROVE  FramesGather(w)'
<1>1. /\ Preprocessing /\ frames[1].rest = <<>> /\ Len(frames) > 1
      /\ 1 \in DOMAIN frames
      /\ Len(frames') = Len(frames) - 1 /\ Len(frames) \in Nat
      /\ DOMAIN frames' = 1..Len(frames') /\ DOMAIN frames = 1..Len(frames)
      /\ \A i \in DOMAIN frames' :
           i + 1 \in DOMAIN frames /\ frames'[i] = frames[i + 1]
      /\ UNCHANGED <<program, phase, predefines, pending, overwrites>>
  BY FileLeft
<1>2. phase = "preprocess" /\ pending = NoFile
  BY <1>1 DEF Preprocessing
<1>3. /\ \A i \in DOMAIN frames' :
           /\ i # 1 => SameSizes(m_stack'[i], m_stack[i + 1])
           /\ m_stack'[i].overridden_file_size = m_stack[i + 1].overridden_file_size
      /\ m_stack'[1].c.file_size =
           m_stack[2].c.file_size + (IF ExitUnguarded THEN LeavingCost.file_size ELSE 0)
  BY LeftSizes
<1>4. PICK f \in File : f = frames[1].file
  BY <1>2, StackTyped
<1>5. w[f] = IF ExitUnguarded THEN LeavingCost.file_size ELSE 0
  <2>1. LeavingFile /\ (ExitUnguarded <=> ~Guarded)
    BY DEF Leaves, ExitUnguarded, ExitGuardedFirst, ExitGuardedAgain
  <2>2. Guarded <=> Judged(f)
    BY <1>4, <2>1, ExitJudges
  <2>3. CASE ExitUnguarded
    <3>1. ~Judged(f)
      BY <2>1, <2>2, <2>3
    <3>2. f \notin DOMAIN overwrites
      BY <3>1, ReplacedJudged DEF SettledInv
    <3>3. 1 # Len(frames)
      <4>1. \A n \in Nat : n > 1 => n # 1
        OBVIOUS
      <4> QED BY <1>1, <4>1
    <3>4. f \notin program.absent
      BY <1>1, <1>4, <3>3 DEF Present
    <3>5. w[f] = e[f]
      BY <3>1, <3>4 DEF Pushed
    <3>6. Gathers(w, 1)
      BY <1>1, <1>2, <1>4, <3>2 DEF FramesGather
    <3>7. Left(1) = <<>>
      BY <1>1, <3>3 DEF Left
    <3>8. LeavingCost.file_size = e[f]
      BY <1>1, <1>2, <1>4, <3>2, <3>6, <3>7, LeavingSize
    <3> QED BY <2>3, <3>5, <3>8
  <2>4. CASE ~ExitUnguarded
    <3>1. w[f] = 0
      BY <2>1, <2>2, <2>4 DEF Weighs
    <3> QED BY <2>4, <3>1
  <2> QED BY <2>3, <2>4
<1> SUFFICES ASSUME NEW k \in DOMAIN frames', frames'[k].file \notin DOMAIN overwrites
             PROVE  Gathers(w, k)'
  BY <1>1 DEF FramesGather
<1>6. PICK i : i = k + 1
  OBVIOUS
<1>7. i \in DOMAIN frames /\ frames'[k] = frames[i] /\ i # 1 /\ i - 1 = k
  BY <1>1, <1>6
<1>8. Gathers(w, i)
  BY <1>1, <1>2, <1>7 DEF FramesGather
<1>9. Left(k)' = Left(i)
  <2>1. k = Len(frames') <=> i = Len(frames)
    BY <1>1, <1>6
  <2> QED BY <1>1, <1>7, <2>1 DEF Left
<1>10. InFlight(w, i) = w[frames[k].file]
  BY <1>7 DEF InFlight
<1>11. m_stack'[k].c.file_size + InFlight(w, k)' = m_stack[i].c.file_size + InFlight(w, i)
  <2>1. CASE k = 1
    <3>1. InFlight(w, k)' = 0 /\ InFlight(w, i) = w[f]
      BY <1>1, <1>2, <1>4, <1>10, <2>1 DEF InFlight
    <3>2. PICK c \in Nat : c = m_stack[2].c.file_size
      BY <1>2, <1>6, <1>7, <2>1, StackTyped
    <3>3. PICK x \in Nat : x = w[f]
      BY DEF Weighs
    <3>4. m_stack'[1].c.file_size = c + x
      BY <1>3, <1>5, <3>2, <3>3
    <3>5. c + x + 0 = c + x /\ i = 2
      BY <1>6, <2>1
    <3> QED BY <2>1, <3>1, <3>2, <3>3, <3>4, <3>5
  <2>2. CASE k # 1
    <3>1. k - 1 \in DOMAIN frames' /\ (k - 1) + 1 = k
      BY <1>1, <2>2
    <3>2. frames'[k - 1] = frames[k]
      BY <1>1, <3>1
    <3>3. InFlight(w, k)' = InFlight(w, i)
      BY <1>10, <2>2, <3>2 DEF InFlight
    <3> QED BY <1>3, <1>6, <2>2, <3>3 DEF SameSizes
  <2> QED BY <2>1, <2>2
<1> QED BY <1>1, <1>3, <1>6, <1>7, <1>8, <1>9, <1>11, GathersStays

LEMMA StartGathers ==
  ASSUME IInv, IInv', ReplacementsKnown, Plain(program), PlainInv, SettledInv,
         EnterSource, NEW w, Weighs(w)
  PROVE  FramesGather(w)'
<1>1. /\ frames' = <<[file |-> NextSource, rest |-> Contents(NextSource),
                      candidate |-> FALSE]>>
      /\ predefines' = [i \in DOMAIN program.forced |-> Include(program.forced[i])]
      /\ m_stack' = <<NewInProgress(UniqueIDOf(NextSource))>>
      /\ UNCHANGED <<program, pending, overwrites>> /\ MoreSources
  BY DEF EnterSource
<1>2. pending' = NoFile
  BY <1>1 DEF IInv, ScanState, MoreSources
<1>3. PICK f \in File : f = NextSource /\ f \in ToSet(program.sources)
  BY <1>1, ProgramFields DEF MoreSources, NextSource, IInv, TypeOK, ToSet
<1>4. /\ Len(frames') = 1 /\ DOMAIN frames' = {1}
      /\ frames'[1].file = f /\ frames'[1].rest = Contents(f)
      /\ m_stack'[1].c.file_size = 0 /\ m_stack'[1].overridden_file_size = NoValue
  BY <1>1, <1>3 DEF NewInProgress, ZeroCost
<1> SUFFICES ASSUME f \notin DOMAIN overwrites PROVE Gathers(w, 1)'
  BY <1>1, <1>4 DEF FramesGather
<1>5. Contents(f) = program.script[f]
  BY DEF Contents
<1>6. Left(1)' = EffectiveScript(f)
  BY <1>1, <1>3, <1>4, <1>5 DEF Left, EffectiveScript
<1>7. InFlight(w, 1)' = 0
  BY <1>2 DEF InFlight
<1>8. PICK t \in Nat : t = Total(w, EffectiveScript(f))
  BY EffectiveTyped, TotalTyped DEF Weighs, IInv, TypeOK
<1>9. 0 + 0 + t = t
  OBVIOUS
<1>10. EffectiveScript(f)' = EffectiveScript(f) /\ program'.script[f] = program.script[f]
  BY <1>1, ScriptsStay
<1> QED BY <1>4, <1>5, <1>6, <1>7, <1>8, <1>9, <1>10 DEF Gathers

LEMMA FramesStillGather ==
  ASSUME IInv, IInv', ReplacementsKnown, Plain(program), PlainInv,
         Settled(program), SettledInv, Measured(program),
         Present, Skippable, MainTaken, [Next]_vars,
         NEW e, IsSizes(e), NEW w, w = Pushed(e), Weighs(w), FramesGather(w)
  PROVE  FramesGather(w)'
<1>1. CASE EndOfMainFile \/ EndSourceFileAction \/ Finish
  <2>1. phase' # "preprocess"
    BY <1>1 DEF EndOfMainFile, EndSourceFileAction, Finish
  <2> QED BY <2>1 DEF FramesGather
<1>2. CASE Quiet
  <2>1. UNCHANGED <<program, phase, frames, predefines, pending, overwrites>>
    BY <1>2, QuietStep
  <2>2. UNCHANGED m_stack
    BY <1>2 DEF Quiet, Fails, SourceSeenBefore, NewIncludeFromDone,
                CostAssignedTwice, Fail, Stutter, vars
  <2>3. ASSUME NEW i, Gathers(w, i) PROVE Gathers(w, i)'
    <3>1. Left(i)' = Left(i) /\ InFlight(w, i)' = InFlight(w, i)
      BY <2>1 DEF Left, InFlight
    <3> QED BY <2>1, <2>2, <2>3, <3>1, GathersStays
  <2> QED BY <2>1, <2>3 DEF FramesGather
<1> QED BY <1>1, <1>2, StepKinds, ReadGathers, ConditionalGathers, EnterGathers,
           SkipGathers, LeaveGathers, StartGathers

-----------------------------------------------------------------------------
(* The vertices and their sizes.                                           *)
LEMMA SourcesUntouched ==
  ASSUME [Next]_vars, ~EnterSource
  PROVE  UNCHANGED sources
<1>1. CASE InclusionDirective
  BY <1>1, Zenon DEF InclusionDirective
<1>2. CASE Reads /\ ~InclusionDirective
  BY <1>2 DEF Reads, LexTokens, SkipExcluded, PragmaOnce, PragmaDirective,
              MacroDefined, MacroUndefined, MissingInclude, InclusionFromDone,
              resultVars
<1>3. CASE IfOrIfndef \/ EnterFile \/ FileSkipped \/ EndOfMainFile
  BY <1>3 DEF IfOrIfndef, EnterFile, FileSkipped, EndOfMainFile, resultVars
<1>4. CASE EndSourceFileAction \/ Finish
  BY <1>4 DEF EndSourceFileAction, Finish, resultVars
<1>5. CASE Leaves
  BY <1>5 DEF Leaves, ExitUnguarded, ExitGuardedFirst, ExitGuardedAgain, LeaveFile
<1>6. CASE Quiet
  BY <1>6 DEF Quiet, Fails, SourceSeenBefore, NewIncludeFromDone,
              CostAssignedTwice, Fail, Stutter, vars, resultVars
<1> QED BY <1>1, <1>2, <1>3, <1>4, <1>5, <1>6, StepKinds

(* A directive adds the vertex of a header, EnterSource that of a source.  *)
LEMMA VertexOf ==
  ASSUME IInv, Plain(program), PlainInv, [Next]_vars
  PROVE  /\ \A v \in DOMAIN nodes :
              v \in DOMAIN nodes' /\ nodes'[v].path = nodes[v].path
         /\ \A v \in DOMAIN nodes' \ DOMAIN nodes :
              /\ ~nodes'[v].is_guarded /\ nodes'[v].underlying_cost = ZeroCost
              /\ IF EnterSource THEN nodes'[v].path = NextSource
                 ELSE nodes'[v].path \notin ToSet(program.sources)
<1>1. \A v \in DOMAIN nodes :
        v \in DOMAIN nodes' /\ nodes'[v].path = nodes[v].path
  BY VertexStep DEF SameFile, Marked
<1>2. ASSUME NEW v \in DOMAIN nodes' \ DOMAIN nodes
      PROVE  /\ ~nodes'[v].is_guarded /\ nodes'[v].underlying_cost = ZeroCost
             /\ IF EnterSource THEN nodes'[v].path = NextSource
                ELSE nodes'[v].path \notin ToSet(program.sources)
  <2>1. CASE InclusionDirective /\ NewFile(nodes'[v], Head(Remaining).file)
    <3>1. /\ Preprocessing /\ Remaining # <<>> /\ Head(Remaining).op = "include"
      BY <2>1, ReadsItem, ReadStep DEF Reads
    <3>2. Head(Remaining).file \notin ToSet(program.sources)
      BY <3>1, NextPlainItem DEF PlainInv
    <3>3. ~EnterSource
      BY <3>1 DEF EnterSource, MoreSources, Preprocessing
    <3> QED BY <2>1, <3>2, <3>3 DEF NewFile
  <2>2. CASE EnterSource /\ NewFile(nodes'[v], NextSource)
    BY <2>2 DEF NewFile
  <2> QED BY <2>1, <2>2, VertexStep
<1> QED BY <1>1, <1>2

LEMMA NextIsSource ==
  ASSUME IInv, MoreSources
  PROVE  NextSource \in ToSet(program.sources)
BY ProgramFields DEF MoreSources, NextSource, IInv, TypeOK, ToSet

LEMMA StaysSourceVertices ==
  ASSUME IInv, Plain(program), PlainInv, SourceVertices, [Next]_vars
  PROVE  SourceVertices'
<1>1. UNCHANGED program
  BY ProgramFixed
<1>2. CASE ~EnterSource
  BY <1>1, <1>2, SourcesUntouched, VertexOf DEF SourceVertices
<1>3. CASE EnterSource
  <2> DEFINE n == Len(nodes) + 1
  <2>1. sources' = Append(sources, n) /\ sources \in Seq(Nat) /\ MoreSources
    BY <1>3 DEF EnterSource, IInv, TypeOK
  <2>2. DOMAIN nodes' = DOMAIN nodes \cup {n} /\ n \notin DOMAIN nodes /\ n \in Nat
    <3>1. nodes' = Append(nodes, FileNode(NextSource, FALSE, FALSE))
      BY <1>3 DEF EnterSource
    <3> QED BY <3>1 DEF IInv, TypeOK
  <2> HIDE DEF n
  <2>3. ToSet(sources') = ToSet(sources) \cup {n}
    <3>1. /\ DOMAIN sources' = DOMAIN sources \cup {Len(sources) + 1}
          /\ sources'[Len(sources) + 1] = n
          /\ \A i \in DOMAIN sources : sources'[i] = sources[i]
      BY <2>1, <2>2
    <3> QED BY <3>1 DEF ToSet
  <2>4. nodes'[n].path \in ToSet(program.sources)
    BY <1>3, <2>1, <2>2, VertexOf, NextIsSource
  <2> QED BY <1>1, <2>2, <2>3, <2>4, VertexOf DEF SourceVertices
<1> QED BY <1>2, <1>3

LEMMA SameVertex ==
  ASSUME IInv, NEW v \in DOMAIN nodes, NEW u \in DOMAIN nodes,
         nodes[v].path = nodes[u].path
  PROVE  v = u
<1>1. PICK x \in DOMAIN id_to_node : id_to_node[x].v = v
  BY DEF IInv, VerticesIdentified
<1>2. PICK y \in DOMAIN id_to_node : id_to_node[y].v = u
  BY DEF IInv, VerticesIdentified
<1>3. x = UniqueIDOf(nodes[v].path) /\ y = UniqueIDOf(nodes[u].path)
  BY <1>1, <1>2 DEF IInv, VerticesIdentified
<1> QED BY <1>1, <1>2, <1>3

(* A file that is marked has its size.                                     *)
LEMMA MarkedSize ==
  ASSUME IInv, ReplacementsKnown, Plain(program), PlainInv,
         NEW e, IsSizes(e), NEW w, w = Pushed(e), FramesGather(w),
         NEW v \in DOMAIN nodes, Marked(v)
  PROVE  /\ nodes[v].path = frames[1].file
         /\ nodes'[v].underlying_cost.file_size = e[nodes[v].path]
<1>1. /\ Preprocessing /\ phase = "preprocess" /\ v = BackState.v
      /\ pending = NoFile
  BY DEF Marked, ExitGuardedFirst, EndOfMainFile, LeavingFile, Preprocessing
<1>2. /\ nodes[v].path = frames[1].file /\ 1 \in DOMAIN frames
      /\ Head(frames) = frames[1] /\ frames[1].file \in File
      /\ nodes[v] \in Node /\ Len(frames) \in Nat /\ frames[1].rest \in Seq(Item)
  BY <1>1, Back, StackTyped
<1>3. nodes'[v].underlying_cost = LeavingCost
  <2>1. CASE ExitGuardedFirst
    <3>1. nodes' = [nodes EXCEPT ![v] = [nodes[v] EXCEPT !.is_guarded = TRUE,
                                           !.underlying_cost = LeavingCost]]
      BY <1>1, <2>1 DEF ExitGuardedFirst, MarkedGuarded, IInv, TypeOK
    <3> QED BY <1>2, <3>1 DEF Node
  <2>2. CASE EndOfMainFile
    <3>1. nodes' = [nodes EXCEPT ![v] = [nodes[v] EXCEPT !.underlying_cost = LeavingCost]]
      BY <1>1, <2>2 DEF EndOfMainFile, IInv, TypeOK
    <3> QED BY <1>2, <3>1 DEF Node
  <2> QED BY <2>1, <2>2 DEF Marked
<1>4. frames[1].rest = <<>> /\ Left(1) = <<>>
  <2>1. CASE ExitGuardedFirst
    <3>1. Len(frames) > 1 /\ frames[1].rest = <<>>
      BY <1>2, <2>1 DEF ExitGuardedFirst, LeavingFile
    <3>2. 1 # Len(frames)
      <4>1. \A n \in Nat : n > 1 => n # 1
        OBVIOUS
      <4> QED BY <1>2, <3>1, <4>1
    <3> QED BY <3>1, <3>2 DEF Left
  <2>2. CASE EndOfMainFile
    <3>1. Len(frames) = 1 /\ predefines = <<>> /\ frames[1].rest = <<>>
      BY <1>2, <2>2 DEF EndOfMainFile, Remaining, InPredefines
    <3>2. <<>> \o <<>> = <<>>
      OBVIOUS
    <3> QED BY <3>1, <3>2 DEF Left
  <2> QED BY <2>1, <2>2 DEF Marked
<1>5. ~BackState.fully_processed
  <2>1. CASE ExitGuardedFirst
    BY <2>1 DEF ExitGuardedFirst
  <2>2. CASE EndOfMainFile
    <3>1. Head(frames).file \in ToSet(program.sources)
      BY <1>1, <1>2, <2>2, MainIsSource DEF EndOfMainFile, PlainInv
    <3> QED BY <1>1, <3>1, SourceNotProcessed DEF PlainInv
  <2> QED BY <2>1, <2>2 DEF Marked
<1>6. frames[1].file \notin DOMAIN overwrites
  <2>1. Head(m_stack).id = UniqueIDOf(frames[1].file)
    BY <1>1, <1>2, Back
  <2> QED BY <1>5, <2>1 DEF ReplacementsKnown, Known, BackState
<1>7. Gathers(w, 1)
  BY <1>1, <1>2, <1>6 DEF FramesGather
<1>8. LeavingCost.file_size = e[frames[1].file]
  BY <1>1, <1>4, <1>6, <1>7, LeavingSize
<1> QED BY <1>2, <1>3, <1>8

LEMMA CostsStayRight ==
  ASSUME IInv, IInv', ReplacementsKnown, Plain(program), PlainInv, [Next]_vars,
         NEW e, IsSizes(e), NEW w, w = Pushed(e), FramesGather(w), CostsRight(e)
  PROVE  CostsRight(e)'
<1>1. UNCHANGED program
  BY ProgramFixed
<1>2. SUFFICES ASSUME NEW f \in File, NEW v \in DOMAIN nodes',
                      nodes'[v].path = f
               PROVE  nodes'[v].underlying_cost.file_size =
                        IF nodes'[v].is_guarded \/ Scanned(f)' THEN e[f] ELSE 0
  BY Zenon DEF CostsRight
<1>3. f = nodes'[v].path
  BY <1>2
<1>4. Scanned(f)' <=> /\ f \in ToSet(program.sources)
                      /\ ~(phase' = "preprocess" /\ f = program.sources[started'])
  BY <1>1 DEF Scanned
<1>5. CASE v \notin DOMAIN nodes
  <2>1. ~nodes'[v].is_guarded /\ nodes'[v].underlying_cost.file_size = 0
    BY <1>5, VertexOf DEF ZeroCost
  <2>2. ~Scanned(f)'
    <3>1. CASE EnterSource
      <4>1. /\ phase' = "preprocess" /\ started' = started + 1
            /\ NextSource = program.sources[started + 1]
        BY <3>1 DEF EnterSource, NextSource
      <4> QED BY <1>3, <1>4, <1>5, <3>1, <4>1, VertexOf
    <3>2. CASE ~EnterSource
      BY <1>3, <1>4, <1>5, <3>2, VertexOf
    <3> QED BY <3>1, <3>2
  <2> QED BY <1>3, <2>1, <2>2
<1>6. CASE v \in DOMAIN nodes
  <2>1. nodes[v].path = f
    BY <1>3, <1>6, VertexOf
  <2>2. nodes[v].underlying_cost.file_size =
          IF nodes[v].is_guarded \/ Scanned(f) THEN e[f] ELSE 0
    BY <1>6, <2>1 DEF CostsRight
  <2>3. CASE Marked(v)
    <3>1. /\ f = frames[1].file /\ nodes'[v].underlying_cost.file_size = e[f]
      BY <1>6, <2>1, <2>3, MarkedSize
    <3>2. nodes'[v].is_guarded \/ Scanned(f)'
      <4>1. CASE ExitGuardedFirst
        <5>1. nodes' = MarkedGuarded(v) /\ phase = "preprocess" /\ v = BackState.v
          BY <2>3, <4>1 DEF Marked, ExitGuardedFirst, LeavingFile, Preprocessing
        <5> QED BY <5>1, MarkedGuardedGrows
      <4>2. CASE EndOfMainFile
        <5>1. phase' = "end" /\ phase = "preprocess" /\ Len(frames) = 1
          BY <4>2, EndStep DEF EndOfMainFile
        <5>2. f \in ToSet(program.sources)
          BY <3>1, <5>1, MainIsSource DEF PlainInv
        <5> QED BY <1>4, <5>1, <5>2
      <4> QED BY <2>3, <4>1, <4>2 DEF Marked
    <3> QED BY <1>3, <3>1, <3>2
  <2>4. CASE ~Marked(v)
    <3>1. SameFile(nodes'[v], nodes[v])
      BY <1>6, <2>4, VertexStep
    <3>2. Scanned(f)' <=> Scanned(f)
      <4>1. CASE EnterSource
        <5>1. /\ phase' = "preprocess" /\ phase = "idle" /\ started' = started + 1
              /\ NextSource = program.sources[started + 1]
              /\ UniqueIDOf(NextSource) \notin DOMAIN id_to_node
          BY <4>1 DEF EnterSource, NextSource, MoreSources
        <5>2. f # NextSource
          BY <1>6, <2>1, <5>1 DEF IInv, VerticesIdentified
        <5> QED BY <1>4, <5>1, <5>2 DEF Scanned
      <4>2. CASE EndOfMainFile
        <5>1. phase' = "end" /\ phase = "preprocess" /\ Len(frames) = 1
          BY <4>2, EndStep DEF EndOfMainFile
        <5>2. frames[1].file = program.sources[started]
          BY <5>1, MainIsSource DEF PlainInv
        <5>3. f # frames[1].file
          <6> SUFFICES ASSUME f = frames[1].file PROVE FALSE
            OBVIOUS
          <6>1. /\ BackState.v \in DOMAIN nodes
                /\ nodes[BackState.v].path = frames[1].file
            BY <5>1, Back
          <6>2. v = BackState.v
            BY <1>6, <2>1, <6>1, SameVertex
          <6>3. nodes'[v].is_guarded = nodes[v].is_guarded
            BY <3>1 DEF SameFile
          <6> QED BY <1>3, <2>1, <2>4, <4>2, <6>2, <6>3 DEF Marked
        <5> QED BY <1>4, <5>1, <5>2, <5>3 DEF Scanned
      <4>3. CASE ~EnterSource /\ ~EndOfMainFile
        BY <1>4, <4>3, PhaseStep DEF Scanned
      <4> QED BY <4>1, <4>2, <4>3
    <3> QED BY <1>3, <2>1, <2>2, <3>1, <3>2 DEF SameFile
  <2> QED BY <2>3, <2>4
<1> QED BY <1>5, <1>6

-----------------------------------------------------------------------------
LEMMA SizesFixed ==
  ASSUME UNCHANGED program, NEW e
  PROVE  /\ IsSizes(e)' <=> IsSizes(e)
         /\ Pushed(e)' = Pushed(e)
<1>1. \A f : EffectiveScript(f)' = EffectiveScript(f) /\ (Judged(f)' <=> Judged(f))
  BY ScriptsStay DEF Judged
<1>2. Pushed(e)' = Pushed(e)
  BY <1>1 DEF Pushed
<1>3. ASSUME NEW f \in File PROVE SizeOf(e, f)' = SizeOf(e, f)
  BY <1>1, <1>2 DEF SizeOf
<1>4. IsSizes(e)' <=> IsSizes(e)
  BY <1>3 DEF IsSizes
<1> QED BY <1>2, <1>4

LEMMA MeasuredFixed ==
  ASSUME Measured(program), [Next]_vars
  PROVE  Measured(program)'
<1> DEFINE Ends(p) == \A S \in (SUBSET File) \ {{}} :
                        \E f \in S : \A d \in S : ~Pushes(p, f, d)
           Guards(p) == \A f \in File :
             /\ f \notin ToSet(p.sources) /\ FirstConditional(p.script[f])
                  => IsGuardedScript(p.script[f])
             /\ \A i \in DOMAIN p.script[f] :
                  p.script[f][i].op = "override_size" =>
                    p.script[f][i].needs = {} /\ p.script[f][i].lacks = {}
<1>1. PICK p : p = program /\ p = program'
  BY ProgramFixed
<1>2. Ends(p) /\ Guards(p)
  BY <1>1, Zenon DEF Measured
<1>3. Ends(p) => \A S \in (SUBSET File) \ {{}} :
                   \E f \in S : \A d \in S : ~Pushes(p, f, d)
  OBVIOUS
<1> QED BY <1>1, <1>2, Zenon DEF Measured

LEMMA MeasuredInvKept ==
  ASSUME IInv, IInv', ReplacementsKnown, Plain(program), PlainInv, PlainInv',
         Settled(program), SettledInv, SizesKnown, SizesKnown',
         Measured(program), MeasuredInv, [Next]_vars
  PROVE  Measured(program)' /\ MeasuredInv'
<1>1. UNCHANGED program
  BY ProgramFixed
<1>2. Measured(program)'
  BY MeasuredFixed
<1>3. PICK e : e = ExpectedSize
  OBVIOUS
<1>4. PICK w : w = Pushed(e)
  OBVIOUS
<1>5. IsSizes(e)
  BY <1>3 DEF SizesKnown
<1>6. ExpectedSize' = e /\ Pushed(e)' = w
  <2>1. IsSizes(e)'
    BY <1>1, <1>5, SizesFixed
  <2>2. e = ExpectedSize'
    BY <2>1 DEF SizesKnown
  <2> QED BY <1>1, <1>4, <2>2, SizesFixed
<1>7. Weighs(w)
  <2>1. w \in [File -> Nat]
    BY <1>4, <1>5, PushedTyped DEF IsSizes
  <2>2. \A f \in File : f \in program.absent \/ Judged(f) => w[f] = 0
    BY <1>4 DEF Pushed
  <2> QED BY <2>1, <2>2 DEF Weighs
<1>8. FramesGather(w) /\ CostsRight(e)
  BY <1>3, <1>4 DEF MeasuredInv
<1>9. FramesGather(w)'
  BY <1>4, <1>5, <1>7, <1>8, FramesStillGather DEF MeasuredInv
<1>10. CostsRight(e)'
  BY <1>4, <1>5, <1>8, CostsStayRight
<1>11. FramesGather(Pushed(ExpectedSize))' /\ CostsRight(ExpectedSize)'
  BY <1>6, <1>9, <1>10
<1>12. Present' /\ Skippable' /\ MainTaken' /\ SourceVertices'
  BY StaysPresent, StaysSkippable, StaysTaken, StaysSourceVertices DEF MeasuredInv
<1> QED BY <1>2, <1>11, <1>12 DEF MeasuredInv

LEMMA MeasuredInvInitially ==
  ASSUME Init
  PROVE  MeasuredInv
<1>1. program \in Program
  BY ProgramsAssumption DEF Init
<1>2. NoFile \notin program.absent
  BY <1>1, ProgramFields, NoFileAssumption
<1>3. /\ DOMAIN frames = {} /\ DOMAIN nodes = {} /\ DOMAIN sources = {}
      /\ pending = NoFile /\ phase = "idle" /\ controlling = {}
  BY DEF Init
<1>4. Present /\ Skippable /\ MainTaken
  BY <1>2, <1>3 DEF Present, Skippable, MainTaken
<1>5. SourceVertices
  BY <1>3 DEF SourceVertices, ToSet
<1>6. FramesGather(Pushed(ExpectedSize)) /\ CostsRight(ExpectedSize)
  BY <1>3 DEF FramesGather, CostsRight
<1> QED BY <1>4, <1>5, <1>6 DEF MeasuredInv

LEMMA MeasuredInvariant ==
  Spec /\ Plain(program) /\ Settled(program) /\ Measured(program)
    => [](SizesKnown /\ MeasuredInv)
<1>1. Init => MeasuredInv
  BY MeasuredInvInitially
<1>2. IInv /\ Plain(program) /\ Measured(program) => SizesKnown
  BY ExpectedIsSizes DEF IInv, TypeOK
<1>3. Measured(program) /\ [Next]_vars => Measured(program)'
  BY MeasuredFixed
<1>4. IInv /\ IInv' /\ ReplacementsKnown /\ (Plain(program) /\ PlainInv)
        /\ (Plain(program) /\ PlainInv)' /\ (Settled(program) /\ SettledInv)
        /\ SizesKnown /\ SizesKnown' /\ (Measured(program) /\ MeasuredInv)
        /\ [Next]_vars
        => (Measured(program) /\ MeasuredInv)'
  BY MeasuredInvKept
<1> QED BY <1>1, <1>2, <1>3, <1>4, InductiveInvariant, PlainInvariant,
           SettledInvariant, ReplacementsAlwaysKnown, PTL DEF Spec

(* On a plain program that is settled and measured, the result gives every *)
(* source and every guarded file its own size and that of its unguarded    *)
(* includes, every time they are included and through however many files   *)
(* (lines 536-539), or what a pragma of it sets, and no size to the others: *)
(* whether they are read, replaced or skipped on the way, nothing is lost  *)
(* and nothing counted twice.                                              *)
THEOREM SizesAlwaysComplete ==
  Spec /\ Plain(program) /\ Settled(program) /\ Measured(program)
    => []FileSizesComplete
<1>1. IInv /\ MeasuredInv => FileSizesComplete
  <2> SUFFICES ASSUME IInv, MeasuredInv, phase = "finished", NEW v \in DOMAIN nodes
               PROVE  nodes[v].underlying_cost.file_size =
                        IF v \in CostedVertices THEN ExpectedSize[nodes[v].path] ELSE 0
    BY Zenon DEF FileSizesComplete
  <2>1. PICK e : e = ExpectedSize
    OBVIOUS
  <2>2. CostsRight(e) /\ SourceVertices
    BY <2>1 DEF MeasuredInv
  <2>3. PICK f \in File : f = nodes[v].path
    <3>1. nodes[v] \in Node
      BY DEF IInv, TypeOK
    <3>2. nodes[v].path \in File
      BY <3>1 DEF Node
    <3> QED BY <3>2
  <2>4. Scanned(f) <=> v \in ToSet(sources)
    BY <2>2, <2>3 DEF Scanned, SourceVertices
  <2> QED BY <2>1, <2>2, <2>3, <2>4 DEF CostsRight, CostedVertices
<1> QED BY <1>1, InductiveInvariant, MeasuredInvariant, PTL
=============================================================================
