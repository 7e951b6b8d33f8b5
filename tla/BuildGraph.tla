----------------------------- MODULE BuildGraph -----------------------------
(***************************************************************************)
(* How build_graph.cpp turns a list of translation units into the include  *)
(* graph: the callbacks of IncludeScanner, the replacement of processed    *)
(* files at the end of each translation unit, and the loop over sources.   *)
(*                                                                         *)
(* The clang preprocessor that drives the callbacks is external.  A file   *)
(* is a short sequence of items (a run of tokens, a directive); clang's    *)
(* state is its include stack, the defined macros, the files that executed *)
(* #pragma once and the files whose controlling macro is known, the last   *)
(* three forgotten between translation units.                              *)
(*                                                                         *)
(* The build modelled keeps assert(): an assertion that fails stops the    *)
(* program, with the name of the assertion in abort.                       *)
(***************************************************************************)
EXTENDS Integers, Sequences, FiniteSets

CONSTANTS
  File,       \* the files of the program
  Stem,       \* what path.stem() tells apart
  Macro,      \* macros other than include guards; the guard of f is f itself
  Programs,   \* the programs an analysis may be started on
  NoFile      \* no inclusion is being performed

MacroName == Macro \cup File

(***************************************************************************)
(* Items.  An item is active when all of needs and none of lacks are       *)
(* defined: the conditional group it stands in.  #ifdef is not among the   *)
(* callbacks of IncludeScanner, so the group itself leaves no trace; the   *)
(* items ifndef and if are the conditionals an include guard is made of    *)
(* and extend to the end of the file.                                      *)
(***************************************************************************)
Item ==
       [op : {"include"}, file : File,
        needs : SUBSET MacroName, lacks : SUBSET MacroName]
  \cup [op : {"tokens", "override_size", "override_tokens"}, n : Nat,
        needs : SUBSET MacroName, lacks : SUBSET MacroName]
  \cup [op : {"define", "undef"}, macro : MacroName,
        needs : SUBSET MacroName, lacks : SUBSET MacroName]
  \cup [op : {"once", "ifndef", "if"},
        needs : SUBSET MacroName, lacks : SUBSET MacroName]

Include(f) == [op |-> "include", file |-> f, needs |-> {}, lacks |-> {}]
Tokens(k) == [op |-> "tokens", n |-> k, needs |-> {}, lacks |-> {}]
OverrideSize(k) == [op |-> "override_size", n |-> k, needs |-> {}, lacks |-> {}]
OverrideTokens(k) ==
  [op |-> "override_tokens", n |-> k, needs |-> {}, lacks |-> {}]
Define(m) == [op |-> "define", macro |-> m, needs |-> {}, lacks |-> {}]
Undef(m) == [op |-> "undef", macro |-> m, needs |-> {}, lacks |-> {}]
Once == [op |-> "once", needs |-> {}, lacks |-> {}]
Ifndef == [op |-> "ifndef", needs |-> {}, lacks |-> {}]
If == [op |-> "if", needs |-> {}, lacks |-> {}]

\* A program and the options of its analysis.
Program ==
  [script : [File -> Seq(Item)], size : [File -> Nat], sources : Seq(File),
   forced : Seq(File), absent : SUBSET File, external : SUBSET File,
   precompiled : SUBSET File, stem : [File -> Stem],
   macros : SUBSET MacroName, replace_file_optimization : BOOLEAN]

ASSUME ProgramsAssumption == Programs \subseteq Program
ASSUME NoFileAssumption == NoFile \notin File

(***************************************************************************)
(* A UniqueID is the file together with whether OverwriteFileSystem has    *)
(* swapped its contents, which gives it a new id.                          *)
(***************************************************************************)
UniqueID == File \X BOOLEAN

Cost == [token_count : Int, file_size : Nat]
ZeroCost == [token_count |-> 0, file_size |-> 0]
Plus(a, b) == [token_count |-> a.token_count + b.token_count,
               file_size |-> a.file_size + b.file_size]

NoValue == -1

\* A vertex is an index of nodes; 0 is a component that is not set.
Node == [path : File, is_external : BOOLEAN, underlying_cost : Cost,
         component : Nat, is_precompiled : BOOLEAN,
         internal_incoming : Nat, external_incoming : Nat,
         is_guarded : BOOLEAN]
Edge == [from : Nat, to : Nat, is_removable : BOOLEAN]
FileState == [v : Nat, fully_processed : BOOLEAN,
              replacement_contents : Seq(Item)]
InProgress == [id : UniqueID, c : Cost,
               overridden_token_count : Nat \cup {NoValue},
               overridden_file_size : Nat \cup {NoValue},
               seen_first : {"None", "If", "Ifndef"}]
ReplaceWith == [contents : Seq(Item), path : File, v : Nat]
Frame == [file : File, rest : Seq(Item), candidate : BOOLEAN]

VARIABLES
  program,
  phase,          \* of the tool: idle, preprocess, end, finished
  abort,          \* the assertion that failed, or none
  started,        \* number of sources whose translation unit was started
  \* the preprocessor
  frames,         \* include stack, the current file first
  predefines,     \* what is left of the predefines buffer: forced includes
  pending,        \* the file of the inclusion being performed
  macros, once, controlling,
  lexed,          \* getTokenCount()
  \* IncludeScanner and ExpensiveAction
  m_stack,        \* files in progress, m_stack.back() first
  accounted,      \* m_accounted_for_token_count
  id_to_node, m_needs_replacing, m_replaced,
  \* build_graph::result
  nodes, edges, sources, unguarded_files, missing_includes,
  \* OverwriteFileSystem
  overwrites

ppVars == <<frames, predefines, pending, macros, once, controlling, lexed>>
resultVars == <<nodes, edges, sources, unguarded_files, missing_includes>>
vars == <<program, phase, abort, started, ppVars, m_stack, accounted,
          id_to_node, m_needs_replacing, m_replaced, resultVars, overwrites>>

-----------------------------------------------------------------------------
(* Helpers. *)

UniqueIDOf(f) == <<f, f \in DOMAIN overwrites>>

\* Mutant: insert_or_assign.
InsertOrAssign(map, k, value) ==
  [x \in DOMAIN map \cup {k} |-> IF x = k THEN value ELSE map[x]]

\* std::unordered_map::emplace: an existing entry is kept.
Emplace(map, k, value) ==
  [x \in DOMAIN map \cup {k} |-> IF x \in DOMAIN map THEN map[x] ELSE value]

NewFileState(vertex) ==
  [v |-> vertex, fully_processed |-> FALSE, replacement_contents |-> <<>>]

NewInProgress(uid) ==
  [id |-> uid, c |-> ZeroCost, overridden_token_count |-> NoValue,
   overridden_file_size |-> NoValue, seen_first |-> "None"]

FileNode(f, external, precompiled) ==
  [path |-> f, is_external |-> external,
   underlying_cost |-> ZeroCost, component |-> 0,
   is_precompiled |-> precompiled,
   internal_incoming |-> 0, external_incoming |-> 0, is_guarded |-> FALSE]

\* What the file system serves for f, and its length.
Contents(f) ==
  IF f \in DOMAIN overwrites THEN <<Once>> \o overwrites[f]
  ELSE program.script[f]
FileSize(f) ==
  IF f \in DOMAIN overwrites THEN Len(Contents(f)) ELSE program.size[f]

\* The state of m_stack.back().
BackState == id_to_node[Head(m_stack).id]

InPredefines == Len(frames) = 1 /\ predefines # <<>>
Remaining == IF InPredefines THEN predefines ELSE Head(frames).rest

Preprocessing == phase = "preprocess" /\ abort = "none" /\ pending = NoFile

Active(item) == item.needs \subseteq macros /\ item.lacks \cap macros = {}

Lexing(ops) ==
  /\ Preprocessing
  /\ Remaining # <<>>
  /\ Head(Remaining).op \in ops
  /\ Active(Head(Remaining))

Advance ==
  IF InPredefines
  THEN predefines' = Tail(predefines) /\ UNCHANGED frames
  ELSE frames' = [frames EXCEPT ![1].rest = Tail(@)] /\ UNCHANGED predefines

\* clang enters a file unless it executed #pragma once or its controlling
\* macro is defined.
ShouldEnter(f) == f \notin once /\ ~(f \in controlling /\ f \in macros)

Fail(assertion) ==
  /\ abort' = assertion
  /\ UNCHANGED <<program, phase, started, ppVars, m_stack, accounted,
                 id_to_node, m_needs_replacing, m_replaced, resultVars,
                 overwrites>>

-----------------------------------------------------------------------------
Init ==
  /\ program \in Programs
  /\ phase = "idle" /\ abort = "none" /\ started = 0
  /\ frames = <<>> /\ predefines = <<>> /\ pending = NoFile
  /\ macros = {} /\ once = {} /\ controlling = {} /\ lexed = 0
  /\ m_stack = <<>> /\ accounted = 0
  /\ id_to_node = <<>> /\ m_needs_replacing = <<>> /\ m_replaced = {}
  /\ nodes = <<>> /\ edges = {} /\ sources = <<>>
  /\ unguarded_files = {} /\ missing_includes = {}
  /\ overwrites = <<>>

NextSource == program.sources[started + 1]
MoreSources ==
  phase = "idle" /\ abort = "none" /\ started < Len(program.sources)

(***************************************************************************)
(* ClangTool::run reaches the next source: a new preprocessor and a new    *)
(* IncludeScanner, whose first FileChanged(EnterFile) is the main file.    *)
(***************************************************************************)
EnterSource ==
  LET f == NextSource
      uid == UniqueIDOf(f)
      vertex == Len(nodes) + 1
  IN
  /\ MoreSources
  /\ uid \notin DOMAIN id_to_node
  /\ phase' = "preprocess"
  /\ started' = started + 1
  /\ frames' = <<[file |-> f, rest |-> Contents(f), candidate |-> FALSE]>>
  /\ predefines' = [i \in DOMAIN program.forced |-> Include(program.forced[i])]
  /\ macros' = program.macros
  /\ once' = {} /\ controlling' = {} /\ lexed' = 0 /\ accounted' = 0
  /\ id_to_node' = Emplace(id_to_node, uid, NewFileState(vertex))
  /\ nodes' = Append(nodes, FileNode(f, FALSE, FALSE))
  /\ sources' = Append(sources, vertex)
  /\ m_stack' = <<NewInProgress(uid)>>
  /\ UNCHANGED <<program, abort, pending, m_needs_replacing, m_replaced,
                 edges, unguarded_files, missing_includes, overwrites>>

\* assert(inserted): the source was already met as an include or as a source.
SourceSeenBefore ==
  /\ MoreSources
  /\ UniqueIDOf(NextSource) \in DOMAIN id_to_node
  /\ Fail("source_inserted")

-----------------------------------------------------------------------------
(* Items without an inclusion. *)

LexTokens ==
  /\ Lexing({"tokens"})
  /\ lexed' = lexed + Head(Remaining).n
  /\ Advance
  /\ UNCHANGED <<program, phase, abort, started, pending, macros, once,
                 controlling, m_stack, accounted, id_to_node,
                 m_needs_replacing, m_replaced, resultVars, overwrites>>

\* An item of a group that is not taken.
SkipExcluded ==
  /\ Preprocessing
  /\ Remaining # <<>>
  /\ ~Active(Head(Remaining))
  /\ Advance
  /\ UNCHANGED <<program, phase, abort, started, pending, macros, once,
                 controlling, lexed, m_stack, accounted, id_to_node,
                 m_needs_replacing, m_replaced, resultVars, overwrites>>

\* #pragma once is ignored in the main file.
PragmaOnce ==
  /\ Lexing({"once"})
  /\ once' = IF Len(frames) > 1 THEN once \cup {Head(frames).file} ELSE once
  /\ Advance
  /\ UNCHANGED <<program, phase, abort, started, pending, macros, controlling,
                 lexed, m_stack, accounted, id_to_node, m_needs_replacing,
                 m_replaced, resultVars, overwrites>>

PragmaDirective ==
  /\ Lexing({"override_size", "override_tokens"})
  /\ m_stack' =
       IF Head(Remaining).op = "override_size"
       THEN [m_stack EXCEPT ![1].overridden_file_size = Head(Remaining).n]
       ELSE [m_stack EXCEPT ![1].overridden_token_count = Head(Remaining).n]
  /\ Advance
  /\ UNCHANGED <<program, phase, abort, started, pending, macros, once,
                 controlling, lexed, accounted, id_to_node, m_needs_replacing,
                 m_replaced, resultVars, overwrites>>

(***************************************************************************)
(* The conditional of an include guard: the callback notes which kind of   *)
(* conditional came first.  clang takes the macro as a candidate for the   *)
(* controlling macro only if it is the first thing in the file and the     *)
(* macro is not defined.                                                   *)
(***************************************************************************)
IfOrIfndef ==
  LET f == Head(frames).file
      kind == IF Head(Remaining).op = "if" THEN "If" ELSE "Ifndef"
  IN
  /\ Lexing({"if", "ifndef"})
  /\ m_stack' =
       [m_stack EXCEPT ![1].seen_first = IF @ = "None" THEN kind ELSE @]
  /\ frames' =
       IF f \in macros
       THEN [frames EXCEPT ![1].rest = <<>>]
       ELSE [frames EXCEPT ![1].rest = Tail(@),
                           ![1].candidate = Head(frames).rest = Contents(f)]
  /\ UNCHANGED <<program, phase, abort, started, predefines, pending, macros,
                 once, controlling, lexed, accounted, id_to_node,
                 m_needs_replacing, m_replaced, resultVars, overwrites>>

\* Mutant: the replacement stays empty.
RecordNothing(item) == UNCHANGED id_to_node

\* The directive is kept for the replacement of the file, unless that has
\* been decided already.
RecordDirective(item) ==
  id_to_node' =
    IF /\ program.replace_file_optimization
       /\ ~BackState.fully_processed
       /\ BackState.v \notin m_replaced
    THEN [id_to_node EXCEPT
            ![Head(m_stack).id].replacement_contents = Append(@, item)]
    ELSE id_to_node

MacroDefined ==
  LET m == Head(Remaining).macro IN
  /\ Lexing({"define"})
  /\ macros' = macros \cup {m}
  /\ RecordDirective(Define(m))
  /\ Advance
  /\ UNCHANGED <<program, phase, abort, started, pending, once, controlling,
                 lexed, m_stack, accounted, m_needs_replacing, m_replaced,
                 resultVars, overwrites>>

\* There is no Undef directive for a macro that is not defined.
MacroUndefined ==
  LET m == Head(Remaining).macro IN
  /\ Lexing({"undef"})
  /\ macros' = macros \ {m}
  /\ IF m \in macros THEN RecordDirective(Undef(m)) ELSE UNCHANGED id_to_node
  /\ Advance
  /\ UNCHANGED <<program, phase, abort, started, pending, once, controlling,
                 lexed, m_stack, accounted, m_needs_replacing, m_replaced,
                 resultVars, overwrites>>

-----------------------------------------------------------------------------
(* Inclusion. *)

\* Mutants: a second edge to the same file, or any edge, is not noticed.
HasEdgeTo(from, to) == \E e \in edges : e.to = to
HasNoEdge(from, to) == FALSE

HasEdge(from, to) == \E e \in edges : e.from = from /\ e.to = to

IsComponent(ns, from, to) ==
  from # to /\ program.stem[ns[from].path] = program.stem[ns[to].path]

\* Line 638: the file including us is precompiled, or we are.
IsPrecompiled(f) ==
  nodes[BackState.v].is_precompiled \/ f \in program.precompiled

\* The incoming counters of to.
WithIncoming(ns, from, to) ==
  [ns EXCEPT
     ![to].internal_incoming = IF ns[from].is_external THEN @ ELSE @ + 1,
     ![to].external_incoming = IF ns[from].is_external THEN @ + 1 ELSE @]

\* Mutant: only the includer gets to know its component.
WithComponentOfOne(ns, from, to) ==
  IF IsComponent(ns, from, to) THEN [ns EXCEPT ![from].component = to] ELSE ns

\* The header-source guess.
WithComponent(ns, from, to) ==
  IF IsComponent(ns, from, to) /\ ns[from].component = 0
  THEN [ns EXCEPT ![to].component = from, ![from].component = to]
  ELSE ns

\* Mutant: a file that was left once is done, guarded or not.
DoneUnguarded == BackState.fully_processed

\* The includer is done: it is guarded and was fully processed before.
IncluderDone ==
  BackState.fully_processed /\ nodes[BackState.v].is_guarded

MissingInclude ==
  /\ Lexing({"include"})
  /\ Head(Remaining).file \in program.absent
  /\ missing_includes' = missing_includes \cup {Head(Remaining).file}
  /\ Advance
  /\ UNCHANGED <<program, phase, abort, started, pending, macros, once,
                 controlling, lexed, m_stack, accounted, id_to_node,
                 m_needs_replacing, m_replaced, nodes, edges, sources,
                 unguarded_files, overwrites>>

IncludingFile ==
  /\ Lexing({"include"})
  /\ Head(Remaining).file \notin program.absent

InclusionDirective ==
  LET f == Head(Remaining).file
      uid == UniqueIDOf(f)
      known == uid \in DOMAIN id_to_node
      from == BackState.v
      to == IF known THEN id_to_node[uid].v ELSE Len(nodes) + 1
      nodes1 == IF known THEN nodes
                ELSE Append(nodes,
                       FileNode(f, f \in program.external, IsPrecompiled(f)))
      map1 == Emplace(id_to_node, uid, NewFileState(to))
  IN
  /\ IncludingFile
  /\ ~IncluderDone
  /\ IF HasEdge(from, to)
     THEN nodes' = nodes1 /\ edges' = edges /\ id_to_node' = map1
     ELSE /\ nodes' = WithComponent(WithIncoming(nodes1, from, to), from, to)
          /\ edges' = edges \cup
               {[from |-> from, to |-> to, is_removable |->
                   ~InPredefines /\ ~IsComponent(nodes1, from, to)]}
          /\ id_to_node' =
               IF program.replace_file_optimization /\ from \in m_replaced
               THEN [map1 EXCEPT ![Head(m_stack).id].replacement_contents =
                                   Append(@, Include(f))]
               ELSE map1
  /\ pending' = f
  /\ Advance
  /\ UNCHANGED <<program, phase, abort, started, macros, once, controlling,
                 lexed, m_stack, accounted, m_needs_replacing, m_replaced,
                 sources, unguarded_files, missing_includes, overwrites>>

\* The early return: nothing new can be learnt from the includer.
InclusionFromDone ==
  LET f == Head(Remaining).file IN
  /\ IncludingFile
  /\ IncluderDone
  /\ UniqueIDOf(f) \in DOMAIN id_to_node
  /\ pending' = f
  /\ Advance
  /\ UNCHANGED <<program, phase, abort, started, macros, once, controlling,
                 lexed, m_stack, accounted, id_to_node, m_needs_replacing,
                 m_replaced, resultVars, overwrites>>

\* assert(!inserted): ... unless it now includes a file never met before.
NewIncludeFromDone ==
  /\ IncludingFile
  /\ IncluderDone
  /\ UniqueIDOf(Head(Remaining).file) \notin DOMAIN id_to_node
  /\ Fail("include_not_inserted")

Inclusion == phase = "preprocess" /\ abort = "none" /\ pending # NoFile

\* FileChanged(EnterFile) for an included file.
EnterFile ==
  /\ Inclusion
  /\ ShouldEnter(pending)
  /\ m_stack' = <<NewInProgress(UniqueIDOf(pending))>> \o
                [m_stack EXCEPT ![1].c.token_count = lexed - accounted]
  /\ accounted' = lexed
  /\ frames' = <<[file |-> pending, rest |-> Contents(pending),
                  candidate |-> FALSE]>> \o frames
  /\ pending' = NoFile
  /\ UNCHANGED <<program, phase, abort, started, predefines, macros, once,
                 controlling, lexed, id_to_node, m_needs_replacing, m_replaced,
                 resultVars, overwrites>>

\* Mutant: a file that is skipped is put in progress.
FileSkippedPushes ==
  /\ Inclusion
  /\ ~ShouldEnter(pending)
  /\ pending' = NoFile
  /\ m_stack' = <<NewInProgress(UniqueIDOf(pending))>> \o m_stack
  /\ UNCHANGED <<program, phase, abort, started, frames, predefines, macros,
                 once, controlling, lexed, accounted, id_to_node,
                 m_needs_replacing, m_replaced, resultVars, overwrites>>

FileSkipped ==
  /\ Inclusion
  /\ ~ShouldEnter(pending)
  /\ pending' = NoFile
  /\ UNCHANGED <<program, phase, abort, started, frames, predefines, macros,
                 once, controlling, lexed, m_stack, accounted, id_to_node,
                 m_needs_replacing, m_replaced, resultVars, overwrites>>

-----------------------------------------------------------------------------
(* Leaving a file. *)

\* Mutant: an override that is not set is used.
LeavingCostUnchecked ==
  [file_size |-> Head(m_stack).overridden_file_size,
   token_count |-> Head(m_stack).overridden_token_count]

\* update_cost_when_leaving_file, for the file on top of the stack.
LeavingCost ==
  LET p == Head(m_stack)
  IN [file_size |->
        IF p.overridden_file_size # NoValue THEN p.overridden_file_size
        ELSE p.c.file_size + FileSize(Head(frames).file),
      token_count |->
        IF p.overridden_token_count # NoValue THEN p.overridden_token_count
        ELSE p.c.token_count + (lexed - accounted)]

\* At the end of the file clang has settled whether it has a controlling macro.
Controlling ==
  IF Head(frames).candidate THEN controlling \cup {Head(frames).file}
  ELSE controlling

\* Guarded for clang and for MSVC, which does not know #if !defined guards.
Guarded ==
  LET f == Head(frames).file
      clang_guarded == f \in once \/ f \in Controlling
      msvc_guarded ==
        f \in once \/ (f \in Controlling /\ Head(m_stack).seen_first = "Ifndef")
  IN clang_guarded /\ msvc_guarded

LeavingFile == Preprocessing /\ Len(frames) > 1 /\ Head(frames).rest = <<>>

\* Mutant: the cost replaces what the includer has gathered.
CostAssignedToIncluder == [Tail(m_stack) EXCEPT ![1].c = LeavingCost]

\* Pop, and push the cost to the includer.
CostPushedToIncluder == [Tail(m_stack) EXCEPT ![1].c = Plus(@, LeavingCost)]

\* Mutant: the file never becomes processed.
NotProcessed == id_to_node

MarkedProcessed ==
  [id_to_node EXCEPT ![Head(m_stack).id].fully_processed = TRUE]

\* Mutant: the file is not marked.
CostOnly(v) == [nodes EXCEPT ![v].underlying_cost = LeavingCost]

MarkedGuarded(v) ==
  [nodes EXCEPT ![v].is_guarded = TRUE, ![v].underlying_cost = LeavingCost]

\* Mutant: the tokens of the file that is left are not accounted for.
LeaveFileUnaccounted ==
  /\ frames' = Tail(frames)
  /\ controlling' = Controlling
  /\ UNCHANGED <<program, phase, abort, started, predefines, pending, macros,
                 once, lexed, accounted, m_replaced, edges, sources,
                 missing_includes, overwrites>>

\* What every exit does: the tokens are accounted for, clang pops its stack.
LeaveFile ==
  /\ accounted' = lexed
  /\ frames' = Tail(frames)
  /\ controlling' = Controlling
  /\ UNCHANGED <<program, phase, abort, started, predefines, pending, macros,
                 once, lexed, m_replaced, edges, sources, missing_includes,
                 overwrites>>

ExitUnguarded ==
  /\ LeavingFile
  /\ ~Guarded
  /\ unguarded_files' = unguarded_files \cup {BackState.v}
  /\ m_stack' = CostPushedToIncluder
  /\ id_to_node' = MarkedProcessed
  /\ LeaveFile
  /\ UNCHANGED <<m_needs_replacing, nodes>>

ExitGuardedFirst ==
  LET v == BackState.v IN
  /\ LeavingFile
  /\ Guarded
  /\ ~BackState.fully_processed
  /\ nodes[v].underlying_cost = ZeroCost
  /\ unguarded_files' = unguarded_files \ {v}
  /\ m_needs_replacing' =
       IF program.replace_file_optimization /\ v \notin m_replaced
       THEN Emplace(m_needs_replacing, Head(m_stack).id,
              [contents |-> BackState.replacement_contents,
               path |-> Head(frames).file, v |-> v])
       ELSE m_needs_replacing
  /\ nodes' = MarkedGuarded(v)
  /\ id_to_node' = MarkedProcessed
  /\ m_stack' = Tail(m_stack)
  /\ LeaveFile

\* assert(node.underlying_cost == cost{})
CostAssignedTwice ==
  /\ LeavingFile
  /\ Guarded
  /\ ~BackState.fully_processed
  /\ nodes[BackState.v].underlying_cost # ZeroCost
  /\ Fail("cost_unset")

\* Mutant: the cost is recorded again.
ExitGuardedRecordsAgain ==
  /\ LeavingFile
  /\ Guarded
  /\ BackState.fully_processed
  /\ unguarded_files' = unguarded_files \ {BackState.v}
  /\ nodes' = MarkedGuarded(BackState.v)
  /\ m_stack' = Tail(m_stack)
  /\ LeaveFile
  /\ UNCHANGED <<id_to_node, m_needs_replacing>>

ExitGuardedAgain ==
  /\ LeavingFile
  /\ Guarded
  /\ BackState.fully_processed
  /\ unguarded_files' = unguarded_files \ {BackState.v}
  /\ m_stack' = Tail(m_stack)
  /\ LeaveFile
  /\ UNCHANGED <<id_to_node, m_needs_replacing, nodes>>

EndOfMainFile ==
  /\ Preprocessing
  /\ Len(frames) = 1
  /\ Remaining = <<>>
  /\ nodes' = [nodes EXCEPT ![BackState.v].underlying_cost = LeavingCost]
  /\ m_stack' = [m_stack EXCEPT ![1].c = LeavingCost]
  /\ accounted' = lexed
  /\ phase' = "end"
  /\ UNCHANGED <<program, abort, started, ppVars, id_to_node,
                 m_needs_replacing, m_replaced, edges, sources,
                 unguarded_files, missing_includes, overwrites>>

-----------------------------------------------------------------------------
(***************************************************************************)
(* EndSourceFileAction: OverwriteFileSystem::replace for every file of     *)
(* m_needs_replacing, whose entry of id_to_node moves to the new id.  The  *)
(* scanner of this translation unit is gone.                               *)
(***************************************************************************)
NeedsReplacing == DOMAIN m_needs_replacing
ReplacedPaths == {m_needs_replacing[i].path : i \in NeedsReplacing}
ReplacementOf(f) ==
  CHOOSE i \in NeedsReplacing : m_needs_replacing[i].path = f

\* Mutant: the entries stay under the old id.
EntriesNotMoved == id_to_node

EntriesMoved ==
  LET kept == DOMAIN id_to_node \ NeedsReplacing
  IN [uid \in kept \cup {<<f, TRUE>> : f \in ReplacedPaths} |->
        IF uid \in kept THEN id_to_node[uid]
        ELSE id_to_node[ReplacementOf(uid[1])]]

EndSourceFileAction ==
  /\ phase = "end"
  /\ abort = "none"
  /\ overwrites' =
       [f \in DOMAIN overwrites \cup ReplacedPaths |->
          IF f \in ReplacedPaths
          THEN m_needs_replacing[ReplacementOf(f)].contents
          ELSE overwrites[f]]
  /\ m_replaced' = m_replaced \cup {m_needs_replacing[i].v : i \in NeedsReplacing}
  /\ id_to_node' = EntriesMoved
  /\ m_needs_replacing' = <<>>
  /\ m_stack' = <<>>
  /\ frames' = <<>>
  /\ phase' = "idle"
  /\ UNCHANGED <<program, abort, started, predefines, pending, macros, once,
                 controlling, lexed, accounted, resultVars>>

\* tool.run returns and so does from_compilation_db.
Finish ==
  /\ phase = "idle"
  /\ abort = "none"
  /\ started = Len(program.sources)
  /\ phase' = "finished"
  /\ UNCHANGED <<program, abort, started, ppVars, m_stack, accounted,
                 id_to_node, m_needs_replacing, m_replaced, resultVars,
                 overwrites>>

Stopped == phase = "finished" \/ abort # "none"
Stutter == Stopped /\ UNCHANGED vars

Scan ==
  \/ LexTokens \/ SkipExcluded \/ PragmaOnce \/ PragmaDirective
  \/ IfOrIfndef \/ MacroDefined \/ MacroUndefined
  \/ MissingInclude \/ InclusionDirective \/ InclusionFromDone
  \/ NewIncludeFromDone \/ EnterFile \/ FileSkipped
  \/ ExitUnguarded \/ ExitGuardedFirst \/ CostAssignedTwice
  \/ ExitGuardedAgain \/ EndOfMainFile

Next ==
  \/ EnterSource \/ SourceSeenBefore
  \/ Scan
  \/ EndSourceFileAction \/ Finish
  \/ Stutter

Spec == Init /\ [][Next]_vars

=============================================================================
