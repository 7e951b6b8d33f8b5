----------------------------- MODULE Run_proofs -----------------------------
(***************************************************************************)
(* run() on every project.  The sources of a directory, in any order of    *)
(* its entries and with any errors of the file system; and what the        *)
(* analyses report that Report_proofs does not have: the unused            *)
(* components, the groups and levels of the topological order and the      *)
(* unnecessary sources; and the types of its state.  The walk needs a tree *)
(* of directories, the analyses need sources that include their headers.   *)
(***************************************************************************)
EXTENDS Report_proofs

-----------------------------------------------------------------------------
(***************************************************************************)
(* The directory walk.  Whatever is below the directory of the call and is *)
(* not lost with an error has been found, is an entry still to be looked   *)
(* at, or is below a directory that is one, or that is on the stack.       *)
(***************************************************************************)
LEMMA DirectoryBelowItself ==
  ASSUME NEW dir \in Dir
  PROVE  dir \in DirectoriesBelow(dir)
BY DEF DirectoriesBelow

LEMMA EntriesBelow ==
  ASSUME NEW dir \in Dir, NEW d \in DirectoriesBelow(dir),
         NEW e \in ToSet(project.tree[d]) \cap Dir
  PROVE  e \in DirectoriesBelow(dir)
<1>1. SUFFICES ASSUME NEW S \in SUBSET Dir, dir \in S,
                      \A x \in S : ToSet(project.tree[x]) \cap Dir \subseteq S
               PROVE  e \in S
  BY DEF DirectoriesBelow
<1>2. d \in S
  BY <1>1 DEF DirectoriesBelow
<1> QED BY <1>1, <1>2

LEMMA BelowAnEntry ==
  ASSUME NEW dir \in Dir, NEW e \in ToSet(project.tree[dir]) \cap Dir, NEW v, Below(v, e)
  PROVE  Below(v, dir)
<1>1. PICK d \in DirectoriesBelow(e) : v \in ToSet(project.tree[d])
  BY DEF Below
<1>2. DirectoriesBelow(dir) \in SUBSET Dir
  BY DEF DirectoriesBelow
<1>3. e \in DirectoriesBelow(dir)
  BY DirectoryBelowItself, EntriesBelow
<1>4. \A x \in DirectoriesBelow(dir) :
        ToSet(project.tree[x]) \cap Dir \subseteq DirectoriesBelow(dir)
  BY EntriesBelow
<1>5. d \in DirectoriesBelow(dir)
  BY <1>1, <1>2, <1>3, <1>4 DEF DirectoriesBelow
<1> QED BY <1>1, <1>5 DEF Below

LEMMA BelowIsEntry ==
  ASSUME NEW dir \in Dir, NEW v, Below(v, dir)
  PROVE  \/ v \in ToSet(project.tree[dir])
         \/ \E e \in ToSet(project.tree[dir]) \cap Dir : Below(v, e)
<1> DEFINE sub == ToSet(project.tree[dir]) \cap Dir
           S == {dir} \cup UNION {DirectoriesBelow(e) : e \in sub}
<1>1. S \in SUBSET Dir
  BY DEF DirectoriesBelow
<1>2. ASSUME NEW x \in S PROVE ToSet(project.tree[x]) \cap Dir \subseteq S
  <2>1. CASE x = dir
    BY <2>1, DirectoryBelowItself
  <2>2. ASSUME NEW e \in sub, x \in DirectoriesBelow(e)
        PROVE  ToSet(project.tree[x]) \cap Dir \subseteq S
    BY <2>2, EntriesBelow
  <2> QED BY <1>2, <2>1, <2>2
<1>3. PICK d \in DirectoriesBelow(dir) : v \in ToSet(project.tree[d])
  BY DEF Below
<1>4. d \in S
  <2>1. dir \in S
    OBVIOUS
  <2> HIDE DEF S
  <2> QED BY <1>1, <1>2, <1>3, <2>1 DEF DirectoriesBelow
<1> QED BY <1>3, <1>4 DEF Below

-----------------------------------------------------------------------------
Walked == project.from = "dir" /\ stage # "options" /\ exit_code # 1

WalkTyped ==
  /\ directories \in Seq(Dir) /\ dir_copy \in Dir
  /\ entries \in Seq(Dir \cup Vertex)
  /\ unlisted \in SUBSET Dir
  /\ m_sources \in Seq(Vertex)
  /\ exit_code \in {None, 0, 1}

(* The walk has not begun, and it is over once run() builds.               *)
WalkStages ==
  /\ stage = "options" =>
       directories = <<>> /\ entries = <<>> /\ m_sources = <<>>
  /\ exit_code # None => stage = "exited"
  /\ Walked /\ stage # "listing" => directories = <<>> /\ entries = <<>>
  /\ Walked /\ stage \notin {"listing", "build"} =>
       result.sources = m_sources /\ ToSet(m_sources) \cap project.fails = {}

EntriesListed == ToSet(entries) \subseteq ToSet(project.tree[dir_copy])

Sought(v) ==
  /\ v \in project.is_source /\ Below(v, Top)
  /\ \A dir \in unlisted : ~Below(v, dir)

Pending == ToSet(directories) \cup (ToSet(entries) \cap Dir)

NothingMissed ==
  Walked => \A v \in Vertex : Sought(v) =>
              \/ v \in ToSet(m_sources) \cup ToSet(entries)
              \/ \E d \in Pending : Below(v, d)

(* Everything found so far comes from a directory that was opened, and is  *)
(* not among the entries that are left: so nothing is found twice.         *)
FromOpened(opened) ==
  /\ ToSet(directories) \cap opened = {}
  /\ opened \subseteq Dir
  /\ entries # <<>> => dir_copy \in opened
  /\ \A x \in ToSet(directories) \cup opened \cup ToSet(m_sources) :
       /\ x = Top \/ \E d \in opened : x \in ToSet(project.tree[d])
       /\ x \notin ToSet(entries)

FoundOnce ==
  Walked =>
    /\ IsInjective(directories) /\ IsInjective(entries) /\ IsInjective(m_sources)
    /\ \E opened \in SUBSET Dir : FromOpened(opened)

WalkInv ==
  /\ WalkTyped /\ WalkStages /\ EntriesListed
  /\ NothingMissed
  /\ IsTree(project) => FoundOnce

(* What the steps of run() do to the walk.                                 *)
WalkSteps ==
  \/ RejectOptions \/ BuildFails
  \/ stage = "options" /\ stage' # "options" /\ project.from # "dir"
       /\ UNCHANGED <<directories, dir_copy, entries, unlisted, exit_code>>
       /\ m_sources' \in {m_sources, project.database, <<>>}
  \/ StartListing \/ OpenDirectory \/ NextEntry \/ Listed \/ Build
  \/ /\ stage \notin {"options", "listing", "build"}
     /\ stage' \notin {"options", "listing", "build"}
     /\ UNCHANGED <<listVars, resultVars>>
     /\ stage # "exited"
     /\ exit_code' = exit_code \/ (exit_code' = 0 /\ stage' = "exited")
  \/ UNCHANGED <<stage, listVars, resultVars, exit_code>>

LEMMA StepsOfWalk ==
  ASSUME [Next]_vars
  PROVE  WalkSteps /\ UNCHANGED project
<1>1. CASE RejectOptions \/ BuildFails
  BY <1>1 DEF WalkSteps, RejectOptions, BuildFails
<1>2. CASE Load
  BY <1>2 DEF Load, AcceptOptions, WalkSteps
<1>3. CASE ReadDatabase
  BY <1>3 DEF ReadDatabase, AcceptOptions, WalkSteps
<1>4. CASE StartListing \/ OpenDirectory \/ NextEntry \/ Listed \/ Build
  BY <1>4 DEF StartListing, AcceptOptions, OpenDirectory, NextEntry, Listed, Build,
              WalkSteps
<1>5. CASE Analyze \/ SkipAnalysis
  BY <1>5 DEF Analyze, SkipAnalysis, AfterAnalysis, Exit, WalkSteps
<1>6. CASE UnreferencedComponents
  BY <1>6 DEF UnreferencedComponents, WalkSteps
<1>7. CASE IncludeDirectives
  BY <1>7 DEF IncludeDirectives, WalkSteps
<1>8. CASE PchAdditions
  BY <1>8 DEF PchAdditions, WalkSteps
<1>9. CASE InlineSources
  BY <1>9 DEF InlineSources, AfterAnalysis, Exit, WalkSteps
<1>10. CASE TopologicalOrder
  BY <1>10 DEF TopologicalOrder, Exit, WalkSteps
<1>11. CASE Exited \/ UNCHANGED vars
  BY <1>11 DEF Exited, vars, WalkSteps
<1> QED BY <1>1, <1>2, <1>3, <1>4, <1>5, <1>6, <1>7, <1>8, <1>9, <1>10, <1>11
        DEF Next

-----------------------------------------------------------------------------
LEMMA AppendInSeq ==
  ASSUME NEW S, NEW q \in Seq(S), NEW x \in S
  PROVE  Append(q, x) \in Seq(S) /\ ToSet(Append(q, x)) = ToSet(q) \cup {x}
<1> DEFINE r == Append(q, x)
<1>1. /\ r \in Seq(S) /\ Len(q) \in Nat /\ DOMAIN q = 1..Len(q)
      /\ DOMAIN r = 1..(Len(q) + 1)
      /\ \A j \in 1..Len(q) : r[j] = q[j] /\ q[j] \in ToSet(q)
      /\ r[Len(q) + 1] = x
  BY DEF ToSet
<1> HIDE DEF r
<1>2. \A j \in DOMAIN r : j \in 1..Len(q) \/ j = Len(q) + 1
  BY <1>1
<1>3. ToSet(r) \subseteq ToSet(q) \cup {x}
  BY <1>1, <1>2 DEF ToSet
<1>4. ToSet(q) \cup {x} \subseteq ToSet(r)
  <2>1. Len(q) + 1 \in DOMAIN r /\ \A j \in 1..Len(q) : j \in DOMAIN r
    BY <1>1
  <2> QED BY <1>1, <2>1 DEF ToSet
<1> QED BY <1>1, <1>3, <1>4 DEF r

LEMMA PushInjective ==
  ASSUME NEW S, NEW q \in Seq(S), IsInjective(q), NEW x \in S, x \notin ToSet(q)
  PROVE  IsInjective(Append(q, x)) /\ ToSet(Append(q, x)) = ToSet(q) \cup {x}
<1> DEFINE r == Append(q, x)
<1>1. /\ Len(q) \in Nat /\ DOMAIN q = 1..Len(q)
      /\ DOMAIN r = 1..(Len(q) + 1)
      /\ \A j \in 1..Len(q) : r[j] = q[j] /\ q[j] \in ToSet(q)
      /\ r[Len(q) + 1] = x
  BY DEF ToSet
<1> HIDE DEF r
<1>2. \A j \in DOMAIN r : j \in 1..Len(q) \/ j = Len(q) + 1
  BY <1>1
<1>3. IsInjective(r)
  BY <1>1, <1>2 DEF IsInjective
<1> QED BY <1>3, AppendInSeq DEF r

LEMMA FrontInjective ==
  ASSUME NEW S, NEW q \in Seq(S), IsInjective(q), q # <<>>
  PROVE  /\ IsInjective(Front(q)) /\ Last(q) \notin ToSet(Front(q))
         /\ ToSet(Front(q)) = ToSet(q) \ {Last(q)}
<1>1. /\ Len(q) \in Nat /\ Len(q) > 0 /\ DOMAIN q = 1..Len(q)
      /\ DOMAIN Front(q) = 1..(Len(q) - 1)
      /\ \A j \in 1..(Len(q) - 1) : Front(q)[j] = q[j]
      /\ Last(q) = q[Len(q)]
  BY DEF Front, Last
<1>2. \A j \in 1..(Len(q) - 1) : j \in 1..Len(q) /\ j # Len(q)
  <2>1. Len(q) \in Nat
    OBVIOUS
  <2> QED BY <2>1
<1>3. Len(q) \in 1..Len(q)
  BY <1>1
<1>4. IsInjective(Front(q)) /\ Last(q) \notin ToSet(Front(q))
  BY <1>1, <1>2, <1>3 DEF IsInjective, ToSet
<1> QED BY <1>4, LastInSeq

LEMMA TailInjective ==
  ASSUME NEW S, NEW q \in Seq(S), IsInjective(q), q # <<>>
  PROVE  /\ IsInjective(Tail(q)) /\ Head(q) \notin ToSet(Tail(q))
         /\ ToSet(Tail(q)) = ToSet(q) \ {Head(q)}
<1>1. /\ Len(q) \in Nat /\ Len(q) > 0 /\ DOMAIN q = 1..Len(q)
      /\ DOMAIN Tail(q) = 1..(Len(q) - 1)
      /\ \A j \in 1..(Len(q) - 1) : Tail(q)[j] = q[j + 1]
      /\ Head(q) = q[1]
  OBVIOUS
<1>2. \A j \in 1..(Len(q) - 1) : j + 1 \in 1..Len(q) /\ j + 1 # 1
  BY <1>1
<1>3. 1 \in 1..Len(q)
  BY <1>1
<1>4. IsInjective(Tail(q))
  <2> SUFFICES ASSUME NEW j \in 1..(Len(q) - 1), NEW k \in 1..(Len(q) - 1),
                      Tail(q)[j] = Tail(q)[k]
               PROVE  j = k
    BY <1>1 DEF IsInjective
  <2>1. q[j + 1] = q[k + 1]
    BY <1>1
  <2>2. j + 1 = k + 1
    BY <1>1, <1>2, <2>1 DEF IsInjective
  <2> QED BY <2>2
<1>5. Head(q) \notin ToSet(Tail(q))
  <2> SUFFICES ASSUME NEW j \in 1..(Len(q) - 1), Tail(q)[j] = Head(q) PROVE FALSE
    BY <1>1 DEF ToSet
  <2> QED BY <1>1, <1>2, <1>3 DEF IsInjective
<1> QED BY <1>4, <1>5, HeadInSeq

LEMMA TreeParts ==
  ASSUME project \in Project
  PROVE  /\ \A d \in Dir : project.tree[d] \in Seq(Dir \cup Vertex)
         /\ project.is_source \in SUBSET Vertex
         /\ project.database \in Seq(Vertex)
BY DEF Project

LEMMA BelowSame ==
  ASSUME UNCHANGED project
  PROVE  \A v, d : Below(v, d)' <=> Below(v, d)
BY DEF Below, DirectoriesBelow

LEMMA WalkInit ==
  ASSUME Init
  PROVE  WalkInv
<1>1. WalkTyped
  BY DirAssumption DEF Init, WalkTyped
<1>2. WalkStages /\ NothingMissed /\ FoundOnce
  BY DEF Init, WalkStages, NothingMissed, FoundOnce, Walked
<1>3. EntriesListed
  BY DEF Init, EntriesListed, ToSet
<1> QED BY <1>1, <1>2, <1>3 DEF WalkInv

(* A step that changes nothing of the walk.                                *)
LEMMA WalkKept ==
  ASSUME WalkInv, UNCHANGED <<project, directories, dir_copy, entries, unlisted, m_sources>>,
         Walked' => Walked, WalkStages', exit_code' \in {None, 0, 1}
  PROVE  WalkInv'
<1>1. WalkTyped' /\ EntriesListed'
  BY DEF WalkInv, WalkTyped, EntriesListed
<1>2. NothingMissed'
  BY BelowSame DEF WalkInv, NothingMissed, Sought, Pending
<1>3. IsTree(project)' => FoundOnce'
  <2>1. \A opened : FromOpened(opened) => FromOpened(opened)'
    BY DEF FromOpened
  <2> QED BY <2>1 DEF WalkInv, FoundOnce, IsTree
<1> QED BY <1>1, <1>2, <1>3 DEF WalkInv

LEMMA WalkStarts ==
  ASSUME WalkInv, project \in Project, UNCHANGED project, StartListing
  PROVE  WalkInv'
<1>1. /\ directories' = <<Top>> /\ entries' = <<>> /\ m_sources' = <<>>
      /\ stage' = "listing"
      /\ UNCHANGED <<dir_copy, unlisted, exit_code>>
  BY DEF StartListing, AcceptOptions, WalkInv, WalkStages
<1>2. ToSet(<<Top>>) = {Top} /\ ToSet(<<>>) = {}
  BY SingletonQueue
<1>3. WalkTyped'
  BY <1>1, DirAssumption DEF WalkInv, WalkTyped
<1>4. WalkStages' /\ EntriesListed'
  <2>1. exit_code = None
    BY DEF WalkInv, WalkStages, StartListing, AcceptOptions
  <2> QED BY <1>1, <1>2, <2>1 DEF WalkStages, EntriesListed
<1>5. NothingMissed'
  BY <1>1, <1>2 DEF NothingMissed, Sought, Pending
<1>6. FoundOnce'
  <2>1. IsInjective(<<Top>>) /\ IsInjective(<<>>)
    BY DEF IsInjective
  <2>2. FromOpened({})'
    BY <1>1, <1>2 DEF FromOpened
  <2> QED BY <1>1, <2>1, <2>2 DEF FoundOnce
<1> QED BY <1>3, <1>4, <1>5, <1>6 DEF WalkInv

LEMMA WalkOpens ==
  ASSUME WalkInv, project \in Project, UNCHANGED project, OpenDirectory
  PROVE  WalkInv'
<1> DEFINE dir == Last(directories)
           listed == project.tree[dir]
<1>1. /\ stage = "listing" /\ stage' = "listing" /\ entries = <<>>
      /\ directories # <<>> /\ directories' = Front(directories) /\ dir_copy' = dir
      /\ UNCHANGED <<m_sources, exit_code>>
      /\ \/ entries' = <<>> /\ unlisted' = unlisted \cup {dir}
         \/ entries' = listed /\ unlisted' = unlisted
  BY DEF OpenDirectory, GoesOn
<1>2. /\ directories \in Seq(Dir) /\ dir \in Dir /\ Front(directories) \in Seq(Dir)
      /\ ToSet(directories) = {dir} \cup ToSet(Front(directories))
  BY <1>1, LastInSeq DEF WalkInv, WalkTyped
<1>3. listed \in Seq(Dir \cup Vertex) /\ ToSet(<<>>) = {}
  BY <1>2, TreeParts, SingletonQueue
<1>4. WalkTyped'
  BY <1>1, <1>2, <1>3 DEF WalkInv, WalkTyped
<1>5. WalkStages' /\ EntriesListed'
  BY <1>1, <1>3 DEF WalkInv, WalkStages, EntriesListed
<1> HIDE DEF dir, listed
<1>6. NothingMissed'
  <2> SUFFICES ASSUME Walked', NEW v \in Vertex, Sought(v)'
               PROVE  \/ v \in ToSet(m_sources)' \cup ToSet(entries)'
                      \/ \E d \in Pending' : Below(v, d)'
    BY DEF NothingMissed
  <2>1. unlisted \subseteq unlisted'
    BY <1>1
  <2>2. Sought(v)
    BY <2>1, BelowSame DEF Sought
  <2>3. Walked
    BY <1>1 DEF Walked
  <2>4. v \in ToSet(m_sources) \/ \E d \in ToSet(directories) : Below(v, d)
    BY <1>1, <1>3, <2>2, <2>3 DEF WalkInv, NothingMissed, Pending
  <2>5. CASE v \in ToSet(m_sources)
    BY <1>1, <2>5
  <2>6. ASSUME NEW d \in ToSet(Front(directories)), Below(v, d)
        PROVE  \E e \in Pending' : Below(v, e)'
    BY <1>1, <2>6, BelowSame DEF Pending
  <2>7. CASE Below(v, dir)
    <3>1. entries' = listed
      BY <1>1, <2>7, BelowSame DEF Sought
    <3>2. v \in ToSet(listed) \/ \E e \in ToSet(listed) \cap Dir : Below(v, e)
      BY <1>2, <2>7, BelowIsEntry DEF listed
    <3> QED BY <3>1, <3>2, BelowSame DEF Pending
  <2> QED BY <1>2, <2>4, <2>5, <2>6, <2>7
<1>7. IsTree(project)' => FoundOnce'
  <2> SUFFICES ASSUME IsTree(project), Walked' PROVE FoundOnce'
    BY DEF IsTree, FoundOnce
  <2>1. Walked /\ FoundOnce
    BY <1>1 DEF Walked, WalkInv
  <2>2. PICK opened \in SUBSET Dir : FromOpened(opened)
    BY <2>1 DEF FoundOnce
  <2>3. /\ IsInjective(Front(directories)) /\ dir \notin ToSet(Front(directories))
    BY <1>1, <1>2, <2>1, FrontInjective DEF FoundOnce, dir
  <2>4. dir \notin opened
    BY <1>2, <2>2 DEF FromOpened
  <2>5. IsInjective(listed) /\ IsInjective(<<>>)
    BY <1>2 DEF IsTree, IsInjective, listed
  <2>6. PICK now \in SUBSET Dir : now = opened \cup {dir}
    BY <1>2
  <2>7. FromOpened(now)'
    <3> DEFINE known == ToSet(directories) \cup opened \cup ToSet(m_sources)
    <3>1. ToSet(entries)' \subseteq ToSet(listed)
      BY <1>1, <1>3
    <3>2. \A x \in known : x = Top \/ \E d \in opened : x \in ToSet(project.tree[d])
      BY <2>2 DEF FromOpened
    <3>3. \A x \in known : x \notin ToSet(listed)
      <4> SUFFICES ASSUME NEW x \in known, x \in ToSet(listed) PROVE FALSE
        OBVIOUS
      <4>1. x # Top
        BY <1>2 DEF IsTree, listed
      <4>2. PICK d \in opened : x \in ToSet(project.tree[d])
        BY <3>2, <4>1
      <4>3. d \in Dir
        BY <2>2
      <4>4. PICK j \in DOMAIN project.tree[d] : project.tree[d][j] = x
        BY <4>2 DEF ToSet
      <4>5. PICK k \in DOMAIN project.tree[dir] : project.tree[dir][k] = x
        BY DEF ToSet, listed
      <4>6. d = dir
        BY <1>2, <4>3, <4>4, <4>5 DEF IsTree
      <4> QED BY <2>4, <4>6
    <3>4. ToSet(directories)' \cup now \cup ToSet(m_sources)' \subseteq known
      BY <1>1, <1>2, <2>6
    <3>5. ToSet(directories)' \cap now = {}
      BY <1>1, <1>2, <2>2, <2>3, <2>6 DEF FromOpened
    <3> HIDE DEF known
    <3>6. \A x \in known :
            /\ x = Top \/ \E d \in now : x \in ToSet(project.tree[d])
            /\ x \notin ToSet(entries)'
      BY <2>6, <3>1, <3>2, <3>3
    <3>7. dir_copy' \in now
      BY <1>1, <2>6
    <3> QED BY <2>6, <3>4, <3>5, <3>6, <3>7 DEF FromOpened
  <2>8. IsInjective(directories)' /\ IsInjective(entries)' /\ IsInjective(m_sources)'
    BY <1>1, <2>1, <2>3, <2>5 DEF FoundOnce
  <2> QED BY <2>7, <2>8 DEF FoundOnce
<1> QED BY <1>4, <1>5, <1>6, <1>7 DEF WalkInv

LEMMA WalkNext ==
  ASSUME WalkInv, project \in Project, UNCHANGED project, NextEntry
  PROVE  WalkInv'
<1> DEFINE entry == Head(entries)
           rest == Tail(entries)
<1>1. /\ stage = "listing" /\ stage' = "listing" /\ entries # <<>>
      /\ directories' = IF entry \in Dir THEN Append(directories, entry) ELSE directories
      /\ m_sources' = IF entry \in project.is_source THEN Append(m_sources, entry)
                      ELSE m_sources
      /\ UNCHANGED <<dir_copy, exit_code>>
      /\ \/ entries' = <<>> /\ unlisted' = unlisted \cup {dir_copy}
         \/ entries' = rest /\ unlisted' = unlisted
  BY DEF NextEntry, GoesOn, Pushed
<1>2. /\ entry \in Dir \cup Vertex /\ rest \in Seq(Dir \cup Vertex)
      /\ ToSet(entries) = {entry} \cup ToSet(rest)
  BY <1>1, HeadInSeq DEF WalkInv, WalkTyped
<1>3. /\ project.is_source \in SUBSET Vertex /\ ToSet(<<>>) = {} /\ dir_copy \in Dir
      /\ directories \in Seq(Dir) /\ m_sources \in Seq(Vertex)
  BY TreeParts, SingletonQueue DEF WalkInv, WalkTyped
<1> HIDE DEF entry, rest
<1>4. WalkTyped'
  <2>1. directories' \in Seq(Dir) /\ m_sources' \in Seq(Vertex)
    BY <1>1, <1>3
  <2>2. <<>> \in Seq(Dir \cup Vertex)
    OBVIOUS
  <2>3. entries' \in Seq(Dir \cup Vertex)
    BY <1>1, <1>2, <2>2
  <2> QED BY <1>1, <1>3, <2>1, <2>3 DEF WalkInv, WalkTyped
<1>5. WalkStages' /\ EntriesListed'
  BY <1>1, <1>2, <1>3 DEF WalkStages, WalkInv, EntriesListed
<1>6. /\ ToSet(directories) \subseteq ToSet(directories)'
      /\ ToSet(m_sources) \subseteq ToSet(m_sources)'
      /\ entry \in Dir => entry \in ToSet(directories)'
      /\ entry \in project.is_source => entry \in ToSet(m_sources)'
  <2>1. entry \in Dir => ToSet(Append(directories, entry)) = ToSet(directories) \cup {entry}
    BY <1>3, AppendInSeq
  <2>2. entry \in Vertex => ToSet(Append(m_sources, entry)) = ToSet(m_sources) \cup {entry}
    BY <1>3, AppendInSeq
  <2> QED BY <1>1, <1>3, <2>1, <2>2
<1>7. NothingMissed'
  <2> SUFFICES ASSUME Walked', NEW v \in Vertex, Sought(v)'
               PROVE  \/ v \in ToSet(m_sources)' \cup ToSet(entries)'
                      \/ \E d \in Pending' : Below(v, d)'
    BY DEF NothingMissed
  <2>1. unlisted \subseteq unlisted'
    BY <1>1
  <2>2. Sought(v) /\ Walked
    BY <1>1, <2>1, BelowSame DEF Sought, Walked
  <2>3. CASE v \in ToSet(m_sources)
    BY <1>6, <2>3
  <2>4. CASE v = entry
    BY <1>6, <2>2, <2>4 DEF Sought
  <2>5. CASE v \in ToSet(rest) /\ entries' = rest
    BY <2>5
  <2>6. ASSUME v \in ToSet(rest) PROVE entries' = rest
    <3>1. v \in ToSet(project.tree[dir_copy])
      BY <1>2, <2>6 DEF WalkInv, EntriesListed
    <3>2. Below(v, dir_copy)
      BY <1>3, <3>1, DirectoryBelowItself DEF Below
    <3> QED BY <1>1, <3>2, BelowSame DEF Sought
  <2>7. ASSUME NEW d \in ToSet(rest) \cap Dir, Below(v, d) PROVE entries' = rest
    <3>1. d \in ToSet(project.tree[dir_copy]) \cap Dir
      BY <1>2 DEF WalkInv, EntriesListed
    <3>2. Below(v, dir_copy)
      BY <1>3, <2>7, <3>1, BelowAnEntry
    <3> QED BY <1>1, <3>2, BelowSame DEF Sought
  <2>8. ASSUME NEW d \in Pending, Below(v, d)
        PROVE  \E e \in Pending' : Below(v, e)'
    <3>1. Below(v, d)'
      BY <2>8, BelowSame
    <3>2. d \in Pending'
      BY <1>2, <1>6, <2>7, <2>8 DEF Pending
    <3> QED BY <3>1, <3>2
  <2>9. v \in ToSet(m_sources) \cup ToSet(entries) \/ \E d \in Pending : Below(v, d)
    BY <2>2 DEF WalkInv, NothingMissed
  <2> QED BY <1>2, <2>3, <2>4, <2>5, <2>6, <2>8, <2>9
<1>8. IsTree(project)' => FoundOnce'
  <2> SUFFICES ASSUME IsTree(project), Walked' PROVE FoundOnce'
    BY DEF IsTree, FoundOnce
  <2>1. Walked /\ FoundOnce
    BY <1>1 DEF Walked, WalkInv
  <2>2. PICK opened \in SUBSET Dir : FromOpened(opened)
    BY <2>1 DEF FoundOnce
  <2>3. entry \notin ToSet(directories) \cup opened \cup ToSet(m_sources)
    BY <1>2, <2>2 DEF FromOpened
  <2>4. /\ IsInjective(rest) /\ entry \notin ToSet(rest) /\ IsInjective(<<>>)
        /\ ToSet(rest) = ToSet(entries) \ {entry}
    <3>1. entries \in Seq(Dir \cup Vertex)
      BY DEF WalkInv, WalkTyped
    <3> QED BY <1>1, <2>1, <3>1, TailInjective DEF FoundOnce, entry, rest, IsInjective
  <2>5. /\ IsInjective(directories)'
        /\ ToSet(directories)' = ToSet(directories) \cup ({entry} \cap Dir)
    BY <1>1, <1>3, <2>1, <2>3, PushInjective DEF FoundOnce
  <2>6. /\ IsInjective(m_sources)'
        /\ ToSet(m_sources)' = ToSet(m_sources) \cup ({entry} \cap project.is_source)
    <3>1. CASE entry \in project.is_source
      BY <1>1, <1>3, <2>1, <2>3, <3>1, PushInjective DEF FoundOnce
    <3>2. CASE entry \notin project.is_source
      BY <1>1, <2>1, <3>2 DEF FoundOnce
    <3> QED BY <3>1, <3>2
  <2>7. dir_copy \in opened /\ entry \in ToSet(project.tree[dir_copy])
    BY <1>1, <1>2, <2>2 DEF FromOpened, WalkInv, EntriesListed
  <2>8. ToSet(entries)' \subseteq ToSet(entries) \ {entry}
    BY <1>1, <1>3, <2>4
  <2>9. FromOpened(opened)'
    <3> DEFINE known == ToSet(directories) \cup opened \cup ToSet(m_sources)
    <3>1. \A x \in known \cup {entry} :
            /\ x = Top \/ \E d \in opened : x \in ToSet(project.tree[d])
            /\ x \notin ToSet(entries)'
      BY <2>2, <2>7, <2>8 DEF FromOpened
    <3>2. ToSet(directories)' \cup opened \cup ToSet(m_sources)' \subseteq known \cup {entry}
      BY <2>5, <2>6
    <3>3. ToSet(directories)' \cap opened = {}
      BY <2>2, <2>3, <2>5 DEF FromOpened
    <3> QED BY <1>1, <2>2, <2>7, <3>1, <3>2, <3>3 DEF FromOpened
  <2> QED BY <1>1, <2>4, <2>5, <2>6, <2>9 DEF FoundOnce
<1> QED BY <1>4, <1>5, <1>7, <1>8 DEF WalkInv

LEMMA WalkStep ==
  ASSUME WalkInv, CalledRight, [Next]_vars
  PROVE  WalkInv'
<1>1. project \in Project /\ UNCHANGED project
  BY StepsOfWalk DEF CalledRight
<1>2. CASE RejectOptions \/ BuildFails
  <2>1. /\ ~Walked' /\ stage' = "exited" /\ exit_code' = 1 /\ UNCHANGED listVars
    BY <1>2 DEF RejectOptions, BuildFails, Exit, Walked
  <2>2. WalkStages'
    BY <2>1 DEF WalkStages
  <2> QED BY <1>1, <2>1, <2>2, WalkKept DEF listVars
<1>3. CASE /\ stage = "options" /\ stage' # "options" /\ project.from # "dir"
           /\ UNCHANGED <<directories, dir_copy, entries, unlisted, exit_code>>
           /\ m_sources' \in {m_sources, project.database, <<>>}
  <2>1. ~Walked'
    BY <1>1, <1>3 DEF Walked
  <2>2. WalkTyped'
    <3>1. project.database \in Seq(Vertex) /\ <<>> \in Seq(Vertex)
      BY <1>1, TreeParts
    <3> QED BY <1>1, <1>3, <3>1 DEF WalkInv, WalkTyped
  <2>3. WalkStages' /\ NothingMissed' /\ FoundOnce'
    BY <1>3, <2>1 DEF WalkInv, WalkStages, NothingMissed, FoundOnce
  <2>4. EntriesListed'
    BY <1>1, <1>3 DEF WalkInv, EntriesListed
  <2> QED BY <2>2, <2>3, <2>4 DEF WalkInv
<1>4. CASE StartListing
  BY <1>1, <1>4, WalkStarts
<1>5. CASE OpenDirectory
  BY <1>1, <1>5, WalkOpens
<1>6. CASE NextEntry
  BY <1>1, <1>6, WalkNext
<1>7. CASE Listed
  <2>1. WalkStages' /\ (Walked' => Walked) /\ UNCHANGED <<listVars, exit_code>>
    BY <1>1, <1>7 DEF Listed, WalkInv, WalkStages, Walked, listVars
  <2> QED BY <1>1, <2>1, WalkKept DEF listVars, WalkInv, WalkTyped
<1>8. CASE Build
  <2>1. result'.sources = m_sources
    BY <1>8 DEF Build, Result, ResultOf
  <2>2. /\ stage = "build" /\ stage' = "built" /\ UNCHANGED <<listVars, exit_code>>
        /\ ToSet(m_sources) \cap project.fails = {}
    BY <1>8 DEF Build
  <2>3. WalkStages' /\ (Walked' => Walked)
    BY <1>1, <2>1, <2>2 DEF WalkStages, Walked, WalkInv, listVars
  <2> QED BY <1>1, <2>2, <2>3, WalkKept DEF listVars, WalkInv, WalkTyped
<1>9. CASE /\ stage \notin {"options", "listing", "build"}
           /\ stage' \notin {"options", "listing", "build"}
           /\ UNCHANGED <<listVars, resultVars>>
           /\ stage # "exited"
           /\ exit_code' = exit_code \/ (exit_code' = 0 /\ stage' = "exited")
  <2>1. WalkStages'
    <3>1. Walked' => Walked
      BY <1>1, <1>9, NoneAssumption DEF Walked, WalkInv, WalkStages
    <3> QED BY <1>1, <1>9, <3>1 DEF Walked, WalkStages, WalkInv, listVars, resultVars
  <2>2. (Walked' => Walked) /\ exit_code' \in {None, 0, 1}
    BY <1>1, <1>9, NoneAssumption DEF Walked, WalkInv, WalkStages, WalkTyped
  <2> QED BY <1>1, <1>9, <2>1, <2>2, WalkKept DEF listVars
<1>10. CASE UNCHANGED <<stage, listVars, resultVars, exit_code>>
  <2>1. WalkStages' /\ (Walked' => Walked)
    BY <1>1, <1>10 DEF WalkStages, Walked, WalkInv, listVars, resultVars
  <2> QED BY <1>1, <1>10, <2>1, WalkKept DEF listVars, WalkInv, WalkTyped
<1> QED BY <1>2, <1>3, <1>4, <1>5, <1>6, <1>7, <1>8, <1>9, <1>10, StepsOfWalk DEF WalkSteps

LEMMA WalkAlways == Spec => []WalkInv
<1>1. Init => WalkInv
  BY WalkInit
<1>2. WalkInv /\ CalledRight /\ [Next]_vars => WalkInv'
  BY WalkStep
<1> QED BY <1>1, <1>2, CalledRightAlways, PTL DEF Spec

LEMMA TreeKept == Spec /\ IsTree(project) => []IsTree(project)
<1>1. IsTree(project) /\ [Next]_vars => IsTree(project)'
  BY Steps DEF IsTree
<1> QED BY <1>1, PTL DEF Spec

(* A report on a directory is on every source below it, once.              *)
THEOREM SourcesAnalysed == Spec /\ IsTree(project) => []EverySourceAnalysed
<1>1. WalkInv /\ IsTree(project) /\ CalledRight => EverySourceAnalysed
  <2> SUFFICES ASSUME WalkInv, IsTree(project), CalledRight,
                      exit_code = 0, project.from = "dir"
               PROVE  /\ IsInjective(result.sources)
                      /\ \A v \in project.is_source :
                           Below(v, Top) /\ (\A dir \in unlisted : ~Below(v, dir))
                             => v \in ToSet(result.sources) \ project.fails
    BY DEF EverySourceAnalysed
  <2>1. Walked /\ stage \notin {"options", "listing", "build"}
    BY NoneAssumption DEF Walked, WalkInv, WalkStages
  <2>2. /\ directories = <<>> /\ entries = <<>> /\ result.sources = m_sources
        /\ ToSet(m_sources) \cap project.fails = {}
    BY <2>1 DEF WalkInv, WalkStages
  <2>3. ToSet(<<>>) = {}
    BY SingletonQueue
  <2>4. project.is_source \subseteq Vertex
    BY TreeParts DEF CalledRight
  <2> QED BY <2>1, <2>2, <2>3, <2>4 DEF WalkInv, NothingMissed, FoundOnce, Sought, Pending
<1> QED BY <1>1, WalkAlways, TreeKept, CalledRightAlways, PTL

-----------------------------------------------------------------------------
(***************************************************************************)
(* The other analyses are called with a result of the build, and have done *)
(* nothing before.                                                         *)
(***************************************************************************)
BeforeUnused == NotBuilt \cup {"built"}
BeforeSources == BeforePch \cup {"pch additions"}
BeforeOrder == BeforeSources \cup {"inline sources"}

LEMMA OtherSteps ==
  ASSUME [Next]_vars
  PROVE  \/ Builds
         \/ /\ UNCHANGED <<resultVars, unusedVars, sourcesVars, orderVars>>
            /\ stage' \in BeforeUnused => stage \in BeforeUnused
            /\ stage' \in BeforeSources => stage \in BeforeSources
            /\ stage' \in BeforeOrder => stage \in BeforeOrder
         \/ /\ stage = "unreferenced components"
            /\ stage' \in {"unreferenced components", "include directives"}
            /\ UNCHANGED <<resultVars, sourcesVars, orderVars>>
            /\ Unused!Call \/ Unused!Next \/ UNCHANGED unusedVars
         \/ /\ stage = "inline sources" /\ stage' \notin BeforeSources
            /\ UNCHANGED <<resultVars, unusedVars, orderVars>>
            /\ Sources!Call \/ Sources!Next \/ UNCHANGED sourcesVars
         \/ /\ stage = "topological order" /\ stage' \notin BeforeOrder
            /\ UNCHANGED <<resultVars, unusedVars, sourcesVars>>
            /\ Order!Call \/ Order!Next \/ UNCHANGED orderVars
<1> USE DEF BeforeOrder, BeforeSources, BeforePch, BeforeIncludes, BeforeUnused, NotBuilt
<1>1. CASE RejectOptions
  BY <1>1 DEF RejectOptions, Exit, analyses
<1>2. CASE Load
  BY <1>2 DEF Load, AcceptOptions, Builds
<1>3. CASE ReadDatabase
  BY <1>3 DEF ReadDatabase, AcceptOptions, analyses
<1>4. CASE StartListing
  BY <1>4 DEF StartListing, AcceptOptions, analyses
<1>5. CASE OpenDirectory \/ NextEntry \/ Listed
  BY <1>5 DEF OpenDirectory, NextEntry, Listed, analyses
<1>6. CASE BuildFails
  BY <1>6 DEF BuildFails, Exit, analyses
<1>7. CASE Build
  BY <1>7 DEF Build, Builds
<1>8. CASE Analyze \/ SkipAnalysis
  BY <1>8 DEF Analyze, SkipAnalysis, AfterAnalysis, Exit, analyses
<1>9. CASE UnreferencedComponents
  BY <1>9 DEF UnreferencedComponents
<1>10. CASE IncludeDirectives
  BY <1>10 DEF IncludeDirectives
<1>11. CASE PchAdditions
  BY <1>11 DEF PchAdditions
<1>12. CASE InlineSources
  BY <1>12 DEF InlineSources, AfterAnalysis, Exit, analyses
<1>13. CASE TopologicalOrder
  BY <1>13 DEF TopologicalOrder, Exit
<1>14. CASE Exited \/ UNCHANGED vars
  BY <1>14 DEF Exited, vars, analyses
<1> QED BY <1>1, <1>2, <1>3, <1>4, <1>5, <1>6, <1>7, <1>8, <1>9, <1>10, <1>11,
           <1>12, <1>13, <1>14 DEF Next

(* What they are called with.                                              *)
OthersCalledRight ==
  /\ \A v \in Vertex : \A h, k \in project.component[v] : h = k
  /\ ToSet(m_sources) \cup ToSet(result.sources) \subseteq SourcesOf(project)
  /\ result = ResultOf(result.sources)
  /\ stage \in BeforeUnused => Unused!Init
  /\ stage \in BeforeSources => Sources!Init
  /\ stage \in BeforeOrder => Order!Init

LEMMA ResultSources == \A found : ResultOf(found).sources = found
BY DEF ResultOf

LEMMA OthersInit ==
  ASSUME Init
  PROVE  OthersCalledRight
<1>1. ToSet(<<>>) = {}
  BY SingletonQueue
<1>2. result.sources = <<>> /\ m_sources = <<>> /\ result = ResultOf(<<>>)
  BY ResultSources DEF Init
<1> QED BY <1>1, <1>2, ComponentAssumption DEF Init, OthersCalledRight

LEMMA OthersStep ==
  ASSUME CalledRight, OthersCalledRight, WalkInv, [Next]_vars
  PROVE  OthersCalledRight'
<1>1. UNCHANGED project
  BY Steps
<1>2. ToSet(m_sources)' \subseteq SourcesOf(project)
  <2>1. CASE ReadDatabase
    <3>1. ToSet(<<>>) = {}
      BY SingletonQueue
    <3> QED BY <2>1, <3>1 DEF ReadDatabase, SourcesOf
  <2>2. CASE NextEntry
    <3>1. entries \in Seq(Dir \cup Vertex) /\ m_sources \in Seq(Vertex)
      BY DEF WalkInv, WalkTyped
    <3>2. project.is_source \in SUBSET Vertex
      BY TreeParts DEF CalledRight
    <3>3. Head(entries) \in project.is_source =>
            ToSet(Append(m_sources, Head(entries))) = ToSet(m_sources) \cup {Head(entries)}
      BY <3>1, <3>2, AppendInSeq
    <3> QED BY <2>2, <3>3 DEF NextEntry, OthersCalledRight, SourcesOf
  <2>3. CASE UNCHANGED m_sources
    BY <2>3 DEF OthersCalledRight
  <2>4. ReadDatabase \/ NextEntry \/ UNCHANGED m_sources
    BY DEF Next, RejectOptions, Load, StartListing, OpenDirectory, Listed,
           BuildFails, Build, Analyze, SkipAnalysis, AfterAnalysis,
           UnreferencedComponents, IncludeDirectives, PchAdditions,
           InlineSources, TopologicalOrder, Exited, vars, listVars
  <2> QED BY <2>1, <2>2, <2>3, <2>4
<1>3. /\ result' = ResultOf(result.sources)'
      /\ ToSet(result.sources)' \subseteq SourcesOf(project)
  <2>1. CASE Builds
    <3>1. PICK found \in {project.database, m_sources} : Result(found)
      BY <2>1 DEF Builds
    <3>2. result' = ResultOf(found) /\ result'.sources = found
      BY <3>1, ResultSources DEF Result
    <3>3. result' = ResultOf(result.sources)'
      BY <1>1, <3>2 DEF ResultOf
    <3> QED BY <3>1, <3>2, <3>3 DEF OthersCalledRight, SourcesOf
  <2>2. CASE UNCHANGED resultVars
    BY <1>1, <2>2 DEF resultVars, OthersCalledRight, ResultOf
  <2> QED BY <2>1, <2>2, OtherSteps
<1> USE DEF BeforeOrder, BeforeSources, BeforePch, BeforeIncludes, BeforeUnused, NotBuilt
<1>4. stage' \in BeforeUnused => Unused!Init'
  <2>1. stage' \in BeforeUnused => stage \in BeforeUnused /\ UNCHANGED unusedVars
    BY OtherSteps DEF Builds, analyses
  <2> QED BY <2>1 DEF unusedVars, Unused!Init, OthersCalledRight
<1>5. stage' \in BeforeSources => Sources!Init'
  <2>1. stage' \in BeforeSources => stage \in BeforeSources /\ UNCHANGED sourcesVars
    BY OtherSteps DEF Builds, analyses
  <2> QED BY <2>1 DEF sourcesVars, Sources!Init, Sources!NotMarked, OthersCalledRight
<1>6. stage' \in BeforeOrder => Order!Init'
  <2>1. stage' \in BeforeOrder => stage \in BeforeOrder /\ UNCHANGED orderVars
    BY OtherSteps DEF Builds, analyses
  <2> QED BY <2>1 DEF orderVars, Order!Init, Order!NewVertex, Order!Root, OthersCalledRight
<1> QED BY <1>1, <1>2, <1>3, <1>4, <1>5, <1>6 DEF OthersCalledRight

LEMMA OthersCalledRightAlways == Spec => []OthersCalledRight
<1>1. Init => OthersCalledRight
  BY OthersInit
<1>2. CalledRight /\ OthersCalledRight /\ WalkInv /\ [Next]_vars => OthersCalledRight'
  BY OthersStep
<1> QED BY <1>1, <1>2, CalledRightAlways, WalkAlways, PTL DEF Spec

(* The graph of the result is that of the project, for the sources.        *)
LEMMA SourceInResult ==
  ASSUME CalledRight, OthersCalledRight, NEW v \in ToSet(result.sources)
  PROVE  /\ v \in Vertex /\ v \in SourcesOf(project)
         /\ result.graph[v] = project.graph[v]
         /\ result.component[v] \subseteq project.component[v]
         /\ v \in result.is_external <=> v \in project.is_external
<1> DEFINE in == UNION {Reachable(project.graph, u) : u \in ToSet(result.sources)}
<1>1. v \in Vertex /\ v \in SourcesOf(project)
  BY ToSetInSeq DEF CalledRight, ResultType, OthersCalledRight
<1>2. v \in in
  BY <1>1, ReachesItself DEF CalledRight, Project
<1>3. /\ result.graph = [u \in Vertex |-> IF u \in in THEN project.graph[u] ELSE <<>>]
      /\ result.component = [u \in Vertex |->
                               IF u \in in THEN project.component[u] \cap in ELSE {}]
      /\ result.is_external = project.is_external \cup (Vertex \ in)
  BY DEF OthersCalledRight, ResultOf
<1> HIDE DEF in
<1> QED BY <1>1, <1>2, <1>3

LEMMA HeadersInResult ==
  ASSUME CalledRight, OthersCalledRight, HeadersIncluded(project),
         NEW v \in ToSet(result.sources)
  PROVE  result.component[v] \subseteq ToSet(result.graph[v])
BY SourceInResult DEF HeadersIncluded

LEMMA OneHeader ==
  ASSUME CalledRight, OthersCalledRight, NEW v \in Vertex
  PROVE  \A h, k \in result.component[v] : h = k
<1> DEFINE in == UNION {Reachable(project.graph, u) : u \in ToSet(result.sources)}
<1>1. result.component = [u \in Vertex |->
                               IF u \in in THEN project.component[u] \cap in ELSE {}]
  BY DEF OthersCalledRight, ResultOf
<1> HIDE DEF in
<1> QED BY <1>1 DEF OthersCalledRight

LEMMA HypothesesKept ==
  /\ Spec /\ HeadersIncluded(project) => []HeadersIncluded(project)
  /\ Spec /\ SourcesInternal(project) => []SourcesInternal(project)
<1>1. HeadersIncluded(project) /\ [Next]_vars => HeadersIncluded(project)'
  BY Steps DEF HeadersIncluded, SourcesOf
<1>2. SourcesInternal(project) /\ [Next]_vars => SourcesInternal(project)'
  BY Steps DEF SourcesInternal, SourcesOf
<1> QED BY <1>1, <1>2, PTL DEF Spec

-----------------------------------------------------------------------------
(***************************************************************************)
(* find_unused_components.  As every source includes its header, no other  *)
(* file does when in_degree is at most one.                                *)
(***************************************************************************)
UnusedResult == [source : Vertex, saving : Nat]

UnusedInv ==
  /\ u_called \in BOOLEAN
  /\ u_called => stage \notin BeforeUnused
  /\ ~u_called => u_left = {} /\ u_results = <<>>
  /\ u_left \subseteq DOMAIN result.sources
  /\ u_results \in Seq(UnusedResult)

LEMMA UnusedNames ==
  /\ \A s : Unused!ToSet(s) = ToSet(s)
  /\ \A g, v : Unused!Reachable(g, v) = Reachable(g, v)
  /\ \A f, S : Unused!SumFunctionOnSet(f, S) = SumFunctionOnSet(f, S)
<1>1. \A s : Unused!ToSet(s) = ToSet(s)
  BY DEF Unused!ToSet, ToSet
<1>2. \A g, v : Unused!Reachable(g, v) = Reachable(g, v)
  BY <1>1 DEF Unused!Reachable, Reachable, Unused!Closed, Closed
<1>3. \A f, S : Unused!SumFunctionOnSet(f, S) = SumFunctionOnSet(f, S)
  BY Zenon DEF Unused!SumFunctionOnSet, SumFunctionOnSet,
         Unused!FoldFunctionOnSet, FoldFunctionOnSet,
         Unused!MapThenFoldSet, MapThenFoldSet
<1> QED BY <1>1, <1>2, <1>3

LEMMA UnusedCardinality == \A S : Unused!Cardinality(S) = Cardinality(S)
BY Zenon DEF Unused!Cardinality, Cardinality

LEMMA TrueCostType ==
  ASSUME CalledRight
  PROVE  /\ true_cost \in [Vertex -> Nat]
         /\ \A S \in SUBSET Vertex : SumFunctionOnSet(true_cost, S) \in Nat
<1>1. true_cost \in [Vertex -> Nat]
  BY DEF CalledRight, Project, true_cost
<1>2. \A S \in SUBSET Vertex : IsFiniteSet(S)
  BY VertexFinite, FS_Subset
<1>3. PICK cost : cost = true_cost
  OBVIOUS
<1> QED BY <1>1, <1>2, <1>3, SumType

LEMMA SourcePositions ==
  ASSUME CalledRight
  PROVE  /\ Len(result.sources) \in Nat
         /\ DOMAIN result.sources = 1..Len(result.sources)
         /\ \A j \in DOMAIN result.sources :
              result.sources[j] \in Vertex /\ result.sources[j] \in ToSet(result.sources)
<1>1. result.sources \in Seq(Vertex)
  BY DEF CalledRight, ResultType
<1> QED BY <1>1 DEF ToSet

LEMMA UnusedReport ==
  ASSUME CalledRight, NEW v \in Vertex
  PROVE  Unused!Report(v) \in Seq(UnusedResult)
<1>1. Unused!true_cost_from(v) = SumFunctionOnSet(true_cost, Reachable(result.graph, v))
  BY UnusedNames DEF Unused!true_cost_from, Unused!CostOf, unusedInput
<1>2. Unused!true_cost_from(v) \in Nat
  <2>1. Reachable(result.graph, v) \in SUBSET Vertex
    BY DEF Reachable
  <2> QED BY <1>1, <2>1, TrueCostType
<1> QED BY <1>2 DEF Unused!Report, UnusedResult

LEMMA OnlyItself ==
  ASSUME CalledRight, OthersCalledRight, HeadersIncluded(project),
         NEW v \in ToSet(result.sources), NEW h \in result.component[v]
  PROVE  Unused!in_degree(h) <= Unused!AtMost <=>
           Unused!Cardinality(Unused!OtherIncluders(h, v)) <= 0
<1> DEFINE S == Unused!Includers(h)
<1>1. Unused!AtMost = 1
  <2>1. \A n \in Nat : n > 1 => (0 + 1) % n = 1
    OBVIOUS
  <2> QED BY <2>1, WidthAssumption DEF Unused!AtMost, unusedInput
<1>2. v \in S /\ S \in SUBSET Vertex
  <2>1. v \in Vertex /\ h \in ToSet(result.graph[v])
    BY HeadersInResult, SourceInResult
  <2> QED BY <2>1, UnusedNames DEF Unused!Includers, unusedInput
<1> HIDE DEF S
<1>3. /\ IsFiniteSet(S) /\ IsFiniteSet(S \ {v})
      /\ Cardinality(S) \in Nat /\ Cardinality(S \ {v}) = Cardinality(S) - 1
  BY <1>2, VertexFinite, FS_Subset, FS_RemoveElement, FS_CardinalityType
<1>4. Unused!in_degree(h) = Cardinality(S) /\ Unused!OtherIncluders(h, v) = S \ {v}
  BY UnusedCardinality DEF Unused!in_degree, Unused!OtherIncluders, S
<1> QED BY <1>1, <1>3, <1>4, UnusedCardinality

(* Every body of the analysis is one of the loop it promises to be.        *)
LEMMA UnusedBody ==
  ASSUME CalledRight, OthersCalledRight, HeadersIncluded(project), UnusedInv,
         UNCHANGED resultVars, UNCHANGED project,
         NEW b \in u_left, Unused!Body(b)
  PROVE  Unused!Loop!Body(b)
<1>1. b \in DOMAIN result.sources /\ u_called
  BY DEF UnusedInv
<1>2. PICK v : v = result.sources[b] /\ v \in Vertex /\ v \in ToSet(result.sources)
  BY <1>1, SourcePositions
<1>3. Unused!IsUnused(v) <=>
        /\ \E h \in result.component[v] : Unused!Cardinality(Unused!OtherIncluders(h, v)) <= 0
        /\ Unused!true_cost_from(v) >= 10
  BY <1>2, OnlyItself DEF Unused!IsUnused, unusedInput
<1>4. /\ u_called' = u_called /\ u_left' = u_left \ {b}
      /\ u_results' = u_results \o (IF Unused!IsUnused(v) THEN Unused!Report(v) ELSE <<>>)
  BY <1>2 DEF Unused!Body, unusedInput
<1> DEFINE found(p) == LET s == result.sources[p] IN
             IF /\ \E h \in result.component[s] : Unused!Cardinality(Unused!OtherIncluders(h, s)) <= 0
                /\ Unused!true_cost_from(s) >= 10
             THEN Unused!Report(s) ELSE <<>>
<1>5. found(b) = IF Unused!IsUnused(v) THEN Unused!Report(v) ELSE <<>>
  BY <1>2, <1>3
<1>6. [p \in DOMAIN result.sources |-> found(p)][b] = found(b)
  BY <1>1
<1> QED BY <1>1, <1>4, <1>5, <1>6 DEF Unused!Loop!Body, unusedInput

LEMMA UnusedStep ==
  ASSUME CalledRight, OthersCalledRight, UnusedInv, [Next]_vars
  PROVE  UnusedInv'
<1> USE DEF BeforeUnused, NotBuilt
<1>1. CASE UNCHANGED unusedVars /\ UNCHANGED resultVars /\ (stage' \in BeforeUnused => stage \in BeforeUnused)
  BY <1>1 DEF UnusedInv, unusedVars, resultVars
<1>2. CASE Builds
  <2>1. Unused!Init /\ UNCHANGED unusedVars
    BY <1>2 DEF Builds, OthersCalledRight, analyses
  <2>2. ~u_called' /\ u_called' \in BOOLEAN /\ u_left' = {} /\ u_results' = <<>>
    BY <2>1 DEF Unused!Init, unusedVars
  <2> QED BY <2>2 DEF UnusedInv
<1>3. CASE /\ Unused!Call /\ UNCHANGED resultVars /\ stage' \notin BeforeUnused
  BY <1>3 DEF Unused!Call, UnusedInv, resultVars, unusedInput
<1>4. CASE /\ Unused!Next /\ UNCHANGED resultVars /\ stage' \notin BeforeUnused
  <2>1. PICK b \in u_left : Unused!Body(b)
    BY <1>4 DEF Unused!Next
  <2>2. PICK v \in Vertex : v = result.sources[b]
    BY <2>1, SourcePositions DEF UnusedInv
  <2>3. /\ u_called' = u_called /\ u_left' = u_left \ {b} /\ UNCHANGED result
        /\ u_results' = u_results \o (IF Unused!IsUnused(v) THEN Unused!Report(v) ELSE <<>>)
    BY <1>4, <2>1, <2>2 DEF Unused!Body, unusedInput, resultVars
  <2>4. \A r \in Seq(UnusedResult) : u_results \o r \in Seq(UnusedResult)
    BY DEF UnusedInv
  <2>5. Unused!Report(v) \in Seq(UnusedResult) /\ <<>> \in Seq(UnusedResult)
    BY UnusedReport
  <2>6. u_results' \in Seq(UnusedResult)
    BY <2>3, <2>4, <2>5
  <2> QED BY <1>4, <2>1, <2>3, <2>6 DEF UnusedInv
<1>5. CASE UNCHANGED unusedVars /\ UNCHANGED resultVars /\ stage' \notin BeforeUnused
  BY <1>5 DEF UnusedInv, unusedVars, resultVars
<1> QED BY <1>1, <1>2, <1>3, <1>4, <1>5, OtherSteps
        DEF BeforeOrder, BeforeSources, BeforePch, BeforeIncludes

LEMMA UnusedAlways == Spec => []UnusedInv
<1>1. Init => UnusedInv
  <2>1. ASSUME Init PROVE u_called = FALSE /\ u_left = {} /\ u_results = <<>>
    BY <2>1 DEF Init, Unused!Init
  <2> QED BY <2>1 DEF UnusedInv
<1>2. CalledRight /\ OthersCalledRight /\ UnusedInv /\ [Next]_vars => UnusedInv'
  BY UnusedStep
<1> QED BY <1>1, <1>2, CalledRightAlways, OthersCalledRightAlways, PTL DEF Spec

LEMMA UnusedImplements ==
  ASSUME CalledRight, OthersCalledRight, HeadersIncluded(project), UnusedInv, [Next]_vars
  PROVE  [Unused!Loop!Next]_<<u_called, u_left, u_results>>
<1>1. UNCHANGED project
  BY Steps
<1>2. CASE Unused!Call /\ UNCHANGED resultVars
  <2>1. ~u_called /\ u_left = {} /\ u_results = <<>>
    BY <1>2 DEF Unused!Call, UnusedInv
  <2>2. u_called' /\ u_left' = DOMAIN result'.sources /\ u_results' = <<>>
    BY <1>2, <2>1 DEF Unused!Call, unusedInput, resultVars
  <2> QED BY <2>1, <2>2 DEF Unused!Loop!Next, Unused!Loop!Call, Unused!Loop!Before,
                            Unused!Loop!Begun, unusedInput
<1>3. CASE Unused!Next /\ UNCHANGED resultVars
  <2>1. PICK b \in u_left : Unused!Body(b)
    BY <1>3 DEF Unused!Next
  <2>2. Unused!Loop!Body(b)
    BY <1>1, <1>3, <2>1, UnusedBody
  <2> QED BY <2>1, <2>2 DEF Unused!Loop!Next
<1>4. CASE UNCHANGED unusedVars
  BY <1>4 DEF unusedVars
<1> QED BY <1>2, <1>3, <1>4, OtherSteps DEF Builds, analyses

(* The components that run() reports as unreferenced are those whose       *)
(* header no file but their source includes, each once, with what their    *)
(* source costs, when every source includes its header.                    *)
THEOREM UnusedReported == Spec /\ HeadersIncluded(project) => FindsUnused
<1>1. Init => Unused!Loop!Init
  BY DEF Init, Unused!Init, Unused!Loop!Init, Unused!Loop!Before
<1>2. CalledRight /\ OthersCalledRight /\ HeadersIncluded(project) /\ UnusedInv /\ [Next]_vars
        => [Unused!Loop!Next]_<<u_called, u_left, u_results>>
  BY UnusedImplements
<1> QED BY <1>1, <1>2, CalledRightAlways, OthersCalledRightAlways, HypothesesKept,
           UnusedAlways, PTL
        DEF Spec, FindsUnused, Unused!FindsUnused, Unused!Loop!Spec

-----------------------------------------------------------------------------
(***************************************************************************)
(* topological_order.                                                      *)
(***************************************************************************)
LEMMA OrderNames ==
  /\ \A s : Order!ToSet(s) = ToSet(s)
  /\ \A S : Order!Cardinality(S) = Cardinality(S)
<1>1. \A s : Order!ToSet(s) = ToSet(s)
  BY DEF Order!ToSet, ToSet
<1>2. \A S : Order!Cardinality(S) = Cardinality(S)
  BY Zenon DEF Order!Cardinality, Cardinality
<1> QED BY <1>1, <1>2

LEMMA RootIsNew ==
  /\ Cardinality(Vertex) \in Nat
  /\ Order!Root = Cardinality(Vertex) + 1 /\ Order!Root \notin Vertex
  /\ Order!NewVertex = 1..(Cardinality(Vertex) + 1)
<1>1. Cardinality(Vertex) \in Nat
  BY VertexFinite, FS_CardinalityType
<1>2. Order!Root = Cardinality(Vertex) + 1
  BY OrderNames DEF Order!Root
<1> QED BY <1>1, <1>2, VertexAssumption DEF Order!NewVertex

(* The sets of vertices that no edge of the new graph leaves.              *)
NothingLeaves(S) == \A v \in S : Order!Targets(v) \subseteq S

LEMMA StrongComponents ==
  ASSUME CalledRight
  PROVE  /\ \A v \in Order!NewVertex : Order!Targets(v) \in SUBSET Vertex
         /\ Order!strong_components =
              [v \in Order!NewVertex |->
                 {u \in Order!NewVertex :
                    \A S \in SUBSET Order!NewVertex : NothingLeaves(S) => (u \in S <=> v \in S)}]
<1>1. ASSUME NEW v \in Order!NewVertex
      PROVE  Order!Targets(v) \in SUBSET Vertex
  <2>1. v # Order!Root => result.component[v] \in SUBSET Vertex
    BY <1>1 DEF CalledRight, ResultType, Order!NewVertex
  <2> QED BY <2>1 DEF Order!Targets, Order!Includers, orderInput
<1> DEFINE closed == {S \in SUBSET Order!NewVertex :
                        \A v \in S : [w \in Order!NewVertex |-> Order!Targets(w)][v] \subseteq S}
<1>2. closed = {S \in SUBSET Order!NewVertex : NothingLeaves(S)}
  <2>1. ASSUME NEW S \in SUBSET Order!NewVertex
        PROVE  (\A v \in S : [w \in Order!NewVertex |-> Order!Targets(w)][v] \subseteq S)
                 <=> NothingLeaves(S)
    <3>1. \A v \in S : [w \in Order!NewVertex |-> Order!Targets(w)][v] = Order!Targets(v)
      OBVIOUS
    <3> QED BY <3>1 DEF NothingLeaves
  <2> QED BY <2>1
<1>3. Order!strong_components =
        [v \in Order!NewVertex |->
           {u \in Order!NewVertex : \A S \in closed : u \in S <=> v \in S}]
  BY DEF Order!strong_components
<1> HIDE DEF closed
<1> QED BY <1>1, <1>2, <1>3

(* The groups of the output are strong components of the new graph.        *)
OrderInv ==
  /\ t_phase \in {"ready", "relaxing", "returned"}
  /\ t_phase # "ready" => stage \notin BeforeOrder
  /\ t_phase # "returned" => t_output = <<>>
  /\ t_phase = "relaxing" => result.sources # <<>>
  /\ t_phase # "ready" /\ result.sources # <<>> => t_components = Order!strong_components
  /\ t_phase = "returned" =>
       IF result.sources = <<>> THEN t_output = <<>>
       ELSE t_output = [l \in 1..Order!num_levels |->
                          {t_components[v] : v \in {u \in Vertex : t_levels[u] = -l}}]

LEMMA OrderStep ==
  ASSUME CalledRight, OthersCalledRight, OrderInv, [Next]_vars
  PROVE  OrderInv'
<1> USE DEF orderInput
<1>1. CASE UNCHANGED orderVars /\ UNCHANGED resultVars /\ (stage' \in BeforeOrder => stage \in BeforeOrder)
  <2>1. UNCHANGED result /\ UNCHANGED <<t_phase, t_components, t_levels, t_output>>
    BY <1>1 DEF orderVars, resultVars
  <2>2. Order!strong_components' = Order!strong_components
    BY <2>1 DEF Order!strong_components, Order!Targets, Order!Includers
  <2>3. Order!num_levels' = Order!num_levels
    BY <2>1 DEF Order!num_levels
  <2> QED BY <1>1, <2>1, <2>2, <2>3 DEF OrderInv
<1>2. CASE UNCHANGED orderVars /\ stage \in BeforeOrder
  <2>1. t_phase' = "ready" /\ t_output' = <<>>
    BY <1>2 DEF OthersCalledRight, Order!Init, orderVars
  <2> QED BY <2>1 DEF OrderInv
<1>3. CASE Order!Call /\ UNCHANGED resultVars /\ stage' \notin BeforeOrder
  <2>1. /\ UNCHANGED result /\ t_output' = <<>>
        /\ IF result.sources = <<>> THEN t_phase' = "returned"
           ELSE t_phase' = "relaxing" /\ t_components' = Order!strong_components
    BY <1>3 DEF Order!Call, resultVars, OrderInv
  <2>2. Order!strong_components' = Order!strong_components
    BY <2>1 DEF Order!strong_components, Order!Targets, Order!Includers
  <2> QED BY <1>3, <2>1, <2>2 DEF OrderInv
<1>4. CASE Order!Round /\ UNCHANGED resultVars /\ stage' \notin BeforeOrder
  <2>1. /\ UNCHANGED result /\ UNCHANGED t_output /\ t_phase = "relaxing" /\ UNCHANGED t_phase
        /\ UNCHANGED t_components
    BY <1>4 DEF Order!Round, resultVars
  <2>2. Order!strong_components' = Order!strong_components
    BY <2>1 DEF Order!strong_components, Order!Targets, Order!Includers
  <2> QED BY <1>4, <2>1, <2>2 DEF OrderInv
<1>5. CASE Order!Group /\ UNCHANGED resultVars /\ stage' \notin BeforeOrder
  <2>1. /\ UNCHANGED result /\ t_phase = "relaxing" /\ t_phase' = "returned"
        /\ UNCHANGED <<t_components, t_levels>>
        /\ t_output' = [l \in 1..Order!num_levels |->
                          {t_components[v] : v \in {u \in Vertex : t_levels[u] = -l}}]
    BY <1>5 DEF Order!Group, resultVars
  <2>2. Order!strong_components' = Order!strong_components
    BY <2>1 DEF Order!strong_components, Order!Targets, Order!Includers
  <2>3. Order!num_levels' = Order!num_levels
    BY <2>1 DEF Order!num_levels
  <2> QED BY <1>5, <2>1, <2>2, <2>3 DEF OrderInv
<1> QED BY <1>1, <1>2, <1>3, <1>4, <1>5, OtherSteps
        DEF Builds, analyses, Order!Next, BeforeOrder, BeforeSources, BeforePch,
            BeforeIncludes, BeforeUnused

LEMMA OrderAlways == Spec => []OrderInv
<1>1. Init => OrderInv
  BY DEF Init, Order!Init, OrderInv
<1>2. CalledRight /\ OthersCalledRight /\ OrderInv /\ [Next]_vars => OrderInv'
  BY OrderStep
<1> QED BY <1>1, <1>2, CalledRightAlways, OthersCalledRightAlways, PTL DEF Spec

(* A source that includes its header shares a strong component with it.    *)
LEMMA Together ==
  ASSUME CalledRight, OthersCalledRight, HeadersIncluded(project),
         NEW v \in ToSet(result.sources), NEW h \in result.component[v],
         h \in Vertex \ result.is_external,
         NEW x \in Order!NewVertex, v \in Order!strong_components[x]
  PROVE  h \in Order!strong_components[x]
<1>1. v \in Vertex /\ h \in ToSet(result.graph[v])
  BY HeadersInResult, SourceInResult
<1>2. v # Order!Root /\ h # Order!Root /\ {v, h} \subseteq Order!NewVertex
  BY <1>1, RootIsNew DEF Order!NewVertex
<1>3. h \in Order!Targets(v)
  BY <1>2, OrderNames DEF Order!Targets, orderInput
<1>4. v \in Order!Targets(h)
  BY <1>1, <1>2, OrderNames DEF Order!Targets, Order!Includers, orderInput
<1>5. \A S \in SUBSET Order!NewVertex : NothingLeaves(S) => (v \in S <=> h \in S)
  BY <1>3, <1>4 DEF NothingLeaves
<1> QED BY <1>2, <1>5, StrongComponents

(* A source is in one group with its header.                               *)
THEOREM ComponentsTogetherAlways ==
  Spec /\ HeadersIncluded(project) => []ComponentsTogether
<1>1. CalledRight /\ OthersCalledRight /\ HeadersIncluded(project) /\ OrderInv
        => ComponentsTogether
  <2> SUFFICES ASSUME CalledRight, OthersCalledRight, HeadersIncluded(project), OrderInv,
                      Order!Returned, NEW v \in ToSet(result.sources), v \in Order!Listed,
                      NEW h \in result.component[v], h \in Order!Internal
               PROVE  \E l \in DOMAIN t_output : \E G \in t_output[l] : {v, h} \subseteq G
    BY OrderNames DEF ComponentsTogether, Order!ComponentsTogether, orderInput
  <2>1. t_phase = "returned" /\ h \in Vertex \ result.is_external
    BY DEF Order!Returned, Order!Internal, orderInput
  <2>2. PICK l \in DOMAIN t_output : \E G \in t_output[l] : v \in G
    BY DEF Order!Listed, Order!ToSet
  <2>3. PICK G \in t_output[l] : v \in G
    BY <2>2
  <2>4. result.sources # <<>>
    BY SingletonQueue
  <2>5. t_components = Order!strong_components
    BY <2>1, <2>4 DEF OrderInv
  <2>6. t_output[l] = {t_components[x] : x \in {u \in Vertex : t_levels[u] = -l}}
    BY <2>1, <2>2, <2>4 DEF OrderInv
  <2>7. PICK x \in Order!NewVertex : G = Order!strong_components[x]
    BY <2>3, <2>5, <2>6 DEF Order!NewVertex
  <2>8. h \in G
    BY <2>1, <2>3, <2>7, Together
  <2> QED BY <2>2, <2>3, <2>8
<1> QED BY <1>1, OrderAlways, CalledRightAlways, OthersCalledRightAlways, HypothesesKept, PTL

-----------------------------------------------------------------------------
(***************************************************************************)
(* find_unnecessary_sources.  A source and what it adds to the others when *)
(* it is removed: the cost of what only the source reaches, not its header *)
(* and not the other source, for all that include the header.              *)
(***************************************************************************)
From(v) == Reachable(result.graph, v)
HeaderOf(v) == CHOOSE h \in result.component[v] : TRUE
OnlyFrom(v) == From(v) \ From(HeaderOf(v))
Cost(S) == SumFunctionOnSet(true_cost, S)

AddedTo(v, t) ==
  IF t # v /\ HeaderOf(v) \in From(t) THEN Cost(OnlyFrom(v) \ From(t)) ELSE 0

\* What is added to the sources up to position k.
AddedUpTo(v, k) ==
  SumFunctionOnSet([j \in DOMAIN result.sources |-> AddedTo(v, result.sources[j])], 1..k)

LEMMA SourcesNames ==
  /\ \A s : Sources!ToSet(s) = ToSet(s) /\ Sources!Last(s) = Last(s) /\ Sources!Front(s) = Front(s)
  /\ \A v : Sources!Reachable(result.graph, v) = From(v)
  /\ \A g, v : Sources!Reachable(g, v) = Reachable(g, v)
  /\ \A f, S : Sources!SumFunctionOnSet(f, S) = SumFunctionOnSet(f, S)
  /\ \A S : Sources!CostOf(S) = Cost(S)
  /\ Sources!source = result.sources[s_b] /\ Sources!header = HeaderOf(Sources!source)
  /\ \A v : Sources!IsCandidate(v) <=> result.component[v] # {} /\ v \notin result.is_external
<1>1. \A s : Sources!ToSet(s) = ToSet(s) /\ Sources!Last(s) = Last(s) /\ Sources!Front(s) = Front(s)
  BY DEF Sources!ToSet, ToSet, Sources!Last, Last, Sources!Front, Front
<1>2. \A g, v : Sources!Reachable(g, v) = Reachable(g, v)
  BY <1>1 DEF Sources!Reachable, Reachable, Sources!Closed, Closed
<1>3. \A f, S : Sources!SumFunctionOnSet(f, S) = SumFunctionOnSet(f, S)
  BY Zenon DEF Sources!SumFunctionOnSet, SumFunctionOnSet,
         Sources!FoldFunctionOnSet, FoldFunctionOnSet,
         Sources!MapThenFoldSet, MapThenFoldSet
<1>4. \A S : Sources!CostOf(S) = Cost(S)
  BY <1>3 DEF Sources!CostOf, Cost, sourcesInput
<1>5. Sources!source = result.sources[s_b]
  BY DEF Sources!source, sourcesInput
<1>6. Sources!header = HeaderOf(Sources!source)
  BY DEF Sources!header, HeaderOf, sourcesInput
<1>7. \A v : Sources!IsCandidate(v) <=> result.component[v] # {} /\ v \notin result.is_external
  BY DEF Sources!IsCandidate, sourcesInput
<1> QED BY <1>1, <1>2, <1>3, <1>4, <1>5, <1>6, <1>7 DEF From

LEMMA GraphParts ==
  ASSUME CalledRight
  PROVE  /\ result.graph \in AdjacencyList
         /\ \A v \in Vertex : From(v) \in SUBSET Vertex /\ IsFiniteSet(From(v)) /\ v \in From(v)
         /\ \A v \in Vertex : result.component[v] \in SUBSET Vertex
         /\ \A v \in Vertex : result.component[v] # {} =>
              HeaderOf(v) \in Vertex /\ HeaderOf(v) \in result.component[v]
<1>1. result.graph \in AdjacencyList
  BY DEF CalledRight, ResultType
<1>2. \A v \in Vertex : From(v) \in SUBSET Vertex /\ IsFiniteSet(From(v)) /\ v \in From(v)
  <2>1. \A v \in Vertex : From(v) \in SUBSET Vertex
    BY DEF From, Reachable
  <2> QED BY <1>1, <2>1, ReachesItself, VertexFinite, FS_Subset DEF From
<1>3. \A v \in Vertex : result.component[v] \in SUBSET Vertex
  BY DEF CalledRight, ResultType
<1> QED BY <1>1, <1>2, <1>3 DEF HeaderOf

LEMMA Costs ==
  ASSUME CalledRight
  PROVE  /\ Cost({}) = 0
         /\ \A S \in SUBSET Vertex : Cost(S) \in Nat
         /\ \A S \in SUBSET Vertex : \A v \in Vertex \ S : Cost(S \cup {v}) = Cost(S) + true_cost[v]
         /\ \A S, T \in SUBSET Vertex : Cost(S \cup T) = Cost(S) + Cost(T \ S)
         /\ \A v \in Vertex : true_cost[v] \in Nat
<1>1. true_cost \in [Vertex -> Nat]
  BY TrueCostType
<1>2. \A S \in SUBSET Vertex : IsFiniteSet(S)
  BY VertexFinite, FS_Subset
<1>3. PICK cost \in [Vertex -> Nat] : cost = true_cost
  BY <1>1
<1>4. ASSUME NEW S \in SUBSET Vertex, NEW v \in Vertex \ S
      PROVE  Cost(S \cup {v}) = Cost(S) + true_cost[v]
  <2>1. \A y \in S \cup {v} : cost[y] \in Nat
    OBVIOUS
  <2> QED BY <1>2, <1>3, <2>1, SumAdd DEF Cost
<1>5. ASSUME NEW S \in SUBSET Vertex, NEW T \in SUBSET Vertex
      PROVE  Cost(S \cup T) = Cost(S) + Cost(T \ S)
  <2>1. PICK U \in SUBSET Vertex : U = S \cup T
    OBVIOUS
  <2>2. S \in SUBSET U /\ U \ S = T \ S /\ IsFiniteSet(U) /\ \A y \in U : cost[y] \in Nat
    BY <1>2, <2>1
  <2>3. SumFunctionOnSet(cost, U) = SumFunctionOnSet(cost, S) + SumFunctionOnSet(cost, U \ S)
    BY <2>2, SumSplit
  <2> QED BY <1>3, <2>1, <2>2, <2>3 DEF Cost
<1> QED BY <1>1, <1>4, <1>5, TrueCostType, SumOfNothing DEF Cost

(***************************************************************************)
(* With the source inlined into its header a source reaches what it did,   *)
(* and what the source reaches if it reaches the header.                   *)
(***************************************************************************)
LEMMA InlinedGraph ==
  ASSUME CalledRight, OthersCalledRight,
         NEW p \in DOMAIN result.sources, NEW v, v = result.sources[p],
         result.component[v] # {}, NEW t \in Vertex
  PROVE  /\ Sources!Inlined(p) \in AdjacencyList
         /\ Reachable(Sources!Inlined(p), t) =
              IF HeaderOf(v) \in From(t) THEN From(t) \cup From(v) ELSE From(t)
<1> DEFINE G == Sources!Inlined(p)
           g == result.graph
           h == HeaderOf(v)
<1>1. v \in Vertex /\ h \in Vertex /\ h \in result.component[v] /\ g \in AdjacencyList
  BY SourcePositions, GraphParts
<1>2. G = [u \in Vertex |-> IF u = h THEN Append(g[u], v) ELSE g[u]]
  <2>1. \A u \in Vertex : u \in result.component[v] <=> u = h
    BY <1>1, OneHeader
  <2>2. G = [u \in Vertex |-> IF u \in result.component[v] THEN Append(g[u], v) ELSE g[u]]
    BY DEF Sources!Inlined, sourcesInput
  <2> HIDE DEF G, h
  <2> QED BY <2>1, <2>2
<1> HIDE DEF G, h
<1>3. G \in AdjacencyList
  <2>1. \A u \in Vertex : g[u] \in Seq(Vertex) /\ Append(g[u], v) \in Seq(Vertex)
    <3>1. \A s \in Seq(Vertex) : Append(s, v) \in Seq(Vertex)
      BY <1>1
    <3>2. g \in [Vertex -> Seq(Vertex)]
      BY <1>1 DEF AdjacencyList
    <3> QED BY <3>1, <3>2
  <2> QED BY <1>2, <2>1 DEF AdjacencyList
<1>4. /\ \A u \in Vertex \ {h} : ToSet(G[u]) = ToSet(g[u])
      /\ ToSet(G[h]) = ToSet(g[h]) \cup {v}
  <2>1. g[h] \in Seq(Vertex)
    BY <1>1 DEF AdjacencyList
  <2>2. ToSet(Append(g[h], v)) = ToSet(g[h]) \cup {v}
    BY <1>1, <2>1, AppendInSeq
  <2>3. G[h] = Append(g[h], v) /\ \A u \in Vertex \ {h} : G[u] = g[u]
    BY <1>1, <1>2
  <2> QED BY <2>2, <2>3
<1>5. /\ Reachable(g, t) \subseteq Reachable(G, t)
      /\ h \notin Reachable(G, t) => Reachable(G, t) = Reachable(g, t)
      /\ h \in Reachable(G, t) => h \in Reachable(g, t)
      /\ h \in Reachable(G, t) => Reachable(G, t) = Reachable(g, t) \cup Reachable(G, v)
  BY <1>1, <1>3, <1>4, EdgeRemoved
<1>6. Reachable(G, v) = Reachable(g, v)
  <2>1. v \in Reachable(g, v)
    BY <1>1, ReachesItself
  <2> QED BY <1>1, <1>3, <1>4, <2>1, EdgeRemoved
<1> QED BY <1>3, <1>5, <1>6 DEF From, G, h

LEMMA CostInlined ==
  ASSUME CalledRight, OthersCalledRight,
         NEW p \in DOMAIN result.sources, NEW v, v = result.sources[p],
         result.component[v] # {}, NEW t \in Vertex
  PROVE  Cost(Reachable(Sources!Inlined(p), t)) = Cost(From(t)) + AddedTo(v, t)
<1> DEFINE h == HeaderOf(v)
<1>1. v \in Vertex /\ h \in Vertex
  BY SourcePositions, GraphParts
<1>2. From(t) \in SUBSET Vertex /\ From(v) \in SUBSET Vertex
  BY <1>1, GraphParts
<1>3. Reachable(Sources!Inlined(p), t) = IF h \in From(t) THEN From(t) \cup From(v) ELSE From(t)
  BY InlinedGraph
<1>4. CASE h \notin From(t)
  BY <1>2, <1>3, <1>4, Costs DEF AddedTo
<1>5. CASE h \in From(t) /\ t = v
  <2>1. Reachable(Sources!Inlined(p), t) = From(t) /\ AddedTo(v, t) = 0
    BY <1>3, <1>5 DEF AddedTo
  <2> QED BY <1>2, <2>1, Costs
<1>6. CASE h \in From(t) /\ t # v
  <2>1. From(h) \subseteq From(t)
    BY <1>6, GraphParts, ReachesFurther DEF From
  <2>2. From(v) \ From(t) = OnlyFrom(v) \ From(t)
    BY <2>1 DEF OnlyFrom
  <2> QED BY <1>2, <1>3, <1>6, <2>2, Costs DEF AddedTo
<1> QED BY <1>4, <1>5, <1>6

LEMMA AddedSums ==
  ASSUME CalledRight, NEW v \in Vertex
  PROVE  LET n == Len(result.sources) IN
         /\ \A t \in Vertex : AddedTo(v, t) \in Nat
         /\ AddedUpTo(v, 0) = 0
         /\ \A k \in 0..n : AddedUpTo(v, k) \in Nat
         /\ \A k \in 1..n :
              AddedUpTo(v, k) = AddedUpTo(v, k - 1) + AddedTo(v, result.sources[k])
<1> DEFINE n == Len(result.sources)
           by == [j \in DOMAIN result.sources |-> AddedTo(v, result.sources[j])]
<1>1. n \in Nat /\ DOMAIN result.sources = 1..n /\ \A j \in 1..n : result.sources[j] \in Vertex
  BY SourcePositions
<1>2. ASSUME NEW t \in Vertex PROVE AddedTo(v, t) \in Nat
  <2>1. OnlyFrom(v) \ From(t) \in SUBSET Vertex
    BY GraphParts DEF OnlyFrom
  <2> QED BY <2>1, Costs DEF AddedTo
<1>3. \A j \in 1..n : by[j] = AddedTo(v, result.sources[j]) /\ by[j] \in Nat
  BY <1>1, <1>2
<1>4. \A k : AddedUpTo(v, k) = SumFunctionOnSet(by, 1..k)
  BY DEF AddedUpTo
<1> HIDE DEF by
<1>5. \A k \in 0..n : IsFiniteSet(1..k) /\ 1..k \subseteq 1..n
  BY <1>1, FS_Interval
<1>6. ASSUME NEW k \in 0..n PROVE SumFunctionOnSet(by, 1..k) \in Nat
  BY <1>3, <1>5, SumType
<1>7. SumFunctionOnSet(by, 1..0) = 0
  <2>1. 1..0 = {}
    OBVIOUS
  <2> QED BY <2>1, SumOfNothing
<1>8. ASSUME NEW k \in 1..n
      PROVE  SumFunctionOnSet(by, 1..k) = SumFunctionOnSet(by, 1..(k - 1)) + by[k]
  <2>1. k - 1 \in 0..n /\ k \notin 1..(k - 1) /\ 1..k = 1..(k - 1) \cup {k}
    BY <1>1
  <2>2. \A y \in 1..(k - 1) \cup {k} : by[y] \in Nat
    BY <1>1, <1>3
  <2>3. SumFunctionOnSet(by, 1..(k - 1) \cup {k}) = SumFunctionOnSet(by, 1..(k - 1)) + by[k]
    BY <1>5, <2>1, <2>2, SumAdd
  <2> QED BY <2>1, <2>3
<1> QED BY <1>1, <1>2, <1>3, <1>4, <1>6, <1>7, <1>8

(* What the removal of a source saves in all.                              *)
LEMMA TotalSavingIs ==
  ASSUME CalledRight, OthersCalledRight,
         NEW p \in DOMAIN result.sources, NEW v, v = result.sources[p],
         result.component[v] # {}
  PROVE  Sources!TotalSaving(p) = Cost(From(v)) - AddedUpTo(v, Len(result.sources))
<1> DEFINE P == DOMAIN result.sources
           Q == P \ {p}
           f == [j \in P |-> Cost(From(result.sources[j]))]
           a == [j \in P |-> AddedTo(v, result.sources[j])]
           h == [j \in P |-> Cost(Reachable(Sources!Inlined(p), result.sources[j]))]
<1>1. /\ v \in Vertex /\ \A j \in P : result.sources[j] \in Vertex
      /\ IsFiniteSet(P) /\ P = 1..Len(result.sources)
  <2>1. IsFiniteSet(1..Len(result.sources))
    BY SourcePositions, FS_Interval
  <2> QED BY <2>1, SourcePositions
<1>2. Sources!TotalSaving(p) = SumFunctionOnSet(f, P) - SumFunctionOnSet(h, Q)
  <2>1. Sources!ProjectCost(result.graph, P) = SumFunctionOnSet(f, P)
    BY SourcesNames DEF Sources!ProjectCost, sourcesInput, From
  <2>2. Sources!ProjectCost(Sources!Inlined(p), Q) = SumFunctionOnSet(h, Q)
    BY SourcesNames DEF Sources!ProjectCost, sourcesInput
  <2> HIDE DEF f, h
  <2> QED BY <2>1, <2>2 DEF Sources!TotalSaving, sourcesInput
<1>3. \A j \in P : f[j] \in Nat /\ a[j] \in Nat /\ h[j] = f[j] + a[j]
  <2>1. ASSUME NEW j \in P PROVE f[j] \in Nat /\ a[j] \in Nat /\ h[j] = f[j] + a[j]
    <3>1. PICK t \in Vertex : t = result.sources[j]
      BY <1>1
    <3>2. Cost(From(t)) \in Nat /\ AddedTo(v, t) \in Nat
      BY <1>1, GraphParts, Costs, AddedSums
    <3>3. Cost(Reachable(Sources!Inlined(p), t)) = Cost(From(t)) + AddedTo(v, t)
      BY CostInlined
    <3> QED BY <3>1, <3>2, <3>3
  <2> QED BY <2>1
<1>4. f[p] = Cost(From(v)) /\ a[p] = 0
  BY DEF AddedTo
<1>5. SumFunctionOnSet(a, P) = AddedUpTo(v, Len(result.sources))
  BY <1>1 DEF AddedUpTo
<1> HIDE DEF f, a, h
<1>6. IsFiniteSet(Q) /\ Q \subseteq P
  BY <1>1, FS_Subset
<1> HIDE DEF Q
<1>7. SumFunctionOnSet(h, Q) = SumFunctionOnSet(f, Q) + SumFunctionOnSet(a, Q)
  BY <1>3, <1>6, SumOfTwo
<1>8. /\ SumFunctionOnSet(f, P) = f[p] + SumFunctionOnSet(f, Q)
      /\ SumFunctionOnSet(a, P) = a[p] + SumFunctionOnSet(a, Q)
  BY <1>1, <1>3, SumRemove DEF Q
<1>9. SumFunctionOnSet(f, Q) \in Nat /\ SumFunctionOnSet(a, Q) \in Nat /\ f[p] \in Nat
  BY <1>3, <1>6, SumType
<1> QED BY <1>2, <1>4, <1>5, <1>7, <1>8, <1>9

(* The invariant: what the searches of a body have marked and summed.      *)
SourcesActive == {"source", "header", "extra", "searching"}
SourcesResult == [source : Vertex, saving : Nat, extra_cost : Int]

SourcesTyped ==
  /\ s_reach \in [Vertex -> SUBSET Vertex]
  /\ s_phase \in {"ready", "idle"} \cup SourcesActive
  /\ s_left \subseteq DOMAIN result.sources /\ s_b \in Nat
  /\ s_reachable \in [{"SOURCE", "HEADER"} -> SUBSET Vertex]
  /\ s_stack \in Seq(Vertex)
  /\ s_number \in Int /\ s_only \in Int /\ s_saving \in Nat
  /\ s_i \in Nat /\ s_seen \in SUBSET Vertex
  /\ s_count \in Int /\ s_total \in Int /\ s_extra \in Int
  /\ s_results \in Seq(SourcesResult)

SourcesLoop ==
  /\ s_phase # "ready" =>
       /\ stage \notin BeforeSources
       /\ s_reach = [v \in Vertex |-> From(v)]
  /\ s_phase = "ready" => s_left = {} /\ s_results = <<>>
  /\ s_phase \in {"ready", "idle"} =>
       /\ s_b = 0 /\ s_reachable = Sources!NotMarked /\ s_stack = <<>>
       /\ s_number = 0 /\ s_only = 0 /\ s_saving = 0
       /\ s_i = 0 /\ s_seen = {} /\ s_count = 0 /\ s_total = 0 /\ s_extra = 0

SearchesSource(v) ==
  s_phase = "source" =>
    /\ Search(result.graph, v, s_reachable.SOURCE, ToSet(s_stack))
    /\ s_reachable.HEADER = {} /\ s_extra = 0
    /\ s_saving = Cost(s_reachable.SOURCE) /\ s_only = s_saving
    /\ s_number = Cardinality(s_reachable.SOURCE)

SearchedSource(v) ==
  s_phase \in {"header", "extra", "searching"} =>
    /\ s_reachable.SOURCE = From(v)
    /\ s_saving = Cost(From(v))
    /\ s_only = s_saving - Cost(s_reachable.HEADER)
    /\ s_number = Cardinality(From(v)) - Cardinality(s_reachable.HEADER)

SearchesHeader(v) ==
  s_phase = "header" =>
    /\ Search(result.graph, HeaderOf(v), s_reachable.HEADER, ToSet(s_stack))
    /\ s_extra = 0

SearchedHeader(v) ==
  s_phase \in {"extra", "searching"} =>
    /\ s_reachable.HEADER = From(HeaderOf(v))
    /\ s_i \in 1..(Len(result.sources) + 1)
    /\ HeadersIncluded(project) => s_extra = AddedUpTo(v, s_i - 1)
    /\ s_phase = "extra" => s_stack = <<>>

SearchesOther(v) ==
  s_phase = "searching" =>
    /\ s_i <= Len(result.sources)
    /\ \E t \in Vertex : /\ t = result.sources[s_i]
                         /\ t # v /\ HeaderOf(v) \in From(t)
                         /\ Search(result.graph, t, s_seen, ToSet(s_stack))
    /\ s_total = s_only - Cost(s_seen \cap OnlyFrom(v))
    /\ s_count = -Cardinality(s_seen \cap OnlyFrom(v))

BodyOf(v) ==
  /\ SearchesSource(v) /\ SearchedSource(v) /\ SearchesHeader(v)
  /\ SearchedHeader(v) /\ SearchesOther(v)

SourcesBody ==
  s_phase \in SourcesActive =>
    \E v \in Vertex :
      /\ v = result.sources[s_b] /\ s_b \in s_left
      /\ result.component[v] # {} /\ v \notin result.is_external
      /\ BodyOf(v)

SourcesInv == SourcesTyped /\ SourcesLoop /\ SourcesBody

SourcesStepped ==
  /\ CalledRight /\ OthersCalledRight /\ SourcesInv
  /\ UNCHANGED <<project, result>> /\ stage' \notin BeforeSources

LEMMA SourcesSame ==
  ASSUME UNCHANGED <<project, result>>
  PROVE  /\ \A v : From(v)' = From(v) /\ HeaderOf(v)' = HeaderOf(v)
                   /\ OnlyFrom(v)' = OnlyFrom(v)
         /\ \A S : Cost(S)' = Cost(S)
         /\ \A v, k : AddedUpTo(v, k)' = AddedUpTo(v, k)
         /\ HeadersIncluded(project)' <=> HeadersIncluded(project)
<1>1. \A v : From(v)' = From(v) /\ HeaderOf(v)' = HeaderOf(v)
  BY DEF From, HeaderOf
<1>2. \A v : OnlyFrom(v)' = OnlyFrom(v)
  BY <1>1 DEF OnlyFrom
<1>3. \A S : Cost(S)' = Cost(S)
  BY DEF Cost, true_cost
<1>4. \A v, t : AddedTo(v, t)' = AddedTo(v, t)
  BY <1>1, <1>2, <1>3 DEF AddedTo
<1>5. \A v, k : AddedUpTo(v, k)' = AddedUpTo(v, k)
  BY <1>4 DEF AddedUpTo
<1>6. HeadersIncluded(project)' <=> HeadersIncluded(project)
  BY DEF HeadersIncluded, SourcesOf
<1> QED BY <1>1, <1>2, <1>3, <1>5, <1>6

LEMMA SourcesInit ==
  ASSUME Sources!Init
  PROVE  SourcesInv
<1> USE DEF Sources!Init, Sources!NotMarked, SourcesActive
<1>1. SourcesTyped
  BY DEF SourcesTyped
<1>2. SourcesLoop /\ SourcesBody
  BY DEF SourcesLoop, SourcesBody
<1> QED BY <1>1, <1>2 DEF SourcesInv

(* The source of the body, while there is one.                             *)
LEMMA SourceOfBody ==
  ASSUME CalledRight, SourcesInv, s_phase \in SourcesActive
  PROVE  \E v \in Vertex :
           /\ v = result.sources[s_b] /\ s_b \in s_left
           /\ result.component[v] # {} /\ v \notin result.is_external
           /\ HeaderOf(v) \in Vertex /\ From(v) \in SUBSET Vertex
           /\ Sources!source = v /\ Sources!header = HeaderOf(v)
           /\ BodyOf(v)
BY SourcesNames, GraphParts DEF SourcesInv, SourcesBody

\* A step within the body.
LEMMA SourcesWithin ==
  ASSUME SourcesStepped, s_phase \in SourcesActive, s_phase' \in SourcesActive,
         NEW v \in Vertex, v = result.sources[s_b], s_b \in s_left,
         result.component[v] # {}, v \notin result.is_external,
         UNCHANGED <<s_b, s_left, s_reach, s_results>>,
         SourcesTyped', BodyOf(v)'
  PROVE  SourcesInv'
<1>1. SourcesLoop'
  <2>1. (\A u : From(u)' = From(u)) /\ s_phase # "ready" /\ s_phase' \notin {"ready", "idle"}
    BY SourcesSame DEF SourcesStepped, SourcesActive
  <2> QED BY <2>1 DEF SourcesStepped, SourcesInv, SourcesLoop
<1>2. SourcesBody'
  BY DEF SourcesStepped, SourcesBody
<1> QED BY <1>1, <1>2 DEF SourcesInv

\* The end of a body.
LEMMA SourcesReturn ==
  ASSUME SourcesStepped, s_phase \in SourcesActive,
         NEW reported \in Seq(SourcesResult), Sources!Return(reported)
  PROVE  SourcesInv'
<1>1. /\ s_left' \subseteq s_left /\ s_phase' = "idle" /\ s_reach' = s_reach
      /\ s_b' = 0 /\ s_reachable' = Sources!NotMarked /\ s_stack' = <<>>
      /\ s_number' = 0 /\ s_only' = 0 /\ s_saving' = 0
      /\ s_i' = 0 /\ s_seen' = {} /\ s_count' = 0 /\ s_total' = 0 /\ s_extra' = 0
      /\ s_results' = s_results \o reported
  BY DEF Sources!Return
<1>2. s_results' \in Seq(SourcesResult)
  <2>1. s_results \in Seq(SourcesResult)
    BY DEF SourcesStepped, SourcesInv, SourcesTyped
  <2> QED BY <1>1, <2>1
<1>3. Sources!NotMarked \in [{"SOURCE", "HEADER"} -> SUBSET Vertex] /\ Sources!NotMarked' = Sources!NotMarked
  BY DEF Sources!NotMarked
<1>4. SourcesTyped'
  BY <1>1, <1>2, <1>3 DEF SourcesStepped, SourcesInv, SourcesTyped
<1>5. SourcesLoop'
  <2>1. (\A u : From(u)' = From(u)) /\ s_phase # "ready"
    BY SourcesSame DEF SourcesStepped, SourcesActive
  <2> QED BY <1>1, <1>3, <2>1 DEF SourcesStepped, SourcesInv, SourcesLoop
<1>6. SourcesBody'
  BY <1>1 DEF SourcesBody, SourcesActive
<1> QED BY <1>4, <1>5, <1>6 DEF SourcesInv

LEMMA SourcesCall ==
  ASSUME SourcesStepped, Sources!Call
  PROVE  SourcesInv'
<1>1. /\ s_phase = "ready" /\ s_phase' = "idle"
      /\ s_reach' = [v \in Vertex |-> From(v)] /\ s_left' = DOMAIN result.sources
      /\ UNCHANGED <<s_b, s_reachable, s_stack, s_number, s_only, s_saving, s_i, s_seen,
                     s_count, s_total, s_extra, s_results>>
  BY SourcesNames DEF Sources!Call, Sources!locals, sourcesInput
<1>2. s_reach' \in [Vertex -> SUBSET Vertex]
  BY <1>1, GraphParts DEF SourcesStepped
<1>3. SourcesTyped'
  BY <1>1, <1>2 DEF SourcesStepped, SourcesInv, SourcesTyped, SourcesActive
<1>4. SourcesLoop'
  <2>1. \A u : From(u)' = From(u)
    BY SourcesSame DEF SourcesStepped
  <2>2. Sources!NotMarked' = Sources!NotMarked
    BY DEF Sources!NotMarked
  <2> QED BY <1>1, <2>1, <2>2 DEF SourcesStepped, SourcesInv, SourcesLoop
<1>5. SourcesBody'
  BY <1>1 DEF SourcesBody, SourcesActive
<1> QED BY <1>3, <1>4, <1>5 DEF SourcesInv

LEMMA SourcesNotCandidate ==
  ASSUME SourcesStepped, NEW p \in s_left, Sources!NotCandidate(p)
  PROVE  SourcesInv'
<1>1. /\ s_phase = "idle" /\ s_left' = s_left \ {p}
      /\ UNCHANGED <<s_reach, s_phase, s_b, s_reachable, s_stack, s_number, s_only, s_saving,
                     s_i, s_seen, s_count, s_total, s_extra, s_results>>
  BY DEF Sources!NotCandidate, Sources!locals
<1>2. SourcesTyped'
  BY <1>1 DEF SourcesStepped, SourcesInv, SourcesTyped
<1>3. SourcesLoop'
  <2>1. \A u : From(u)' = From(u)
    BY SourcesSame DEF SourcesStepped
  <2>2. Sources!NotMarked' = Sources!NotMarked
    BY DEF Sources!NotMarked
  <2> QED BY <1>1, <2>1, <2>2 DEF SourcesStepped, SourcesInv, SourcesLoop
<1>4. SourcesBody'
  BY <1>1 DEF SourcesBody, SourcesActive
<1> QED BY <1>2, <1>3, <1>4 DEF SourcesInv

LEMMA SourcesBegin ==
  ASSUME SourcesStepped, NEW p \in s_left, Sources!Begin(p)
  PROVE  SourcesInv'
<1>1. PICK v \in Vertex : v = result.sources[p]
  BY SourcePositions DEF SourcesStepped, SourcesInv, SourcesTyped
<1>2. /\ s_phase = "idle" /\ s_phase' = "source" /\ s_b' = p /\ s_stack' = <<v>>
      /\ UNCHANGED <<s_reach, s_left, s_reachable, s_number, s_only, s_saving,
                     s_i, s_seen, s_count, s_total, s_extra, s_results>>
      /\ result.component[v] # {} /\ v \notin result.is_external
  BY <1>1, SourcesNames DEF Sources!Begin, sourcesInput
<1>3. SourcesTyped'
  <2>1. p \in Nat /\ <<v>> \in Seq(Vertex)
    BY SourcePositions DEF SourcesStepped, SourcesInv, SourcesTyped
  <2> QED BY <1>2, <2>1 DEF SourcesStepped, SourcesInv, SourcesTyped, SourcesActive
<1>4. SourcesLoop'
  <2>1. \A u : From(u)' = From(u)
    BY SourcesSame DEF SourcesStepped
  <2> QED BY <1>2, <2>1 DEF SourcesStepped, SourcesInv, SourcesLoop
<1>5. SearchesSource(v)'
  <2>1. /\ s_reachable'.SOURCE = {} /\ s_reachable'.HEADER = {}
        /\ s_number' = 0 /\ s_only' = 0 /\ s_saving' = 0 /\ s_extra' = 0
    BY <1>2 DEF SourcesStepped, SourcesInv, SourcesLoop, Sources!NotMarked
  <2>2. Search(result.graph, v, {}, {v}) /\ ToSet(s_stack') = {v}
    BY <1>2, SearchStarts, SingletonQueue, GraphParts DEF SourcesStepped
  <2>3. Cost({})' = 0 /\ Cardinality({}) = 0
    BY SourcesSame, Costs, FS_EmptySet DEF SourcesStepped
  <2>4. PICK seen : seen = s_reachable'.SOURCE
    OBVIOUS
  <2>5. Cost(s_reachable.SOURCE)' = 0
    BY <2>1, <2>3
  <2> QED BY <2>1, <2>2, <2>3, <2>5 DEF SearchesSource, SourcesStepped
<1>6. BodyOf(v)'
  BY <1>2, <1>5
     DEF BodyOf, SearchedSource, SearchesHeader, SearchedHeader, SearchesOther
<1>7. SourcesBody'
  BY <1>1, <1>2, <1>6 DEF SourcesBody, SourcesStepped
<1> QED BY <1>3, <1>4, <1>7 DEF SourcesInv

LEMMA SourcesTop ==
  ASSUME SourcesTyped, s_stack # <<>>
  PROVE  \E u \in Vertex :
           /\ u = Sources!Last(s_stack) /\ Sources!Front(s_stack) \in Seq(Vertex)
           /\ ToSet(s_stack) = {u} \cup ToSet(Sources!Front(s_stack))
<1>1. s_stack \in Seq(Vertex)
  BY DEF SourcesTyped
<1> QED BY <1>1, LastInSeq, SourcesNames

(* One more vertex is marked.                                              *)
LEMMA MarkOne ==
  ASSUME CalledRight, NEW S \in SUBSET Vertex, NEW u \in Vertex \ S
  PROVE  /\ Cost(S \cup {u}) = Cost(S) + true_cost[u] /\ Cost(S) \in Nat /\ true_cost[u] \in Nat
         /\ Cardinality(S \cup {u}) = Cardinality(S) + 1 /\ Cardinality(S) \in Nat
<1>1. IsFiniteSet(S)
  BY VertexFinite, FS_Subset
<1>2. Cardinality(S \cup {u}) = Cardinality(S) + 1 /\ Cardinality(S) \in Nat
  BY <1>1, FS_AddElement, FS_CardinalityType
<1> QED BY <1>2, Costs

LEMMA SourcesPopSource ==
  ASSUME SourcesStepped, Sources!PopSource
  PROVE  SourcesInv'
<1> USE DEF SourcesStepped
<1>1. s_phase = "source" /\ s_stack # <<>> /\ s_phase \in SourcesActive /\ SourcesTyped
  BY DEF Sources!PopSource, SourcesActive, SourcesInv
<1>2. PICK v \in Vertex : /\ v = result.sources[s_b] /\ s_b \in s_left
                          /\ result.component[v] # {} /\ v \notin result.is_external
                          /\ BodyOf(v)
  BY <1>1, SourceOfBody
<1>3. PICK u \in Vertex : /\ u = Sources!Last(s_stack) /\ Sources!Front(s_stack) \in Seq(Vertex)
                          /\ ToSet(s_stack) = {u} \cup ToSet(Sources!Front(s_stack))
  BY <1>1, SourcesTop
<1>4. PICK S \in SUBSET Vertex : S = s_reachable.SOURCE
  BY <1>1 DEF SourcesTyped
<1>5. /\ Search(result.graph, v, S, ToSet(s_stack)) /\ s_reachable.HEADER = {} /\ s_extra = 0
      /\ s_saving = Cost(S) /\ s_only = s_saving /\ s_number = Cardinality(S)
  BY <1>1, <1>2, <1>4 DEF BodyOf, SearchesSource
<1>6. result.graph \in AdjacencyList /\ result.graph[u] \in Seq(Vertex)
  BY GraphParts DEF AdjacencyList
<1>7. /\ UNCHANGED <<s_phase, s_b, s_left, s_reach, s_results, s_extra, s_i, s_seen, s_count,
                     s_total>>
      /\ \/ /\ u \in S /\ s_stack' = Sources!Front(s_stack)
            /\ UNCHANGED <<s_reachable, s_number, s_only, s_saving>>
         \/ /\ u \notin S /\ s_stack' = Sources!Front(s_stack) \o result.graph[u]
            /\ s_reachable' = [s_reachable EXCEPT !["SOURCE"] = @ \cup {u}]
            /\ s_saving' = s_saving + true_cost[u] /\ s_only' = s_only + true_cost[u]
            /\ s_number' = s_number + 1
  BY <1>3, <1>4 DEF Sources!PopSource, Sources!Passes, Sources!Skip, Sources!Mark, sourcesInput
<1>8. /\ SourcesTyped' /\ s_reachable'.HEADER = {}
      /\ Search(result.graph, v, s_reachable'.SOURCE, ToSet(s_stack'))
      /\ s_saving' = Cost(s_reachable'.SOURCE) /\ s_only' = s_saving'
      /\ s_number' = Cardinality(s_reachable'.SOURCE)
  <2>1. CASE u \in S /\ s_stack' = Sources!Front(s_stack)
             /\ UNCHANGED <<s_reachable, s_number, s_only, s_saving>>
    <3>1. Search(result.graph, v, S, ToSet(s_stack'))
      BY <1>3, <1>5, <2>1, SearchSkips
    <3>2. SourcesTyped'
      BY <1>1, <1>3, <1>7, <2>1 DEF SourcesTyped
    <3> QED BY <1>4, <1>5, <2>1, <3>1, <3>2
  <2>2. CASE /\ u \notin S /\ s_stack' = Sources!Front(s_stack) \o result.graph[u]
             /\ s_reachable' = [s_reachable EXCEPT !["SOURCE"] = @ \cup {u}]
             /\ s_saving' = s_saving + true_cost[u] /\ s_only' = s_only + true_cost[u]
             /\ s_number' = s_number + 1
    <3>1. /\ s_stack' \in Seq(Vertex)
          /\ ToSet(s_stack') = ToSet(Sources!Front(s_stack)) \cup ToSet(result.graph[u])
      BY <1>3, <1>6, <2>2, ConcatInSeq
    <3>2. Search(result.graph, v, S \cup {u}, ToSet(s_stack'))
      BY <1>3, <1>5, <1>6, <3>1, SearchExpands
    <3>3. /\ Cost(S \cup {u}) = Cost(S) + true_cost[u] /\ Cost(S) \in Nat /\ true_cost[u] \in Nat
          /\ Cardinality(S \cup {u}) = Cardinality(S) + 1 /\ Cardinality(S) \in Nat
      BY <2>2, MarkOne
    <3>4. s_reachable \in [{"SOURCE", "HEADER"} -> SUBSET Vertex]
      BY <1>1 DEF SourcesTyped
    <3>5. /\ s_reachable' \in [{"SOURCE", "HEADER"} -> SUBSET Vertex]
          /\ s_reachable'.SOURCE = S \cup {u} /\ s_reachable'.HEADER = {}
      BY <1>4, <1>5, <2>2, <3>4
    <3>6. SourcesTyped'
      BY <1>1, <1>5, <1>7, <2>2, <3>1, <3>3, <3>5 DEF SourcesTyped
    <3> QED BY <1>5, <2>2, <3>2, <3>3, <3>5, <3>6
  <2> QED BY <1>7, <2>1, <2>2
<1>9. SearchesSource(v)'
  <2>1. Cost(s_reachable.SOURCE)' = Cost(s_reachable'.SOURCE)
    BY SourcesSame DEF Cost, true_cost
  <2> QED BY <1>5, <1>7, <1>8, <2>1 DEF SearchesSource
<1>10. BodyOf(v)'
  BY <1>1, <1>7, <1>9 DEF BodyOf, SearchedSource, SearchesHeader, SearchedHeader, SearchesOther
<1> QED BY <1>1, <1>2, <1>7, <1>8, <1>10, SourcesWithin

LEMMA SourcesTooCheap ==
  ASSUME SourcesStepped, Sources!TooCheap
  PROVE  SourcesInv'
<1>1. <<>> \in Seq(SourcesResult) /\ s_phase \in SourcesActive /\ Sources!Return(<<>>)
  BY DEF Sources!TooCheap, SourcesActive
<1> QED BY <1>1, SourcesReturn

LEMMA SourcesSearched ==
  ASSUME SourcesStepped, Sources!SourceSearched
  PROVE  SourcesInv'
<1> USE DEF SourcesStepped
<1>1. /\ s_phase = "source" /\ s_stack = <<>> /\ s_phase \in SourcesActive /\ SourcesTyped
     
  BY DEF Sources!SourceSearched, SourcesActive, SourcesInv, sourcesInput
<1>2. PICK v \in Vertex : /\ v = result.sources[s_b] /\ s_b \in s_left
                          /\ result.component[v] # {} /\ v \notin result.is_external
                          /\ HeaderOf(v) \in Vertex /\ Sources!header = HeaderOf(v)
                          /\ BodyOf(v)
  BY <1>1, SourceOfBody
<1>3. PICK h \in Vertex : h = HeaderOf(v)
  BY <1>2
<1>4. /\ s_phase' = "header" /\ s_stack' = <<h>>
      /\ UNCHANGED <<s_reach, s_left, s_b, s_reachable, s_number, s_only, s_saving, s_i, s_seen,
                     s_count, s_total, s_extra, s_results>>
  BY <1>2, <1>3 DEF Sources!SourceSearched
<1>5. /\ Search(result.graph, v, s_reachable.SOURCE, {}) /\ s_reachable.HEADER = {} /\ s_extra = 0
      /\ s_saving = Cost(s_reachable.SOURCE) /\ s_only = s_saving
      /\ s_number = Cardinality(s_reachable.SOURCE)
  BY <1>1, <1>2, SingletonQueue DEF BodyOf, SearchesSource
<1>6. s_reachable.SOURCE = From(v)
  BY <1>5, SearchEnds DEF From
<1>7. SearchedSource(v)'
  <2>1. Cost({})' = 0 /\ Cardinality({}) = 0 /\ s_saving \in Int /\ s_number \in Int
    BY <1>1, SourcesSame, Costs, FS_EmptySet DEF SourcesTyped
  <2>2. Cost(From(v))' = Cost(From(v)) /\ From(v)' = From(v)
    BY SourcesSame DEF Cost, true_cost, From
  <2>3. Cost(s_reachable.HEADER)' = 0
    BY <1>4, <1>5, <2>1
  <2> QED BY <1>1, <1>4, <1>5, <1>6, <2>1, <2>2, <2>3 DEF SearchedSource
<1>8. SearchesHeader(v)'
  <2>1. Search(result.graph, h, {}, {h}) /\ ToSet(s_stack') = {h}
    BY <1>4, SearchStarts, SingletonQueue, GraphParts
  <2>2. HeaderOf(v)' = h
    BY <1>3, SourcesSame
  <2> QED BY <1>4, <1>5, <2>1, <2>2 DEF SearchesHeader
<1>9. BodyOf(v)'
  BY <1>4, <1>7, <1>8 DEF BodyOf, SearchesSource, SearchedHeader, SearchesOther
<1>10. SourcesTyped'
  <2>1. <<h>> \in Seq(Vertex)
    OBVIOUS
  <2> QED BY <1>1, <1>4, <2>1 DEF SourcesTyped, SourcesActive
<1>11. s_phase' \in SourcesActive
  BY <1>4 DEF SourcesActive
<1> QED BY <1>1, <1>2, <1>4, <1>9, <1>10, <1>11, SourcesWithin

LEMMA SourcesPopHeader ==
  ASSUME SourcesStepped, Sources!PopHeader
  PROVE  SourcesInv'
<1> USE DEF SourcesStepped
<1>1. s_phase = "header" /\ s_stack # <<>> /\ s_phase \in SourcesActive /\ SourcesTyped
  BY DEF Sources!PopHeader, SourcesActive, SourcesInv
<1>2. PICK v \in Vertex : /\ v = result.sources[s_b] /\ s_b \in s_left
                          /\ result.component[v] # {} /\ v \notin result.is_external
                          /\ HeaderOf(v) \in Vertex /\ From(v) \in SUBSET Vertex
                          /\ BodyOf(v)
  BY <1>1, SourceOfBody
<1>3. PICK u \in Vertex : /\ u = Sources!Last(s_stack) /\ Sources!Front(s_stack) \in Seq(Vertex)
                          /\ ToSet(s_stack) = {u} \cup ToSet(Sources!Front(s_stack))
  BY <1>1, SourcesTop
<1>4. PICK S \in SUBSET Vertex : S = s_reachable.HEADER
  BY <1>1 DEF SourcesTyped
<1>5. PICK h \in Vertex : h = HeaderOf(v)
  BY <1>2
<1>6. /\ Search(result.graph, h, S, ToSet(s_stack)) /\ s_extra = 0
      /\ s_reachable.SOURCE = From(v) /\ s_saving = Cost(From(v))
      /\ s_only = s_saving - Cost(S) /\ s_number = Cardinality(From(v)) - Cardinality(S)
  BY <1>1, <1>2, <1>4, <1>5 DEF BodyOf, SearchesHeader, SearchedSource
<1>7. result.graph \in AdjacencyList /\ result.graph[u] \in Seq(Vertex)
  BY GraphParts DEF AdjacencyList
<1>8. /\ UNCHANGED <<s_phase, s_b, s_left, s_reach, s_results, s_saving, s_extra, s_i, s_seen,
                     s_count, s_total>>
      /\ \/ /\ u \in S /\ s_stack' = Sources!Front(s_stack)
            /\ UNCHANGED <<s_reachable, s_number, s_only>>
         \/ /\ u \notin S /\ s_stack' = Sources!Front(s_stack) \o result.graph[u]
            /\ s_reachable' = [s_reachable EXCEPT !["HEADER"] = @ \cup {u}]
            /\ s_only' = s_only - true_cost[u] /\ s_number' = s_number - 1
  BY <1>3, <1>4 DEF Sources!PopHeader, Sources!Passes, Sources!Skip, Sources!Mark, sourcesInput
<1>9. /\ SourcesTyped' /\ s_reachable'.SOURCE = From(v)
      /\ Search(result.graph, h, s_reachable'.HEADER, ToSet(s_stack'))
      /\ s_only' = s_saving - Cost(s_reachable'.HEADER)
      /\ s_number' = Cardinality(From(v)) - Cardinality(s_reachable'.HEADER)
  <2>1. CASE u \in S /\ s_stack' = Sources!Front(s_stack)
             /\ UNCHANGED <<s_reachable, s_number, s_only>>
    <3>1. Search(result.graph, h, S, ToSet(s_stack'))
      BY <1>3, <1>6, <2>1, SearchSkips
    <3>2. SourcesTyped'
      BY <1>1, <1>3, <1>8, <2>1 DEF SourcesTyped
    <3> QED BY <1>4, <1>6, <2>1, <3>1, <3>2
  <2>2. CASE /\ u \notin S /\ s_stack' = Sources!Front(s_stack) \o result.graph[u]
             /\ s_reachable' = [s_reachable EXCEPT !["HEADER"] = @ \cup {u}]
             /\ s_only' = s_only - true_cost[u] /\ s_number' = s_number - 1
    <3>1. /\ s_stack' \in Seq(Vertex)
          /\ ToSet(s_stack') = ToSet(Sources!Front(s_stack)) \cup ToSet(result.graph[u])
      BY <1>3, <1>7, <2>2, ConcatInSeq
    <3>2. Search(result.graph, h, S \cup {u}, ToSet(s_stack'))
      BY <1>3, <1>6, <1>7, <3>1, SearchExpands
    <3>3. /\ Cost(S \cup {u}) = Cost(S) + true_cost[u] /\ Cost(S) \in Nat /\ true_cost[u] \in Nat
          /\ Cardinality(S \cup {u}) = Cardinality(S) + 1 /\ Cardinality(S) \in Nat
      BY <2>2, MarkOne
    <3>4. s_reachable \in [{"SOURCE", "HEADER"} -> SUBSET Vertex] /\ s_saving \in Nat
      BY <1>1 DEF SourcesTyped
    <3>5. /\ s_reachable' \in [{"SOURCE", "HEADER"} -> SUBSET Vertex]
          /\ s_reachable'.HEADER = S \cup {u} /\ s_reachable'.SOURCE = From(v)
      BY <1>4, <1>6, <2>2, <3>4
    <3>6. s_only' = s_saving - Cost(S \cup {u}) /\ s_only' \in Int
      <4>1. \A k, m, c \in Nat : (k - m) - c = k - (m + c) /\ (k - m) - c \in Int
        OBVIOUS
      <4>2. s_only = s_saving - Cost(S)
        BY <1>6
      <4> QED BY <2>2, <3>3, <3>4, <4>1, <4>2
    <3>7. Cardinality(From(v)) \in Nat
      BY GraphParts, FS_CardinalityType
    <3>8. s_number' = Cardinality(From(v)) - Cardinality(S \cup {u}) /\ s_number' \in Int
      BY <1>6, <2>2, <3>3, <3>7
    <3>9. SourcesTyped'
      BY <1>1, <1>8, <2>2, <3>1, <3>5, <3>6, <3>8 DEF SourcesTyped
    <3> QED BY <2>2, <3>2, <3>5, <3>6, <3>8, <3>9
  <2> QED BY <1>8, <2>1, <2>2
<1>10. SearchedSource(v)'
  <2>1. /\ Cost(s_reachable.HEADER)' = Cost(s_reachable'.HEADER)
        /\ Cost(From(v))' = Cost(From(v)) /\ From(v)' = From(v)
    BY SourcesSame DEF Cost, true_cost, From
  <2> QED BY <1>6, <1>8, <1>9, <2>1 DEF SearchedSource
<1>11. SearchesHeader(v)'
  <2>1. HeaderOf(v)' = h
    BY <1>5, SourcesSame
  <2> QED BY <1>6, <1>8, <1>9, <2>1 DEF SearchesHeader
<1>12. BodyOf(v)'
  BY <1>1, <1>8, <1>10, <1>11 DEF BodyOf, SearchesSource, SearchedHeader, SearchesOther
<1> QED BY <1>1, <1>2, <1>8, <1>9, <1>12, SourcesWithin

LEMMA SourcesHeaderSearched ==
  ASSUME SourcesStepped, Sources!HeaderSearched
  PROVE  SourcesInv'
<1> USE DEF SourcesStepped
<1>1. s_phase = "header" /\ s_stack = <<>> /\ s_phase \in SourcesActive /\ SourcesTyped
  BY DEF Sources!HeaderSearched, SourcesActive, SourcesInv
<1>2. PICK v \in Vertex : /\ v = result.sources[s_b] /\ s_b \in s_left
                          /\ result.component[v] # {} /\ v \notin result.is_external
                          /\ BodyOf(v)
  BY <1>1, SourceOfBody
<1>3. /\ s_phase' = "extra" /\ s_i' = 1
      /\ UNCHANGED <<s_reach, s_left, s_b, s_reachable, s_stack, s_number, s_only, s_saving,
                     s_seen, s_count, s_total, s_extra, s_results>>
  BY DEF Sources!HeaderSearched
<1>4. s_reachable.HEADER = From(HeaderOf(v)) /\ s_extra = 0
  <2>1. Search(result.graph, HeaderOf(v), s_reachable.HEADER, {}) /\ s_extra = 0
    BY <1>1, <1>2, SingletonQueue DEF BodyOf, SearchesHeader
  <2> QED BY <2>1, SearchEnds DEF From
<1>5. SearchedSource(v)'
  <2>1. /\ Cost(From(v))' = Cost(From(v)) /\ From(v)' = From(v)
        /\ Cost(s_reachable.HEADER)' = Cost(s_reachable.HEADER)
    BY <1>3, SourcesSame DEF Cost, true_cost, From
  <2>2. SearchedSource(v) /\ s_phase' \in {"header", "extra", "searching"}
    BY <1>2, <1>3 DEF BodyOf
  <2> QED BY <1>1, <1>3, <2>1, <2>2 DEF SearchedSource
<1>6. SearchedHeader(v)'
  <2>1. From(HeaderOf(v))' = From(HeaderOf(v))
    BY SourcesSame DEF From, HeaderOf
  <2>2. Len(result.sources) \in Nat /\ AddedUpTo(v, 0) = 0
    BY SourcePositions, AddedSums
  <2>3. AddedUpTo(v, s_i - 1)' = 0
    <3>1. s_i' - 1 = 0 /\ AddedUpTo(v, 0)' = 0
      BY <1>3, <2>2, SourcesSame
    <3>2. AddedUpTo(v, s_i - 1)' = AddedUpTo(v, 0)'
      BY <3>1 DEF AddedUpTo
    <3> QED BY <3>1, <3>2
  <2> QED BY <1>1, <1>3, <1>4, <2>1, <2>2, <2>3 DEF SearchedHeader
<1>7. BodyOf(v)'
  BY <1>3, <1>5, <1>6 DEF BodyOf, SearchesSource, SearchesHeader, SearchesOther
<1>8. SourcesTyped' /\ s_phase' \in SourcesActive
  BY <1>1, <1>3 DEF SourcesTyped, SourcesActive
<1> QED BY <1>1, <1>2, <1>3, <1>7, <1>8, SourcesWithin

(* What the search for the others has to do with.                          *)
LEMMA SourcesOthers ==
  ASSUME CalledRight, SourcesInv, s_phase \in {"extra", "searching"}
  PROVE  \E v \in Vertex :
           /\ v = result.sources[s_b] /\ s_b \in s_left
           /\ result.component[v] # {} /\ v \notin result.is_external
           /\ BodyOf(v) /\ SearchedSource(v) /\ SearchedHeader(v)
           /\ Sources!source = v /\ Sources!header = HeaderOf(v)
           /\ OnlyFrom(v) \in SUBSET Vertex
           /\ \A u : Sources!IsSourceOnly(u) <=> u \in OnlyFrom(v)
           /\ \A t \in Vertex : Sources!Affected(t) <=> t # v /\ HeaderOf(v) \in From(t)
<1>1. s_phase \in SourcesActive
  BY DEF SourcesActive
<1>2. PICK v \in Vertex : /\ v = result.sources[s_b] /\ s_b \in s_left
                          /\ result.component[v] # {} /\ v \notin result.is_external
                          /\ Sources!source = v /\ Sources!header = HeaderOf(v)
                          /\ From(v) \in SUBSET Vertex /\ BodyOf(v)
  BY <1>1, SourceOfBody
<1>3. s_reachable.SOURCE = From(v) /\ s_reachable.HEADER = From(HeaderOf(v))
  BY <1>2 DEF BodyOf, SearchedSource, SearchedHeader
<1>4. \A u : Sources!IsSourceOnly(u) <=> u \in OnlyFrom(v)
  BY <1>3 DEF Sources!IsSourceOnly, OnlyFrom
<1>5. \A t \in Vertex : s_reach[t] = From(t)
  BY <1>1 DEF SourcesInv, SourcesLoop, SourcesActive
<1>6. \A t \in Vertex : Sources!Affected(t) <=> t # v /\ HeaderOf(v) \in From(t)
  BY <1>2, <1>5 DEF Sources!Affected
<1> QED BY <1>2, <1>4, <1>6 DEF BodyOf, OnlyFrom

\* What has been found out about the source and the header stays.
LEMMA SourcesKept ==
  ASSUME SourcesStepped, NEW v, s_phase \in {"extra", "searching"},
         SearchedSource(v), SearchedHeader(v),
         UNCHANGED <<s_reachable, s_number, s_only, s_saving>>
  PROVE  /\ SearchedSource(v)'
         /\ s_phase' \in {"extra", "searching"} /\ UNCHANGED <<s_i, s_extra>>
              /\ (s_phase' = "extra" => s_stack' = <<>>)
              => SearchedHeader(v)'
<1> USE DEF SourcesStepped
<1>1. SearchedSource(v)'
  <2>1. /\ Cost(From(v))' = Cost(From(v)) /\ From(v)' = From(v)
        /\ Cost(s_reachable.HEADER)' = Cost(s_reachable.HEADER)
    BY SourcesSame DEF Cost, true_cost, From
  <2> QED BY <2>1 DEF SearchedSource
<1>2. ASSUME s_phase' \in {"extra", "searching"}, UNCHANGED <<s_i, s_extra>>,
             s_phase' = "extra" => s_stack' = <<>>
      PROVE  SearchedHeader(v)'
  <2>1. From(HeaderOf(v))' = From(HeaderOf(v))
    BY SourcesSame DEF From, HeaderOf
  <2>2. PICK k : k = s_i - 1
    OBVIOUS
  <2>3. AddedUpTo(v, s_i - 1)' = AddedUpTo(v, k)' /\ AddedUpTo(v, s_i - 1) = AddedUpTo(v, k)
    BY <1>2, <2>2 DEF AddedUpTo
  <2> QED BY <1>2, <2>1, <2>3, SourcesSame DEF SearchedHeader
<1> QED BY <1>1, <1>2

\* One source more has been looked at.
LEMMA SourcesNextOne ==
  ASSUME SourcesStepped, NEW v \in Vertex, s_phase \in {"extra", "searching"},
         v = result.sources[s_b], s_b \in s_left,
         result.component[v] # {}, v \notin result.is_external,
         SearchedSource(v), SearchedHeader(v), s_i <= Len(result.sources),
         s_phase' = "extra", s_stack' = <<>>, s_i' = s_i + 1, s_extra' \in Int,
         HeadersIncluded(project) => s_extra' = s_extra + AddedTo(v, result.sources[s_i]),
         UNCHANGED <<s_reach, s_left, s_b, s_reachable, s_number, s_only, s_saving, s_seen,
                     s_count, s_total, s_results>>
  PROVE  SourcesInv'
<1> USE DEF SourcesStepped
<1>1. SourcesTyped
  BY DEF SourcesInv
<1>2. /\ Len(result.sources) \in Nat /\ s_i \in 1..Len(result.sources)
      /\ s_i + 1 \in 1..(Len(result.sources) + 1) /\ (s_i + 1) - 1 = s_i
  BY SourcePositions DEF SearchedHeader
<1>3. SearchedSource(v)'
  BY SourcesKept
<1>4. SearchedHeader(v)'
  <2>1. From(HeaderOf(v))' = From(HeaderOf(v))
    BY SourcesSame DEF From, HeaderOf
  <2>2. PICK k \in 1..Len(result.sources) : k = s_i
    BY <1>2
  <2>3. AddedUpTo(v, s_i - 1)' = AddedUpTo(v, k)' /\ AddedUpTo(v, k)' = AddedUpTo(v, k)
    <3>1. s_i' - 1 = k
      BY <1>2, <2>2
    <3> QED BY <3>1, SourcesSame DEF AddedUpTo
  <2>4. AddedUpTo(v, k) = AddedUpTo(v, k - 1) + AddedTo(v, result.sources[k])
    BY AddedSums
  <2>5. HeadersIncluded(project) => s_extra = AddedUpTo(v, k - 1)
    BY <2>2 DEF SearchedHeader
  <2> QED BY <1>2, <2>1, <2>2, <2>3, <2>4, <2>5, SourcesSame DEF SearchedHeader
<1>5. BodyOf(v)'
  BY <1>3, <1>4 DEF BodyOf, SearchesSource, SearchesHeader, SearchesOther
<1>6. SourcesTyped' /\ {s_phase, s_phase'} \subseteq SourcesActive
  <2>1. <<>> \in Seq(Vertex) /\ s_i + 1 \in Nat
    BY <1>2
  <2> QED BY <1>1, <2>1 DEF SourcesTyped, SourcesActive
<1> QED BY <1>5, <1>6, SourcesWithin

LEMMA SourcesNotAffected ==
  ASSUME SourcesStepped, Sources!NotAffected
  PROVE  SourcesInv'
<1> USE DEF SourcesStepped
<1>1. s_phase = "extra" /\ s_i <= Len(result.sources)
  BY DEF Sources!NotAffected, Sources!MoreSources, sourcesInput
<1>2. PICK v \in Vertex :
        /\ v = result.sources[s_b] /\ s_b \in s_left
        /\ result.component[v] # {} /\ v \notin result.is_external
        /\ SearchedSource(v) /\ SearchedHeader(v)
        /\ \A t \in Vertex : Sources!Affected(t) <=> t # v /\ HeaderOf(v) \in From(t)
  BY <1>1, SourcesOthers
<1>3. PICK t \in Vertex : t = result.sources[s_i]
  <2>1. s_i \in 1..Len(result.sources)
    BY <1>1, <1>2, SourcePositions DEF SearchedHeader
  <2> QED BY <2>1, SourcePositions
<1>4. /\ s_phase' = "extra" /\ s_i' = s_i + 1 /\ ~Sources!Affected(t)
      /\ UNCHANGED <<s_reach, s_left, s_b, s_reachable, s_stack, s_number, s_only, s_saving,
                     s_seen, s_count, s_total, s_extra, s_results>>
  BY <1>1, <1>3 DEF Sources!NotAffected, sourcesInput
<1>5. s_stack' = <<>> /\ s_extra \in Int
  BY <1>1, <1>2, <1>4 DEF SearchedHeader, SourcesInv, SourcesTyped
<1>6. AddedTo(v, t) = 0
  BY <1>2, <1>4 DEF AddedTo
<1>7. s_extra' \in Int /\ s_extra' = s_extra + AddedTo(v, result.sources[s_i])
  BY <1>3, <1>4, <1>5, <1>6
<1> QED BY <1>1, <1>2, <1>4, <1>5, <1>7, SourcesNextOne

LEMMA SourcesSearch ==
  ASSUME SourcesStepped, Sources!Search
  PROVE  SourcesInv'
<1> USE DEF SourcesStepped
<1>1. s_phase = "extra" /\ s_i <= Len(result.sources) /\ SourcesTyped
  BY DEF Sources!Search, Sources!MoreSources, sourcesInput, SourcesInv
<1>2. PICK v \in Vertex :
        /\ v = result.sources[s_b] /\ s_b \in s_left
        /\ result.component[v] # {} /\ v \notin result.is_external
        /\ SearchedSource(v) /\ SearchedHeader(v)
        /\ \A t \in Vertex : Sources!Affected(t) <=> t # v /\ HeaderOf(v) \in From(t)
  BY <1>1, SourcesOthers
<1>3. PICK t \in Vertex : t = result.sources[s_i]
  <2>1. s_i \in 1..Len(result.sources)
    BY <1>1, <1>2, SourcePositions DEF SearchedHeader
  <2> QED BY <2>1, SourcePositions
<1>4. /\ s_phase' = "searching" /\ s_stack' = <<t>> /\ Sources!Affected(t)
      /\ s_seen' = {} /\ s_count' = 0 /\ s_total' = s_only
      /\ UNCHANGED <<s_reach, s_left, s_b, s_reachable, s_number, s_only, s_saving,
                     s_i, s_extra, s_results>>
  BY <1>3 DEF Sources!Search, sourcesInput
<1>5. SearchedSource(v)' /\ SearchedHeader(v)'
  BY <1>1, <1>2, <1>4, SourcesKept
<1>6. SearchesOther(v)'
  <2>1. Search(result.graph, t, {}, {t}) /\ ToSet(s_stack') = {t}
    BY <1>4, SearchStarts, SingletonQueue, GraphParts
  <2>2. From(t)' = From(t) /\ HeaderOf(v)' = HeaderOf(v)
    BY SourcesSame
  <2>3. Cost(s_seen \cap OnlyFrom(v))' = 0 /\ Cardinality((s_seen \cap OnlyFrom(v))') = 0
    <3>1. Cost({})' = 0 /\ Cardinality({}) = 0
      BY SourcesSame, Costs, FS_EmptySet
    <3>2. (s_seen \cap OnlyFrom(v))' = {}
      BY <1>4
    <3> QED BY <3>1, <3>2
  <2>4. s_only \in Int
    BY <1>1 DEF SourcesTyped
  <2>5. (\E w \in Vertex : /\ w = result.sources[s_i]
                          /\ w # v /\ HeaderOf(v) \in From(w)
                          /\ Search(result.graph, w, s_seen, ToSet(s_stack)))'
    BY <1>2, <1>3, <1>4, <2>1, <2>2
  <2>6. s_total' = s_only' - Cost(s_seen \cap OnlyFrom(v))'
    BY <1>4, <2>3, <2>4
  <2>7. s_count' = -Cardinality((s_seen \cap OnlyFrom(v))')
    BY <1>4, <2>3
  <2>8. s_i' <= Len(result'.sources)
    BY <1>1, <1>4
  <2> QED BY <2>5, <2>6, <2>7, <2>8 DEF SearchesOther
<1>7. BodyOf(v)'
  BY <1>4, <1>5, <1>6 DEF BodyOf, SearchesSource, SearchesHeader
<1>8. SourcesTyped' /\ {s_phase, s_phase'} \subseteq SourcesActive
  <2>1. <<t>> \in Seq(Vertex)
    OBVIOUS
  <2> QED BY <1>1, <1>4, <2>1 DEF SourcesTyped, SourcesActive
<1> QED BY <1>2, <1>4, <1>7, <1>8, SourcesWithin

LEMMA SourcesPopExtra ==
  ASSUME SourcesStepped, Sources!PopExtra
  PROVE  SourcesInv'
<1> USE DEF SourcesStepped
<1>1. s_phase = "searching" /\ s_stack # <<>> /\ SourcesTyped
  BY DEF Sources!PopExtra, Sources!Searching, SourcesInv
<1>2. PICK v \in Vertex :
        /\ v = result.sources[s_b] /\ s_b \in s_left
        /\ result.component[v] # {} /\ v \notin result.is_external
        /\ BodyOf(v) /\ SearchedSource(v) /\ SearchedHeader(v)
        /\ OnlyFrom(v) \in SUBSET Vertex
        /\ \A u : Sources!IsSourceOnly(u) <=> u \in OnlyFrom(v)
  BY <1>1, SourcesOthers
<1>3. PICK t \in Vertex : /\ t = result.sources[s_i] /\ t # v /\ HeaderOf(v) \in From(t)
                          /\ Search(result.graph, t, s_seen, ToSet(s_stack))
  BY <1>1, <1>2 DEF BodyOf, SearchesOther
<1>4. PICK O \in SUBSET Vertex : O = OnlyFrom(v)
  BY <1>2
<1>5. /\ s_i <= Len(result.sources) /\ s_total = s_only - Cost(s_seen \cap O)
      /\ s_count = -Cardinality(s_seen \cap O) /\ s_seen \in SUBSET Vertex /\ s_only \in Int
  BY <1>1, <1>2, <1>4 DEF BodyOf, SearchesOther, SourcesTyped
<1>6. PICK u \in Vertex : /\ u = Sources!Last(s_stack) /\ Sources!Front(s_stack) \in Seq(Vertex)
                          /\ ToSet(s_stack) = {u} \cup ToSet(Sources!Front(s_stack))
  BY <1>1, SourcesTop
<1>7. result.graph \in AdjacencyList /\ result.graph[u] \in Seq(Vertex)
  BY GraphParts DEF AdjacencyList
<1>8. /\ UNCHANGED <<s_phase, s_reach, s_left, s_b, s_reachable, s_number, s_only, s_saving,
                     s_i, s_extra, s_results>>
      /\ \/ /\ u \in s_seen /\ s_stack' = Sources!Front(s_stack)
            /\ UNCHANGED <<s_seen, s_count, s_total>>
         \/ /\ u \notin s_seen /\ s_stack' = Sources!Front(s_stack) \o result.graph[u]
            /\ s_seen' = s_seen \cup {u}
            /\ s_count' = IF u \in O THEN s_count - 1 ELSE s_count
            /\ s_total' = IF u \in O THEN s_total - true_cost[u] ELSE s_total
  BY <1>2, <1>4, <1>6 DEF Sources!PopExtra, sourcesInput
<1>9. /\ SourcesTyped' /\ Search(result.graph, t, s_seen', ToSet(s_stack'))
      /\ s_total' = s_only - Cost(s_seen' \cap O)
      /\ s_count' = -Cardinality(s_seen' \cap O)
  <2>1. CASE /\ u \in s_seen /\ s_stack' = Sources!Front(s_stack)
             /\ UNCHANGED <<s_seen, s_count, s_total>>
    <3>1. Search(result.graph, t, s_seen, ToSet(s_stack'))
      BY <1>3, <1>6, <2>1, SearchSkips
    <3>2. SourcesTyped'
      BY <1>1, <1>6, <1>8, <2>1 DEF SourcesTyped
    <3>3. s_seen' = s_seen
      BY <2>1
    <3> QED BY <1>5, <2>1, <3>1, <3>2, <3>3
  <2>2. CASE /\ u \notin s_seen /\ s_stack' = Sources!Front(s_stack) \o result.graph[u]
             /\ s_seen' = s_seen \cup {u}
             /\ s_count' = IF u \in O THEN s_count - 1 ELSE s_count
             /\ s_total' = IF u \in O THEN s_total - true_cost[u] ELSE s_total
    <3>1. /\ s_stack' \in Seq(Vertex)
          /\ ToSet(s_stack') = ToSet(Sources!Front(s_stack)) \cup ToSet(result.graph[u])
      BY <1>6, <1>7, <2>2, ConcatInSeq
    <3>2. Search(result.graph, t, s_seen \cup {u}, ToSet(s_stack'))
      BY <1>3, <1>6, <1>7, <3>1, SearchExpands
    <3>3. PICK S \in SUBSET Vertex : S = s_seen \cap O
      BY <1>5
    <3>4. u \notin S
      BY <2>2, <3>3
    <3>5. /\ Cost(S \cup {u}) = Cost(S) + true_cost[u] /\ Cost(S) \in Nat /\ true_cost[u] \in Nat
          /\ Cardinality(S \cup {u}) = Cardinality(S) + 1 /\ Cardinality(S) \in Nat
      BY <3>4, MarkOne
    <3>6. s_seen' \cap O = IF u \in O THEN S \cup {u} ELSE S
      BY <2>2, <3>3
    <3>7. s_total = s_only - Cost(S) /\ s_count = -Cardinality(S)
      BY <1>5, <3>3
    <3>8. s_total' = s_only - Cost(s_seen' \cap O) /\ s_total' \in Int
      <4>1. CASE u \in O
        <5>1. s_total' = (s_only - Cost(S)) - true_cost[u]
          BY <2>2, <3>7, <4>1
        <5>2. Cost(s_seen' \cap O) = Cost(S) + true_cost[u]
          BY <3>5, <3>6, <4>1
        <5> QED BY <1>5, <3>5, <5>1, <5>2
      <4>2. CASE u \notin O
        <5>1. s_total' = s_only - Cost(S) /\ Cost(s_seen' \cap O) = Cost(S)
          BY <2>2, <3>6, <3>7, <4>2
        <5> QED BY <1>5, <3>5, <5>1
      <4> QED BY <4>1, <4>2
    <3>9. s_count' = -Cardinality(s_seen' \cap O) /\ s_count' \in Int
      <4>1. CASE u \in O
        <5>1. s_count' = -Cardinality(S) - 1
          BY <2>2, <3>7, <4>1
        <5>2. Cardinality(s_seen' \cap O) = Cardinality(S) + 1
          BY <3>5, <3>6, <4>1
        <5> QED BY <3>5, <5>1, <5>2
      <4>2. CASE u \notin O
        <5>1. s_count' = -Cardinality(S) /\ Cardinality(s_seen' \cap O) = Cardinality(S)
          BY <2>2, <3>6, <3>7, <4>2
        <5> QED BY <3>5, <5>1
      <4> QED BY <4>1, <4>2
    <3>10. SourcesTyped'
      <4>1. s_seen' \in SUBSET Vertex
        BY <1>5, <2>2
      <4> QED BY <1>1, <1>8, <3>1, <3>8, <3>9, <4>1 DEF SourcesTyped
    <3> QED BY <2>2, <3>2, <3>8, <3>9, <3>10
  <2> QED BY <1>8, <2>1, <2>2
<1>10. SearchedSource(v)' /\ SearchedHeader(v)'
  BY <1>1, <1>2, <1>8, SourcesKept
<1>11. SearchesOther(v)'
  <2>1. OnlyFrom(v)' = O /\ From(t)' = From(t) /\ HeaderOf(v)' = HeaderOf(v)
    BY <1>4, SourcesSame
  <2>2. Cost(s_seen \cap OnlyFrom(v))' = Cost(s_seen' \cap O)
    BY <2>1 DEF Cost, true_cost
  <2>3. (\E w \in Vertex : /\ w = result.sources[s_i]
                          /\ w # v /\ HeaderOf(v) \in From(w)
                          /\ Search(result.graph, w, s_seen, ToSet(s_stack)))'
    BY <1>3, <1>8, <1>9, <2>1
  <2>4. s_total' = s_only' - Cost(s_seen \cap OnlyFrom(v))'
    BY <1>8, <1>9, <2>2
  <2>5. s_count' = -Cardinality((s_seen \cap OnlyFrom(v))')
    BY <1>9, <2>1
  <2>6. s_i' <= Len(result'.sources)
    BY <1>5, <1>8
  <2> QED BY <2>3, <2>4, <2>5, <2>6 DEF SearchesOther
<1>12. BodyOf(v)'
  BY <1>1, <1>8, <1>10, <1>11 DEF BodyOf, SearchesSource, SearchesHeader
<1>13. {s_phase, s_phase'} \subseteq SourcesActive
  BY <1>1, <1>8 DEF SourcesActive
<1> QED BY <1>2, <1>8, <1>9, <1>12, <1>13, SourcesWithin

(* What the header reaches is part of what a source that includes it does. *)
LEMMA OnlyFromSource ==
  ASSUME CalledRight, OthersCalledRight, HeadersIncluded(project),
         NEW v \in ToSet(result.sources), result.component[v] # {}
  PROVE  /\ v \in Vertex /\ OnlyFrom(v) \in SUBSET Vertex
         /\ Cost(From(v)) - Cost(From(HeaderOf(v))) = Cost(OnlyFrom(v))
         /\ Cardinality(From(v)) - Cardinality(From(HeaderOf(v))) = Cardinality(OnlyFrom(v))
<1>1. PICK h \in Vertex : h = HeaderOf(v) /\ h \in result.component[v]
  BY SourceInResult, GraphParts
<1>2. v \in Vertex /\ h \in ToSet(result.graph[v])
  BY <1>1, HeadersInResult, SourceInResult
<1>3. From(v) \in SUBSET Vertex /\ From(h) \in SUBSET Vertex /\ v \in From(v)
      /\ IsFiniteSet(From(v)) /\ IsFiniteSet(From(h)) /\ result.graph \in AdjacencyList
  BY <1>2, GraphParts
<1>4. h \in From(v)
  BY <1>2, <1>3, ReachesSuccessors DEF From
<1>5. From(h) \subseteq From(v)
  BY <1>2, <1>3, <1>4, ReachesFurther DEF From
<1>6. OnlyFrom(v) = From(v) \ From(h)
  BY <1>1 DEF OnlyFrom
<1>7. Cost(From(v)) - Cost(From(h)) = Cost(OnlyFrom(v))
  <2>1. Cost(From(h) \cup From(v)) = Cost(From(h)) + Cost(From(v) \ From(h))
    BY <1>3, Costs
  <2>2. From(h) \cup From(v) = From(v)
    BY <1>5
  <2>3. Cost(From(h)) \in Nat /\ Cost(OnlyFrom(v)) \in Nat
    BY <1>3, <1>6, Costs
  <2>4. Cost(From(v)) = Cost(From(h)) + Cost(OnlyFrom(v))
    BY <1>6, <2>1, <2>2
  <2>5. \A k, m, n \in Nat : k = m + n => k - m = n
    OBVIOUS
  <2>6. Cost(From(v)) \in Nat
    BY <1>3, Costs
  <2> QED BY <2>3, <2>4, <2>5, <2>6
<1>8. Cardinality(From(v)) - Cardinality(From(h)) = Cardinality(OnlyFrom(v))
  <2>1. From(v) \cap From(h) = From(h)
    BY <1>5
  <2> QED BY <1>3, <1>6, <2>1, FS_Difference
<1> QED BY <1>1, <1>2, <1>3, <1>6, <1>7, <1>8

LEMMA SourcesExtra ==
  ASSUME SourcesStepped, Sources!Searched
  PROVE  SourcesInv'
<1> USE DEF SourcesStepped
<1>1. s_phase = "searching" /\ SourcesTyped /\ (s_stack = <<>> \/ ~(s_count < s_number))
  BY DEF Sources!Searched, Sources!Searching, SourcesInv
<1>2. PICK v \in Vertex :
        /\ v = result.sources[s_b] /\ s_b \in s_left
        /\ result.component[v] # {} /\ v \notin result.is_external
        /\ BodyOf(v) /\ SearchedSource(v) /\ SearchedHeader(v)
        /\ OnlyFrom(v) \in SUBSET Vertex
  BY <1>1, SourcesOthers
<1>3. PICK t \in Vertex : /\ t = result.sources[s_i] /\ t # v /\ HeaderOf(v) \in From(t)
                          /\ Search(result.graph, t, s_seen, ToSet(s_stack))
  BY <1>1, <1>2 DEF BodyOf, SearchesOther
<1>4. PICK O \in SUBSET Vertex : O = OnlyFrom(v)
  BY <1>2
<1>5. /\ s_i <= Len(result.sources) /\ s_total = s_only - Cost(s_seen \cap O)
      /\ s_count = -Cardinality(s_seen \cap O) /\ s_seen \in SUBSET Vertex /\ s_only \in Int
      /\ s_total \in Int /\ s_extra \in Int
  BY <1>1, <1>2, <1>4 DEF BodyOf, SearchesOther, SourcesTyped
<1>6. /\ s_phase' = "extra" /\ s_stack' = <<>> /\ s_i' = s_i + 1 /\ s_extra' = s_extra + s_total
      /\ UNCHANGED <<s_reach, s_left, s_b, s_reachable, s_number, s_only, s_saving, s_seen,
                     s_count, s_total, s_results>>
  BY DEF Sources!Searched
<1>7. ASSUME HeadersIncluded(project) PROVE s_total = AddedTo(v, t)
  <2>1. v \in ToSet(result.sources)
    BY <1>1, <1>2, SourcePositions DEF SourcesTyped
  <2>2. s_only = Cost(O) /\ s_number = Cardinality(O)
    BY <1>1, <1>2, <1>4, <1>7, <2>1, OnlyFromSource DEF SearchedSource, SearchedHeader
  <2>3. AddedTo(v, t) = Cost(O \ From(t))
    BY <1>3, <1>4 DEF AddedTo
  <2>4. IsFiniteSet(O) /\ IsFiniteSet(s_seen \cap O)
    BY <1>5, VertexFinite, FS_Subset
  <2>5. CASE s_stack = <<>>
    <3>1. Search(result.graph, t, s_seen, {})
      BY <1>3, <2>5, SingletonQueue
    <3>2. s_seen = From(t)
      BY <3>1, SearchEnds DEF From
    <3>3. PICK S \in SUBSET Vertex : S = s_seen \cap O
      BY <1>5
    <3>4. Cost(S \cup O) = Cost(S) + Cost(O \ S) /\ S \cup O = O /\ O \ S = O \ From(t)
      BY <3>2, <3>3, Costs
    <3>5. O \ From(t) \in SUBSET Vertex
      OBVIOUS
    <3>6. Cost(S) \in Nat /\ Cost(O \ From(t)) \in Nat
      BY <3>5, Costs
    <3>7. Cost(O) = Cost(S) + Cost(O \ From(t)) /\ s_total = Cost(O) - Cost(S)
      BY <1>5, <2>2, <3>3, <3>4
    <3>8. \A k, m, n \in Nat : k = m + n => k - m = n
      OBVIOUS
    <3>9. Cost(O) \in Nat
      BY Costs
    <3> QED BY <2>3, <3>6, <3>7, <3>8, <3>9
  <2>6. CASE ~(s_count < s_number)
    <3>1. Cardinality(O) = 0
      <4>1. Cardinality(O) \in Nat /\ Cardinality(s_seen \cap O) \in Nat
        BY <2>4, FS_CardinalityType
      <4> QED BY <1>5, <2>2, <2>6, <4>1
    <3>2. O = {}
      BY <2>4, <3>1, FS_EmptySet
    <3>3. s_seen \cap O = {} /\ O \ From(t) = {}
      BY <3>2
    <3> QED BY <1>5, <2>2, <2>3, <3>2, <3>3, Costs
  <2> QED BY <1>1, <2>5, <2>6
<1>8. /\ s_extra' \in Int
      /\ HeadersIncluded(project) => s_extra' = s_extra + AddedTo(v, result.sources[s_i])
  BY <1>3, <1>5, <1>6, <1>7
<1>9. s_phase \in {"extra", "searching"}
  BY <1>1
<1> QED BY <1>2, <1>5, <1>6, <1>8, <1>9, SourcesNextOne

LEMMA SourcesPush ==
  ASSUME SourcesStepped, Sources!Push
  PROVE  SourcesInv'
<1> USE DEF SourcesStepped
<1>1. s_phase = "extra" /\ s_phase \in SourcesActive /\ SourcesTyped
  BY DEF Sources!Push, SourcesActive, SourcesInv
<1>2. PICK v \in Vertex : Sources!source = v
  BY <1>1, SourceOfBody
<1>3. s_saving \in Nat /\ s_extra \in Int
  BY <1>1 DEF SourcesTyped
<1>4. PICK reported \in Seq(SourcesResult) : Sources!Return(reported)
  <2> DEFINE r == [source |-> v, saving |-> s_saving, extra_cost |-> s_extra]
  <2>1. Sources!Return(<<r>>) \/ Sources!Return(<<>>)
    BY <1>2 DEF Sources!Push
  <2>2. r \in SourcesResult
    BY <1>3 DEF SourcesResult
  <2>3. <<r>> \in Seq(SourcesResult) /\ <<>> \in Seq(SourcesResult)
    <3> HIDE DEF r
    <3> QED BY <2>2
  <2> HIDE DEF r
  <2> QED BY <2>1, <2>3
<1> QED BY <1>1, <1>4, SourcesReturn

LEMMA SourcesStep ==
  ASSUME SourcesStepped, Sources!Call \/ Sources!Next
  PROVE  SourcesInv'
BY SourcesCall, SourcesNotCandidate, SourcesBegin, SourcesPopSource, SourcesTooCheap,
   SourcesSearched, SourcesPopHeader, SourcesHeaderSearched, SourcesNotAffected,
   SourcesSearch, SourcesPopExtra, SourcesExtra, SourcesPush DEF Sources!Next

LEMMA SourcesSameState ==
  ASSUME CalledRight, SourcesInv, UNCHANGED <<project, result, sourcesVars>>,
         stage' \in BeforeSources => stage \in BeforeSources
  PROVE  SourcesInv'
<1> USE DEF sourcesVars
<1>1. SourcesTyped' /\ SourcesLoop'
  <2>1. \A u : From(u)' = From(u)
    BY SourcesSame
  <2>2. Sources!NotMarked' = Sources!NotMarked
    BY DEF Sources!NotMarked
  <2> QED BY <2>1, <2>2 DEF SourcesInv, SourcesTyped, SourcesLoop
<1>2. ASSUME NEW v \in Vertex, BodyOf(v) PROVE BodyOf(v)'
  <2>1. /\ From(v)' = From(v) /\ From(HeaderOf(v))' = From(HeaderOf(v))
        /\ HeaderOf(v)' = HeaderOf(v) /\ OnlyFrom(v)' = OnlyFrom(v)
        /\ \A t : From(t)' = From(t)
    BY SourcesSame DEF From, HeaderOf
  <2>2. /\ Cost(s_reachable.SOURCE)' = Cost(s_reachable.SOURCE)
        /\ Cost(s_reachable.HEADER)' = Cost(s_reachable.HEADER)
        /\ Cost(From(v))' = Cost(From(v))
        /\ Cost(s_seen \cap OnlyFrom(v))' = Cost(s_seen \cap OnlyFrom(v))
    BY <2>1 DEF Cost, true_cost
  <2>3. AddedUpTo(v, s_i - 1)' = AddedUpTo(v, s_i - 1)
    <3>1. PICK k : k = s_i - 1
      OBVIOUS
    <3>2. AddedUpTo(v, s_i - 1)' = AddedUpTo(v, k)'
      BY <3>1 DEF AddedUpTo
    <3> QED BY <3>1, <3>2, SourcesSame
  <2>4. SearchesSource(v)'
    BY <1>2, <2>2 DEF BodyOf, SearchesSource
  <2>5. SearchedSource(v)'
    BY <1>2, <2>1, <2>2 DEF BodyOf, SearchedSource
  <2>6. SearchesHeader(v)'
    BY <1>2, <2>1 DEF BodyOf, SearchesHeader
  <2>7. SearchedHeader(v)'
    BY <1>2, <2>1, <2>3, SourcesSame DEF BodyOf, SearchedHeader
  <2>8. SearchesOther(v)'
    BY <1>2, <2>1, <2>2 DEF BodyOf, SearchesOther
  <2> QED BY <2>4, <2>5, <2>6, <2>7, <2>8 DEF BodyOf
<1>3. SourcesBody'
  <2>1. SUFFICES ASSUME s_phase \in SourcesActive PROVE SourcesBody'
    BY DEF SourcesBody
  <2>2. PICK v \in Vertex : /\ v = result.sources[s_b] /\ s_b \in s_left
                            /\ result.component[v] # {} /\ v \notin result.is_external
                            /\ BodyOf(v)
    BY <2>1, SourceOfBody
  <2>3. BodyOf(v)'
    BY <1>2, <2>2
  <2> QED BY <2>2, <2>3 DEF SourcesBody
<1> QED BY <1>1, <1>3 DEF SourcesInv

LEMMA SourcesAlways == Spec => []SourcesInv
<1>1. Sources!Init => SourcesInv
  BY SourcesInit
<1>2. Init => SourcesInv
  BY <1>1 DEF Init
<1>3. CalledRight /\ OthersCalledRight /\ SourcesInv /\ [Next]_vars
        => (Sources!Init)' \/ SourcesInv'
  <2> SUFFICES ASSUME CalledRight, OthersCalledRight, SourcesInv, [Next]_vars
               PROVE  (Sources!Init)' \/ SourcesInv'
    OBVIOUS
  <2>1. CASE Builds
    <3>1. Sources!Init /\ UNCHANGED sourcesVars
      BY <2>1 DEF Builds, OthersCalledRight, BeforeSources, BeforePch, BeforeIncludes,
                  NotBuilt, analyses
    <3> QED BY <3>1 DEF Sources!Init, Sources!NotMarked, sourcesVars
  <2>2. CASE UNCHANGED resultVars
    <3>1. UNCHANGED <<project, result>>
      BY <2>2, Steps DEF resultVars
    <3>2. stage \in BeforeSources => s_phase = "ready"
      BY DEF OthersCalledRight, Sources!Init
    <3>3. CASE /\ UNCHANGED sourcesVars
               /\ (stage' \in BeforeSources => stage \in BeforeSources)
      BY <3>1, <3>3, SourcesSameState
    <3>4. CASE stage' \notin BeforeSources /\ (Sources!Call \/ Sources!Next)
      BY <3>1, <3>4, SourcesStep DEF SourcesStepped
    <3> QED BY <2>2, <3>3, <3>4, OtherSteps
            DEF Builds, analyses, BeforeOrder, BeforeSources, BeforePch, BeforeIncludes, NotBuilt
  <2> QED BY <2>1, <2>2, OtherSteps
<1> QED BY <1>1, <1>2, <1>3, CalledRightAlways, OthersCalledRightAlways, PTL DEF Spec

(* What the loop has to report of a source.                                *)
LEMMA SourceOutcome ==
  ASSUME CalledRight, OthersCalledRight,
         NEW p \in DOMAIN result.sources, NEW v, v = result.sources[p]
  PROVE  LET saving == Cost(From(v)) - AddedUpTo(v, Len(result.sources))
             outcome ==
               IF result.component[v] # {} /\ v \notin result.is_external
                  /\ saving >= minimum_token_count_cut_off
               THEN <<[source |-> v, saving |-> Cost(From(v)),
                       extra_cost |-> AddedUpTo(v, Len(result.sources))]>>
               ELSE <<>>
         IN  /\ s_phase # "ready" /\ p \in s_left /\ s_left' = s_left \ {p}
             /\ s_results' = s_results \o outcome /\ s_phase' # "ready"
             => Sources!Loop!Body(p)
<1> DEFINE added == AddedUpTo(v, Len(result.sources))
           saving == Cost(From(v)) - added
           outcome ==
               IF result.component[v] # {} /\ v \notin result.is_external
                  /\ saving >= minimum_token_count_cut_off
               THEN <<[source |-> v, saving |-> Cost(From(v)), extra_cost |-> added]>>
               ELSE <<>>
           out == [q \in DOMAIN sourcesInput.sources |->
                     LET s == sourcesInput.sources[q]
                         cost == Sources!CostOf(Sources!Reachable(sourcesInput.graph, s)) IN
                     IF Sources!IsCandidate(s)
                        /\ Sources!TotalSaving(q) >= sourcesInput.minimum_token_count_cut_off
                     THEN <<[source |-> s, saving |-> cost,
                             extra_cost |-> cost - Sources!TotalSaving(q)]>>
                     ELSE <<>>]
<1>1. v \in Vertex /\ Len(result.sources) \in Nat
  BY SourcePositions
<1>2. Cost(From(v)) \in Nat /\ added \in Nat
  <2>1. From(v) \in SUBSET Vertex /\ Len(result.sources) \in 0..Len(result.sources)
    BY <1>1, GraphParts
  <2> QED BY <1>1, <2>1, Costs, AddedSums
<1>3. /\ sourcesInput.sources = result.sources /\ sourcesInput.graph = result.graph
      /\ sourcesInput.minimum_token_count_cut_off = minimum_token_count_cut_off
  BY DEF sourcesInput
<1>4. out[p] = outcome
  <2>1. CASE result.component[v] # {}
    <3>1. Sources!TotalSaving(p) = saving
      BY <2>1, TotalSavingIs
    <3>2. Sources!CostOf(Sources!Reachable(result.graph, v)) = Cost(From(v))
      BY SourcesNames
    <3>3. Cost(From(v)) - saving = added
      <4> HIDE DEF added
      <4> QED BY <1>2
    <3> HIDE DEF saving, added
    <3> QED BY <1>3, <3>1, <3>2, <3>3, SourcesNames
  <2>2. CASE result.component[v] = {}
    <3>1. ~Sources!IsCandidate(v)
      BY <2>2, SourcesNames
    <3> QED BY <1>3, <2>2, <3>1
  <2> QED BY <2>1, <2>2
<1> HIDE DEF outcome
<1>5. ASSUME s_phase # "ready", p \in s_left, s_left' = s_left \ {p},
             s_results' = s_results \o outcome, s_phase' # "ready"
      PROVE  Sources!Loop!Body(p)
  <2>1. s_results' = s_results \o out[p]
    BY <1>4, <1>5
  <2> QED BY <1>5, <2>1 DEF Sources!Loop!Body
<1> QED BY <1>5 DEF outcome

LEMMA SourcesImplements ==
  ASSUME CalledRight, OthersCalledRight, HeadersIncluded(project), SourcesInv, [Next]_vars
  PROVE  [Sources!Loop!Next]_<<s_phase # "ready", s_left, s_results>>
<1> DEFINE n == Len(result.sources)
           kept == UNCHANGED <<s_phase # "ready", s_left, s_results>>
<1>1. SourcesTyped /\ SourcesLoop
  BY DEF SourcesInv
<1>2. CASE UNCHANGED sourcesVars
  BY <1>2 DEF sourcesVars
<1>3. CASE Sources!Call /\ UNCHANGED resultVars
  <2>1. /\ s_phase = "ready" /\ s_left = {} /\ s_results = <<>>
        /\ s_phase' = "idle" /\ s_left' = DOMAIN result'.sources /\ s_results' = <<>>
    BY <1>1, <1>3 DEF Sources!Call, SourcesLoop, sourcesInput, resultVars
  <2> QED BY <2>1 DEF Sources!Loop!Next, Sources!Loop!Call, Sources!Loop!Before,
                      Sources!Loop!Begun, sourcesInput
<1>4. ASSUME NEW p \in s_left, Sources!NotCandidate(p) PROVE Sources!Loop!Next
  <2>1. PICK v : v = result.sources[p] /\ p \in DOMAIN result.sources
    BY <1>1 DEF SourcesTyped
  <2>2. /\ s_phase = "idle" /\ s_phase' = "idle" /\ s_left' = s_left \ {p}
        /\ s_results' = s_results
        /\ ~(result.component[v] # {} /\ v \notin result.is_external)
    BY <1>4, <2>1, SourcesNames DEF Sources!NotCandidate, sourcesInput
  <2>3. s_results' = s_results \o <<>>
    BY <1>1, <2>2 DEF SourcesTyped
  <2>4. Sources!Loop!Body(p)
    BY <2>1, <2>2, <2>3, SourceOutcome
  <2> QED BY <2>4 DEF Sources!Loop!Next
<1>5. CASE Sources!TooCheap
  <2>1. s_phase = "source" /\ s_phase \in SourcesActive /\ s_stack = <<>>
    BY <1>5 DEF Sources!TooCheap, SourcesActive
  <2>2. PICK v \in Vertex : v = result.sources[s_b] /\ s_b \in s_left /\ BodyOf(v)
    BY <2>1, SourceOfBody
  <2>3. PICK p \in DOMAIN result.sources : p = s_b
    BY <1>1, <2>2 DEF SourcesTyped
  <2>4. s_saving = Cost(From(v))
    <3>1. /\ Search(result.graph, v, s_reachable.SOURCE, {})
          /\ s_saving = Cost(s_reachable.SOURCE)
      BY <2>1, <2>2, SingletonQueue DEF BodyOf, SearchesSource
    <3> QED BY <3>1, SearchEnds DEF From
  <2>5. s_saving \in Nat /\ minimum_token_count_cut_off \in Nat /\ AddedUpTo(v, n) \in Nat
    <3>1. n \in 0..n
      BY SourcePositions
    <3>2. AddedUpTo(v, n) \in Nat
      BY <3>1, AddedSums
    <3>3. minimum_token_count_cut_off \in Nat
      BY InputsTyped DEF pchInput, Pch!Input
    <3> QED BY <1>1, <3>2, <3>3 DEF SourcesTyped
  <2>6. s_saving < minimum_token_count_cut_off
    BY <1>5 DEF Sources!TooCheap, sourcesInput
  <2>7. ~(Cost(From(v)) - AddedUpTo(v, n) >= minimum_token_count_cut_off)
    BY <2>4, <2>5, <2>6
  <2>8. /\ s_phase # "ready" /\ s_phase' # "ready" /\ s_left' = s_left \ {p}
        /\ s_results' = s_results \o <<>>
    BY <1>5, <2>1, <2>3 DEF Sources!TooCheap, Sources!Return
  <2>9. Sources!Loop!Body(p)
    BY <2>2, <2>3, <2>7, <2>8, SourceOutcome
  <2> QED BY <2>2, <2>3, <2>9 DEF Sources!Loop!Next
<1>6. CASE Sources!Push
  <2>1. s_phase = "extra" /\ s_phase \in SourcesActive /\ s_i > n
    BY <1>6 DEF Sources!Push, SourcesActive, sourcesInput
  <2>2. PICK v \in Vertex : /\ v = result.sources[s_b] /\ s_b \in s_left
                            /\ Sources!source = v
                            /\ result.component[v] # {} /\ v \notin result.is_external
                            /\ BodyOf(v)
    BY <2>1, SourceOfBody
  <2>3. PICK p \in DOMAIN result.sources : p = s_b
    BY <1>1, <2>2 DEF SourcesTyped
  <2>4. s_saving = Cost(From(v)) /\ s_extra = AddedUpTo(v, n)
    <3>1. /\ s_saving = Cost(From(v)) /\ s_extra = AddedUpTo(v, s_i - 1)
          /\ s_i \in 1..(n + 1)
      BY <2>1, <2>2 DEF BodyOf, SearchedSource, SearchedHeader
    <3>2. s_i - 1 = n
      BY <2>1, <3>1, SourcePositions
    <3> QED BY <3>1, <3>2
  <2>5. /\ s_phase # "ready" /\ s_phase' # "ready" /\ s_left' = s_left \ {p}
        /\ s_results' = s_results \o
             (IF s_saving - s_extra >= minimum_token_count_cut_off
              THEN <<[source |-> v, saving |-> s_saving, extra_cost |-> s_extra]>> ELSE <<>>)
    BY <1>6, <2>1, <2>2, <2>3 DEF Sources!Push, Sources!Return, sourcesInput
  <2>6. Sources!Loop!Body(p)
    BY <2>2, <2>3, <2>4, <2>5, SourceOutcome
  <2> QED BY <2>2, <2>3, <2>6 DEF Sources!Loop!Next
<1>7. CASE \/ \E p \in s_left : Sources!Begin(p)
           \/ Sources!PopSource \/ Sources!SourceSearched \/ Sources!PopHeader
           \/ Sources!HeaderSearched \/ Sources!NotAffected \/ Sources!Search
           \/ Sources!PopExtra \/ Sources!Searched
  <2>1. s_phase # "ready" /\ s_phase' # "ready" /\ UNCHANGED <<s_left, s_results>>
    BY <1>7 DEF Sources!Begin, Sources!PopSource, Sources!SourceSearched, Sources!PopHeader,
                Sources!HeaderSearched, Sources!NotAffected, Sources!Search, Sources!PopExtra,
                Sources!Searched, Sources!Skip, Sources!Mark, Sources!MoreSources,
                Sources!Searching
  <2> QED BY <2>1
<1> QED BY <1>2, <1>3, <1>4, <1>5, <1>6, <1>7, OtherSteps DEF Sources!Next, Builds, analyses

(* The sources that run() reports as unnecessary are those whose removal   *)
(* makes the whole project cheaper by what run() asks for, each once, with *)
(* what that costs the other sources, when every source includes its       *)
(* header.                                                                 *)
THEOREM UnnecessaryReported == Spec /\ HeadersIncluded(project) => FindsUnnecessary
<1>1. Init => Sources!Loop!Init
  BY DEF Init, Sources!Init, Sources!Loop!Init, Sources!Loop!Before
<1>2. CalledRight /\ OthersCalledRight /\ HeadersIncluded(project) /\ SourcesInv /\ [Next]_vars
        => [Sources!Loop!Next]_<<s_phase # "ready", s_left, s_results>>
  BY SourcesImplements
<1> QED BY <1>1, <1>2, CalledRightAlways, OthersCalledRightAlways, HypothesesKept,
           SourcesAlways, PTL
        DEF Spec, FindsUnnecessary, Sources!FindsUnnecessary, Sources!Loop!Spec

-----------------------------------------------------------------------------
(***************************************************************************)
(* A round of Bellman-Ford.  What the recursive function behind it         *)
(* satisfies: the edges that leave a vertex are relaxed after those that   *)
(* leave the vertices before it.                                           *)
(***************************************************************************)
RelaxedFrom(d, v) ==
  [u \in Order!NewVertex |->
     IF u \in Order!Targets(v) THEN Order!Min({d[u], d[v] + Order!weight(v, u)}) ELSE d[u]]

After(d, k, h) ==
  h = [v \in 0..k |-> IF v = 0 THEN d ELSE RelaxedFrom(h[v - 1], v)]

LEMMA RelaxedIs ==
  ASSUME NEW d
  PROVE  \E h : After(d, Order!Root, h) /\ Order!Relaxed(d) = h[Order!Root]
<1> DEFINE Bad == {k \in Nat : ~ \E h : After(d, k, h)}
<1>1. \E h : After(d, 0, h)
  <2> DEFINE h == [v \in 0..0 |-> d]
  <2>1. h = [v \in 0..0 |-> IF v = 0 THEN d ELSE RelaxedFrom(h[v - 1], v)]
    OBVIOUS
  <2> HIDE DEF h
  <2> QED BY <2>1 DEF After
<1>2. ASSUME NEW k \in Nat, NEW h, After(d, k, h)
      PROVE  \E j : After(d, k + 1, j)
  <2> DEFINE step(v) == IF v = 0 THEN d ELSE RelaxedFrom(h[v - 1], v)
             j == [v \in 0..(k + 1) |-> step(v)]
  <2>1. \A v \in 0..k : h[v] = step(v) /\ v \in 0..(k + 1)
    <3>1. h = [v \in 0..k |-> step(v)]
      BY <1>2 DEF After
    <3> HIDE DEF step
    <3> QED BY <3>1
  <2>2. \A v \in 0..k : j[v] = h[v]
    <3> HIDE DEF step
    <3> QED BY <2>1
  <2>3. ASSUME NEW v \in 0..(k + 1)
        PROVE  step(v) = IF v = 0 THEN d ELSE RelaxedFrom(j[v - 1], v)
    <3>1. CASE v = 0
      BY <3>1
    <3>2. CASE v # 0
      <4>1. v - 1 \in 0..k
        BY <3>2
      <4> HIDE DEF j
      <4>2. j[v - 1] = h[v - 1]
        BY <2>2, <4>1
      <4> QED BY <3>2, <4>2
    <3> QED BY <3>1, <3>2
  <2>4. j = [v \in 0..(k + 1) |-> IF v = 0 THEN d ELSE RelaxedFrom(j[v - 1], v)]
    <3>1. j = [v \in 0..(k + 1) |-> step(v)]
      OBVIOUS
    <3> HIDE DEF j, step
    <3> QED BY <2>3, <3>1
  <2> HIDE DEF j
  <2> QED BY <2>4 DEF After
<1>3. Bad = {}
  <2> SUFFICES ASSUME Bad # {} PROVE FALSE
    OBVIOUS
  <2>1. PICK n \in Bad : \A m \in Bad : n <= m
    <3>1. Bad \in SUBSET Nat
      OBVIOUS
    <3> HIDE DEF Bad
    <3> QED BY Least, <3>1
  <2>2. n \in Nat /\ ~ \E h : After(d, n, h)
    OBVIOUS
  <2>3. n # 0
    BY <1>1, <2>2
  <2>4. n - 1 \in Nat /\ n - 1 \notin Bad
    BY <2>1, <2>2, <2>3
  <2>5. PICK h : After(d, n - 1, h)
    BY <2>4
  <2>6. \E j : After(d, (n - 1) + 1, j)
    BY <2>4, <2>5, <1>2
  <2>7. (n - 1) + 1 = n
    BY <2>2
  <2> QED BY <2>2, <2>6, <2>7
<1>4. Order!Root \in Nat
  BY RootIsNew
<1>5. \E h : After(d, Order!Root, h)
  BY <1>3, <1>4
<1>6. Order!Relaxed(d) = (CHOOSE h : After(d, Order!Root, h))[Order!Root]
  BY Zenon DEF Order!Relaxed, After, RelaxedFrom
<1> QED
  <2>1. After(d, Order!Root, CHOOSE h : After(d, Order!Root, h))
    BY <1>5
  <2> QED BY <1>6, <2>1, Zenon

(* Distances that all edges allow.                                         *)
Allowed ==
  {f \in [Order!NewVertex -> Int] :
     \A v \in Order!NewVertex : \A u \in Order!Targets(v) : f[u] <= f[v] + Order!weight(v, u)}

LEMMA MinOfTwo ==
  ASSUME NEW a \in Int, NEW b \in Int
  PROVE  Order!Min({a, b}) = IF a <= b THEN a ELSE b
<1>1. Order!Min({a, b}) = CHOOSE x \in {a, b} : \A y \in {a, b} : x <= y
  BY DEF Order!Min
<1> QED BY <1>1

(* A round relaxes every edge, and takes no distance below those.          *)
LEMMA RoundRelaxes ==
  ASSUME CalledRight, NEW d \in [Order!NewVertex -> Int]
  PROVE  /\ Order!Relaxed(d) \in [Order!NewVertex -> Int]
         /\ \A u \in Order!NewVertex : Order!Relaxed(d)[u] <= d[u]
         /\ \A v \in Order!NewVertex : \A u \in Order!Targets(v) :
              Order!Relaxed(d)[u] <= d[v] + Order!weight(v, u)
         /\ \A f \in Allowed : (\A u \in Order!NewVertex : f[u] <= d[u]) =>
              \A u \in Order!NewVertex : f[u] <= Order!Relaxed(d)[u]
<1> DEFINE N == Order!NewVertex  Root == Order!Root
           W(v, u) == Order!weight(v, u)  T(v) == Order!Targets(v)
<1>1. PICK h : After(d, Root, h) /\ Order!Relaxed(d) = h[Root]
  BY RelaxedIs
<1>2. Root \in Nat /\ N = 1..Root /\ Root # 0
  BY RootIsNew
<1>3. \A v \in N : T(v) \in SUBSET N
  BY StrongComponents DEF Order!NewVertex
<1>4. \A v, u : W(v, u) \in Int
  BY DEF Order!weight
<1>5. \A v \in 0..Root : h[v] = IF v = 0 THEN d ELSE RelaxedFrom(h[v - 1], v)
  <2> DEFINE step(v) == IF v = 0 THEN d ELSE RelaxedFrom(h[v - 1], v)
  <2>1. h = [v \in 0..Root |-> step(v)]
    BY <1>1 DEF After
  <2> HIDE DEF step
  <2>2. \A v \in 0..Root : h[v] = step(v)
    BY <2>1
  <2> QED BY <2>2 DEF step
<1> DEFINE Good(k) ==
             /\ h[k] \in [N -> Int]
             /\ \A u \in N : h[k][u] <= d[u]
             /\ \A v \in 1..k : \A u \in T(v) : h[k][u] <= d[v] + W(v, u)
             /\ \A f \in Allowed : (\A u \in N : f[u] <= d[u]) => \A u \in N : f[u] <= h[k][u]
           Bad == {k \in 0..Root : ~Good(k)}
<1>6. Good(0)
  <2>1. h[0] = d
    BY <1>2, <1>5
  <2> QED BY <2>1, \A u \in N : d[u] \in Int
<1>7. ASSUME NEW k \in 1..Root, Good(k - 1)
      PROVE  Good(k)
  <2> DEFINE c == h[k - 1]
  <2>1. /\ c \in [N -> Int] /\ k \in N /\ \A u \in N : c[u] \in Int
        /\ \A u \in N : d[u] \in Int
    BY <1>2, <1>7
  <2>2. h[k] = RelaxedFrom(c, k)
    BY <1>2, <1>5
  <2>3. ASSUME NEW u \in N
        PROVE  /\ h[k][u] \in Int /\ h[k][u] <= c[u]
               /\ h[k][u] \in {c[u], c[k] + W(k, u)}
               /\ u \notin T(k) => h[k][u] = c[u]
               /\ u \in T(k) => h[k][u] <= c[k] + W(k, u)
    <3>1. h[k][u] = IF u \in T(k) THEN Order!Min({c[u], c[k] + W(k, u)}) ELSE c[u]
      BY <2>2 DEF RelaxedFrom
    <3>2. c[u] \in Int /\ c[k] + W(k, u) \in Int
      BY <1>4, <2>1
    <3>3. Order!Min({c[u], c[k] + W(k, u)}) =
            IF c[u] <= c[k] + W(k, u) THEN c[u] ELSE c[k] + W(k, u)
      BY <3>2, MinOfTwo
    <3> HIDE DEF c, W, T
    <3> QED BY <3>1, <3>2, <3>3
  <2>4. h[k] \in [N -> Int]
    <3>1. h[k] = [u \in N |-> h[k][u]]
      BY <2>2 DEF RelaxedFrom
    <3> QED BY <2>3, <3>1
  <2>5. /\ \A u \in N : c[u] <= d[u]
        /\ \A v \in 1..(k - 1) : \A u \in T(v) : c[u] <= d[v] + W(v, u)
        /\ \A f \in Allowed : (\A u \in N : f[u] <= d[u]) => \A u \in N : f[u] <= c[u]
    BY <1>7
  <2> HIDE DEF c
  <2>6. \A u \in N : h[k][u] <= d[u]
    BY <2>1, <2>3, <2>5
  <2>7. ASSUME NEW v \in 1..k, NEW u \in T(v)
        PROVE  h[k][u] <= d[v] + W(v, u)
    <3>1. v \in N /\ u \in N
      <4>1. v \in N
        BY <1>2
      <4> QED BY <1>3, <4>1
    <3>2. CASE v = k
      <4>1. h[k][u] <= c[k] + W(k, u) /\ c[k] <= d[k]
        BY <2>1, <2>3, <2>5, <3>1, <3>2
      <4>2. \A a, b, x, y \in Int : a <= b + x /\ b <= y => a <= y + x
        OBVIOUS
      <4> QED BY <1>4, <2>1, <2>3, <3>1, <3>2, <4>1, <4>2
    <3>3. CASE v # k
      <4>1. v \in 1..(k - 1)
        BY <3>3
      <4>2. h[k][u] <= c[u] /\ c[u] <= d[v] + W(v, u)
        BY <2>3, <2>5, <3>1, <4>1
      <4>3. \A a, b, x, y \in Int : a <= b /\ b <= y + x => a <= y + x
        OBVIOUS
      <4> QED BY <1>4, <2>1, <2>3, <3>1, <4>2, <4>3
    <3> QED BY <3>2, <3>3
  <2>8. ASSUME NEW f \in Allowed, \A u \in N : f[u] <= d[u], NEW u \in N
        PROVE  f[u] <= h[k][u]
    <3>1. /\ f[u] <= c[u] /\ f[k] <= c[k] /\ f[u] \in Int /\ f[k] \in Int
          /\ u \in T(k) => f[u] <= f[k] + W(k, u)
      BY <2>1, <2>5, <2>8 DEF Allowed
    <3>2. u \in T(k) => f[u] <= c[k] + W(k, u)
      <4>1. \A a, b, x, y \in Int : a <= b + x /\ b <= y => a <= y + x
        OBVIOUS
      <4> QED BY <1>4, <2>1, <3>1, <4>1
    <3>3. /\ u \notin T(k) => h[k][u] = c[u]
          /\ h[k][u] \in {c[u], c[k] + W(k, u)}
      BY <2>3
    <3> HIDE DEF T, W
    <3> QED BY <3>1, <3>2, <3>3
  <2> QED BY <2>4, <2>6, <2>7, <2>8
<1>8. Bad = {}
  <2> SUFFICES ASSUME Bad # {} PROVE FALSE
    OBVIOUS
  <2>1. Bad \in SUBSET Nat
    BY <1>2
  <2>2. PICK n \in Bad : \A m \in Bad : n <= m
    <3> HIDE DEF Bad
    <3> QED BY <2>1, Least
  <2>3. n \in 0..Root /\ ~Good(n)
    OBVIOUS
  <2>4. n # 0
    <3> HIDE DEF Good
    <3> QED BY <1>6, <2>3
  <2>5. n \in 1..Root /\ n - 1 \in 0..Root /\ n - 1 \notin Bad
    <3>1. n \in Nat /\ n - 1 \in 0..Root
      BY <1>2, <2>3, <2>4
    <3> HIDE DEF Bad
    <3> QED BY <1>2, <2>2, <2>3, <2>4, <3>1
  <2>6. Good(n - 1)
    <3> HIDE DEF Good
    <3> QED BY <2>5
  <2>7. Good(n)
    <3> HIDE DEF Good
    <3> QED BY <1>7, <2>5, <2>6
  <2> HIDE DEF Good
  <2> QED BY <2>3, <2>7
<1>9. Good(Root)
  <2> HIDE DEF Good
  <2> QED BY <1>2, <1>8
<1> QED BY <1>1, <1>2, <1>9

-----------------------------------------------------------------------------
(***************************************************************************)
(* The distances are never below the depths of the new graph, and every    *)
(* round has one more vertex at its depth: after one round fewer than      *)
(* there are vertices, or when a round changes nothing, all are.           *)
(***************************************************************************)
OrderTargets == [v \in Order!NewVertex |-> Order!Targets(v)]
OrderDepth == Depth(OrderTargets, Order!strong_components)
AtDepth == {v \in Order!NewVertex : t_levels[v] = OrderDepth[v]}

DepthInv ==
  /\ t_levels \in [Order!NewVertex -> Int] /\ t_round \in Nat
  /\ t_components \in [Order!NewVertex -> SUBSET Order!NewVertex]
  /\ t_phase = "ready" => t_levels = [v \in Order!NewVertex |-> 0] /\ t_round = 0
  /\ t_phase = "relaxing" =>
       /\ \A v \in Order!NewVertex : OrderDepth[v] <= t_levels[v] /\ t_levels[v] <= 0
       /\ t_round + 1 <= Cardinality(AtDepth)
  /\ t_phase = "returned" /\ result.sources # <<>> => t_levels = OrderDepth

LEMMA OrderGraph ==
  ASSUME CalledRight
  PROVE  /\ IsFiniteSet(Order!NewVertex)
         /\ Cardinality(Order!NewVertex) = Cardinality(Vertex) + 1
         /\ OrderTargets \in [Order!NewVertex -> SUBSET Order!NewVertex]
         /\ DOMAIN OrderTargets = Order!NewVertex
         /\ InComponents(OrderTargets, Order!strong_components)
<1>1. IsFiniteSet(Order!NewVertex) /\ Cardinality(Order!NewVertex) = Cardinality(Vertex) + 1
  BY RootIsNew, VertexFinite, FS_AddElement DEF Order!NewVertex
<1>2. OrderTargets \in [Order!NewVertex -> SUBSET Order!NewVertex]
  BY StrongComponents DEF OrderTargets, Order!NewVertex
<1>3. DOMAIN OrderTargets = Order!NewVertex
  BY DEF OrderTargets
<1>4. \A S \in SUBSET Order!NewVertex : Stays(OrderTargets, S) <=> NothingLeaves(S)
  BY DEF Stays, NothingLeaves, OrderTargets
<1>5. InComponents(OrderTargets, Order!strong_components)
  BY <1>3, <1>4, StrongComponents DEF InComponents
<1> QED BY <1>1, <1>2, <1>3, <1>5

(* What is known of the depths of this graph.                              *)
LEMMA OrderDepths ==
  ASSUME CalledRight
  PROVE  /\ OrderDepth \in Feasible(OrderTargets, Order!strong_components)
         /\ OrderDepth \in [Order!NewVertex -> Int]
         /\ \A v \in Order!NewVertex : OrderDepth[v] \in Int /\ OrderDepth[v] <= 0
         /\ \A v \in Order!NewVertex : \A u \in Order!Targets(v) :
              OrderDepth[u] <= OrderDepth[v] + Down(Order!strong_components, v, u)
         /\ \A d \in Feasible(OrderTargets, Order!strong_components), v \in Order!NewVertex :
              d[v] <= OrderDepth[v]
<1>1. \A v \in Order!NewVertex : OrderTargets[v] = Order!Targets(v)
  BY DEF OrderTargets
<1> QED BY <1>1, OrderGraph, DepthFeasible DEF OrderDepth

LEMMA OrderTight ==
  ASSUME CalledRight, NEW S \in SUBSET Order!NewVertex, S # Order!NewVertex,
         \A v \in Order!NewVertex : OrderDepth[v] = 0 => v \in S
  PROVE  \E v \in S : \E u \in Order!Targets(v) \ S :
           OrderDepth[u] = OrderDepth[v] + Down(Order!strong_components, v, u)
<1>1. \A v \in Order!NewVertex : OrderTargets[v] = Order!Targets(v)
  BY DEF OrderTargets
<1> DEFINE N == Order!NewVertex  T == OrderTargets  C == Order!strong_components
<1>2. /\ IsFiniteSet(N) /\ T \in [N -> SUBSET N] /\ InComponents(T, C)
      /\ S \in SUBSET N /\ S # N /\ \A v \in N : Depth(T, C)[v] = 0 => v \in S
  BY OrderGraph DEF OrderDepth
<1>3. \E v \in S : \E u \in T[v] \ S : Depth(T, C)[u] = Depth(T, C)[v] + Down(C, v, u)
  <2> HIDE DEF N, T, C
  <2> QED BY <1>2, TightEdge
<1> QED BY <1>1, <1>3 DEF OrderDepth

(* A round that changes something has one more vertex at its depth.        *)
LEMMA RoundSettles ==
  ASSUME CalledRight, t_components = Order!strong_components,
         t_levels \in [Order!NewVertex -> Int],
         \A v \in Order!NewVertex : OrderDepth[v] <= t_levels[v] /\ t_levels[v] <= 0
  PROVE  LET r == Order!Relaxed(t_levels) IN
         /\ r \in [Order!NewVertex -> Int]
         /\ \A v \in Order!NewVertex : OrderDepth[v] <= r[v] /\ r[v] <= 0
         /\ r = t_levels => t_levels = OrderDepth
         /\ r # t_levels =>
              Cardinality({v \in Order!NewVertex : r[v] = OrderDepth[v]})
                >= Cardinality(AtDepth) + 1
<1> DEFINE r == Order!Relaxed(t_levels)  N == Order!NewVertex  f == OrderDepth
           W(v, u) == Down(Order!strong_components, v, u)
           settled == {v \in N : r[v] = f[v]}
<1>1. \A v, u : Order!weight(v, u) = W(v, u) /\ W(v, u) \in Int
  BY DEF Order!weight, Down
<1>2. /\ f \in [N -> Int]
      /\ \A v \in N : f[v] \in Int /\ f[v] <= 0
      /\ \A v \in N : \A u \in Order!Targets(v) : f[u] <= f[v] + W(v, u)
  BY OrderDepths
<1>3. f \in Allowed
  BY <1>1, <1>2 DEF Allowed
<1>4. /\ r \in [N -> Int]
      /\ \A u \in N : r[u] <= t_levels[u]
      /\ \A v \in N : \A u \in Order!Targets(v) : r[u] <= t_levels[v] + W(v, u)
      /\ \A u \in N : f[u] <= r[u]
  BY <1>1, <1>3, RoundRelaxes
<1>5. \A u \in N : r[u] \in Int /\ t_levels[u] \in Int
  BY <1>4
<1>6. \A v \in N : Order!Targets(v) \in SUBSET N
  BY StrongComponents DEF Order!NewVertex
<1>7. r = t_levels => t_levels = f
  <2> SUFFICES ASSUME r = t_levels PROVE t_levels = f
    OBVIOUS
  <2>1. t_levels \in Feasible(OrderTargets, Order!strong_components)
    <3>1. DOMAIN OrderTargets = N /\ \A v \in N : OrderTargets[v] = Order!Targets(v)
      BY DEF OrderTargets
    <3> HIDE DEF r, W
    <3> QED BY <1>4, <3>1 DEF Feasible, W
  <2>2. \A v \in N : t_levels[v] <= f[v]
    BY <2>1, OrderDepths
  <2>3. \A v \in N : t_levels[v] = f[v]
    <3> HIDE DEF f
    <3> QED BY <1>2, <1>5, <2>2 DEF f
  <2> HIDE DEF f
  <2> QED BY <1>2, <2>3
<1>8. ASSUME r # t_levels
      PROVE  Cardinality(settled) >= Cardinality(AtDepth) + 1
  <2>1. AtDepth \in SUBSET settled /\ settled \in SUBSET N
    <3> HIDE DEF r, f
    <3> QED BY <1>2, <1>4, <1>5 DEF AtDepth, f
  <2>2. AtDepth # N
    <3> SUFFICES ASSUME AtDepth = N PROVE FALSE
      OBVIOUS
    <3>1. \A v \in N : t_levels[v] = r[v]
      <4>1. \A v \in N : t_levels[v] = f[v]
        BY DEF AtDepth
      <4> HIDE DEF r, f
      <4> QED BY <1>2, <1>4, <1>5, <4>1
    <3> HIDE DEF r
    <3> QED BY <1>4, <1>8, <3>1
  <2>3. AtDepth \in SUBSET N /\ \A v \in N : f[v] = 0 => v \in AtDepth
    <3>1. \A v \in N : f[v] = 0 => t_levels[v] = f[v]
      <4> HIDE DEF f
      <4> QED BY <1>2, <1>5 DEF f
    <3> QED BY <3>1 DEF AtDepth
  <2>4. PICK v \in AtDepth : \E u \in Order!Targets(v) \ AtDepth : f[u] = f[v] + W(v, u)
    BY <2>2, <2>3, OrderTight
  <2>5. PICK u \in Order!Targets(v) \ AtDepth : f[u] = f[v] + W(v, u)
    BY <2>4
  <2>6. v \in N /\ u \in N /\ t_levels[v] = f[v]
    BY <1>6, <2>4, <2>5 DEF AtDepth
  <2>7. u \in settled
    <3>1. r[u] <= f[u] /\ f[u] <= r[u]
      <4>1. r[u] <= t_levels[v] + W(v, u) /\ f[u] <= r[u]
        BY <1>4, <2>5, <2>6
      <4> HIDE DEF r, f, W
      <4> QED BY <2>5, <2>6, <4>1
    <3> HIDE DEF r, f
    <3> QED BY <1>2, <1>5, <2>6, <3>1
  <2>8. AtDepth # settled
    BY <2>5, <2>7
  <2>9. IsFiniteSet(settled) /\ IsFiniteSet(AtDepth)
    <3> HIDE DEF settled
    <3> QED BY <2>1, OrderGraph, FS_Subset
  <2>10. Cardinality(settled) \in Nat /\ Cardinality(AtDepth) \in Nat
    BY <2>9, FS_CardinalityType
  <2>11. /\ Cardinality(AtDepth) <= Cardinality(settled)
         /\ Cardinality(AtDepth) # Cardinality(settled)
    <3> HIDE DEF settled
    <3> QED BY <2>1, <2>8, <2>9, FS_Subset
  <2> HIDE DEF settled
  <2> QED BY <2>10, <2>11
<1>9. \A v \in N : f[v] <= r[v] /\ r[v] <= 0
  <2> HIDE DEF r, f
  <2> QED BY <1>2, <1>4, <1>5 DEF f
<1> QED BY <1>4, <1>7, <1>8, <1>9

(* Some vertex is at its depth before the first round.                     *)
LEMMA FirstAtDepth ==
  ASSUME CalledRight, t_levels = [v \in Order!NewVertex |-> 0]
  PROVE  Cardinality(AtDepth) \in Nat /\ Cardinality(AtDepth) >= 1
<1>1. AtDepth = {v \in Order!NewVertex : OrderDepth[v] = 0}
  BY DEF AtDepth
<1>2. AtDepth # {}
  <2> SUFFICES ASSUME AtDepth = {} PROVE FALSE
    OBVIOUS
  <2>1. {} # Order!NewVertex /\ \A v \in Order!NewVertex : OrderDepth[v] # 0
    BY <1>1, RootIsNew DEF Order!NewVertex
  <2>2. \A v \in Order!NewVertex : OrderDepth[v] = 0 => v \in {}
    BY <2>1
  <2>3. \E v \in {} : \E u \in Order!Targets(v) \ {} :
           OrderDepth[u] = OrderDepth[v] + Down(Order!strong_components, v, u)
    BY <2>1, <2>2, OrderTight
  <2> QED BY <2>3
<1>3. IsFiniteSet(AtDepth)
  BY OrderGraph, FS_Subset DEF AtDepth
<1>4. Cardinality(AtDepth) \in Nat /\ Cardinality(AtDepth) # 0
  BY <1>2, <1>3, FS_CardinalityType, FS_EmptySet
<1> QED BY <1>4

(* When all vertices are.                                                  *)
LEMMA AllAtDepth ==
  ASSUME CalledRight, t_levels \in [Order!NewVertex -> Int],
         Cardinality(AtDepth) >= Cardinality(Vertex) + 1
  PROVE  t_levels = OrderDepth
<1>1. AtDepth \in SUBSET Order!NewVertex
  BY DEF AtDepth
<1>2. /\ IsFiniteSet(AtDepth) /\ Cardinality(AtDepth) <= Cardinality(Order!NewVertex)
      /\ Cardinality(Order!NewVertex) = Cardinality(AtDepth) => Order!NewVertex = AtDepth
      /\ Cardinality(Order!NewVertex) = Cardinality(Vertex) + 1
  BY <1>1, OrderGraph, FS_Subset
<1>3. Cardinality(AtDepth) \in Nat /\ Cardinality(Vertex) \in Nat
  BY <1>2, FS_CardinalityType, RootIsNew
<1>4. Order!NewVertex = AtDepth
  BY <1>2, <1>3
<1>5. \A v \in Order!NewVertex : t_levels[v] = OrderDepth[v]
  BY <1>4 DEF AtDepth
<1>6. OrderDepth \in [Order!NewVertex -> Int]
  BY OrderDepths
<1> QED BY <1>5, <1>6

LEMMA DepthStep ==
  ASSUME CalledRight, OthersCalledRight, OrderInv, DepthInv, [Next]_vars
  PROVE  DepthInv'
<1> USE DEF orderInput
<1>0. Order!NewVertex' = Order!NewVertex
  BY DEF Order!NewVertex, Order!Root
<1>1. CASE UNCHANGED orderVars /\ stage \in BeforeOrder
  <2>1. Order!Init
    BY <1>1 DEF OthersCalledRight
  <2>2. t_phase' = "ready" /\ UNCHANGED <<t_levels, t_round, t_components>> /\ t_phase = "ready"
    BY <1>1, <2>1 DEF orderVars, Order!Init
  <2> QED BY <1>0, <2>2 DEF DepthInv
<1>2. ASSUME UNCHANGED resultVars
      PROVE  UNCHANGED result /\ OrderDepth' = OrderDepth
  <2>1. UNCHANGED result
    BY <1>2 DEF resultVars
  <2>2. \A v : Order!Targets(v)' = Order!Targets(v)
    BY <2>1 DEF Order!Targets, Order!Includers, Order!Root
  <2>3. Order!strong_components' = Order!strong_components
    BY <1>0, <2>2 DEF Order!strong_components
  <2>4. OrderTargets' = OrderTargets
    BY <1>0, <2>2 DEF OrderTargets
  <2> QED BY <2>1, <2>3, <2>4 DEF OrderDepth
<1>3. CASE UNCHANGED orderVars /\ UNCHANGED resultVars
  <2>1. AtDepth' = AtDepth
    BY <1>0, <1>2, <1>3 DEF AtDepth, orderVars
  <2> QED BY <1>0, <1>2, <1>3, <2>1 DEF DepthInv, orderVars
<1>4. CASE Order!Call /\ UNCHANGED resultVars
  <2>1. /\ t_phase = "ready" /\ UNCHANGED <<t_round, t_levels>>
        /\ t_levels = [v \in Order!NewVertex |-> 0] /\ t_round = 0
        /\ IF result.sources = <<>>
           THEN t_phase' = "returned" /\ UNCHANGED t_components
           ELSE t_phase' = "relaxing" /\ t_components' = Order!strong_components
    BY <1>4 DEF Order!Call, DepthInv
  <2>2. AtDepth' = AtDepth
    BY <1>0, <1>2, <1>4, <2>1 DEF AtDepth
  <2>3. t_components' \in [Order!NewVertex -> SUBSET Order!NewVertex]
    BY <2>1, StrongComponents DEF DepthInv
  <2>4. \A v \in Order!NewVertex : OrderDepth[v] <= t_levels[v] /\ t_levels[v] <= 0
    BY <2>1, OrderDepths
  <2>5. t_round + 1 <= Cardinality(AtDepth)
    BY <2>1, FirstAtDepth
  <2>6. t_levels \in [Order!NewVertex -> Int] /\ t_round \in Nat
    BY DEF DepthInv
  <2> QED BY <1>0, <1>2, <1>4, <2>1, <2>2, <2>3, <2>4, <2>5, <2>6 DEF DepthInv
<1>5. CASE Order!Round /\ UNCHANGED resultVars
  <2> DEFINE r == Order!Relaxed(t_levels)
  <2>1. /\ t_phase = "relaxing" /\ t_levels # r /\ t_levels' = r
        /\ t_round' = t_round + 1 /\ UNCHANGED <<t_phase, t_components>>
    BY <1>5 DEF Order!Round
  <2>2. /\ t_components = Order!strong_components /\ t_levels \in [Order!NewVertex -> Int]
        /\ \A v \in Order!NewVertex : OrderDepth[v] <= t_levels[v] /\ t_levels[v] <= 0
        /\ t_round + 1 <= Cardinality(AtDepth) /\ t_round \in Nat
    BY <2>1 DEF OrderInv, DepthInv
  <2>3. AtDepth' = {v \in Order!NewVertex : r[v] = OrderDepth[v]}
    BY <1>0, <1>2, <1>5, <2>1 DEF AtDepth
  <2>4. /\ r \in [Order!NewVertex -> Int]
        /\ \A v \in Order!NewVertex : OrderDepth[v] <= r[v] /\ r[v] <= 0
        /\ Cardinality(AtDepth') >= Cardinality(AtDepth) + 1
    BY <2>1, <2>2, <2>3, RoundSettles
  <2>5. Cardinality(AtDepth) \in Nat /\ Cardinality(AtDepth') \in Nat
    <3>1. IsFiniteSet(AtDepth) /\ IsFiniteSet(AtDepth')
      <4>1. AtDepth \in SUBSET Order!NewVertex /\ AtDepth' \in SUBSET Order!NewVertex
        BY <2>3 DEF AtDepth
      <4> QED BY <4>1, OrderGraph, FS_Subset
    <3> QED BY <3>1, FS_CardinalityType
  <2> HIDE DEF r
  <2>6. t_round' \in Nat /\ t_round' + 1 <= Cardinality(AtDepth')
    BY <2>1, <2>2, <2>4, <2>5
  <2>7. t_components' \in [Order!NewVertex -> SUBSET Order!NewVertex]
    BY <2>1 DEF DepthInv
  <2> QED BY <1>0, <1>2, <1>5, <2>1, <2>4, <2>6, <2>7 DEF DepthInv
<1>6. CASE Order!Group /\ UNCHANGED resultVars
  <2>1. /\ t_phase = "relaxing" /\ t_phase' = "returned"
        /\ t_round < Order!Rounds => t_levels = Order!Relaxed(t_levels)
        /\ UNCHANGED <<t_components, t_round, t_levels>>
    BY <1>6 DEF Order!Group
  <2>2. /\ t_components = Order!strong_components /\ t_levels \in [Order!NewVertex -> Int]
        /\ \A v \in Order!NewVertex : OrderDepth[v] <= t_levels[v] /\ t_levels[v] <= 0
        /\ t_round + 1 <= Cardinality(AtDepth) /\ t_round \in Nat
    BY <2>1 DEF OrderInv, DepthInv
  <2>3. t_levels = OrderDepth
    <3>1. CASE t_levels = Order!Relaxed(t_levels)
      BY <2>2, <3>1, RoundSettles
    <3>2. CASE ~(t_round < Order!Rounds)
      <4>1. Order!Rounds = Cardinality(Vertex) /\ Cardinality(Vertex) \in Nat
        BY OrderNames, RootIsNew DEF Order!Rounds
      <4>2. Cardinality(AtDepth) \in Nat
        BY OrderGraph, FS_Subset, FS_CardinalityType DEF AtDepth
      <4>3. Cardinality(AtDepth) >= Cardinality(Vertex) + 1
        BY <2>2, <3>2, <4>1, <4>2
      <4> QED BY <2>2, <4>3, AllAtDepth
    <3> QED BY <2>1, <3>1, <3>2
  <2> QED BY <1>0, <1>2, <1>6, <2>1, <2>3 DEF DepthInv
<1> QED BY <1>1, <1>3, <1>4, <1>5, <1>6, OtherSteps
        DEF Builds, analyses, Order!Next, BeforeOrder, BeforeSources, BeforePch,
            BeforeIncludes, BeforeUnused

LEMMA DepthAlways == Spec => []DepthInv
<1>1. Init => DepthInv
  BY DEF Init, Order!Init, DepthInv
<1>2. CalledRight /\ OthersCalledRight /\ OrderInv /\ DepthInv /\ [Next]_vars => DepthInv'
  BY DepthStep
<1> QED BY <1>1, <1>2, OrderAlways, CalledRightAlways, OthersCalledRightAlways, PTL DEF Spec

-----------------------------------------------------------------------------
(* The levels of the output are the depths.                                *)
LEMMA MinusNothing ==
  ASSUME NEW k \in Int, k = 0
  PROVE  -k = 0
<1>1. \A i \in Int : i = 0 => -i \in Int /\ -i <= 0 /\ -i >= 0
  OBVIOUS
<1>2. \A j \in Int : j <= 0 /\ j >= 0 => j = 0
  OBVIOUS
<1>3. \A i \in Int : i = 0 => -i = 0
  BY <1>1, <1>2, Zenon
<1> QED BY <1>3, Zenon

LEMMA MaxIs ==
  ASSUME NEW S \in SUBSET Int, NEW m \in S, \A k \in S : k <= m
  PROVE  Order!Max(S) = m
<1>1. m \in S /\ \A k \in S : m >= k
  OBVIOUS
<1>2. \A x \in S : (\A k \in S : x >= k) => x = m
  BY <1>1
<1> QED BY <1>1, <1>2 DEF Order!Max

LEMMA NumLevels ==
  ASSUME CalledRight, t_levels = OrderDepth
  PROVE  /\ Order!num_levels \in Nat
         /\ \A v \in Order!NewVertex : -t_levels[v] <= Order!num_levels
<1> DEFINE N == Order!NewVertex
           M == {-t_levels[v] : v \in N}
           bounds == {b \in Nat : \A m \in M : m <= b}
<1>1. \A v \in N : t_levels[v] \in Int /\ t_levels[v] <= 0
  BY OrderDepths
<1>2. M \in SUBSET Nat /\ M # {}
  <2>1. N # {}
    BY DEF Order!NewVertex
  <2> QED BY <1>1, <2>1
<1>3. Cardinality(N) \in bounds
  <2>1. Cardinality(N) \in Nat
    BY OrderGraph, FS_CardinalityType
  <2>2. PICK d \in Feasible(OrderTargets, Order!strong_components) :
          \A v \in N : d[v] >= -Cardinality(N)
    BY OrderGraph, SomeFeasible
  <2>3. \A v \in N : d[v] <= t_levels[v] /\ d[v] \in Int
    BY OrderDepths, OrderGraph DEF Feasible
  <2>4. \A v \in N : -t_levels[v] <= Cardinality(N)
    BY <1>1, <2>1, <2>2, <2>3
  <2> HIDE DEF N
  <2> QED BY <2>1, <2>4
<1> HIDE DEF M
<1>4. PICK b \in bounds : \A c \in bounds : b <= c
  <2>1. bounds \in SUBSET Nat
    OBVIOUS
  <2> HIDE DEF bounds
  <2> QED BY <1>3, <2>1, Least
<1>5. b \in M
  <2> SUFFICES ASSUME b \notin M PROVE FALSE
    OBVIOUS
  <2>1. \A m \in M : m \in Nat /\ m <= b /\ m # b
    BY <1>2
  <2>2. b - 1 \in Nat /\ \A m \in M : m <= b - 1
    <3>1. b \in Nat
      OBVIOUS
    <3>2. b # 0
      <4>1. PICK m \in M : TRUE
        BY <1>2
      <4> QED BY <2>1, <3>1, <4>1
    <3> QED BY <2>1, <3>1, <3>2
  <2>3. b - 1 \in bounds
    BY <2>2
  <2> QED BY <1>4, <2>2, <2>3
<1>6. Order!num_levels = b
  <2>1. M \in SUBSET Int /\ \A m \in M : m <= b
    BY <1>2
  <2>2. Order!num_levels = Order!Max(M)
    BY DEF Order!num_levels, M
  <2> QED BY <1>5, <2>1, <2>2, MaxIs
<1>7. \A m \in M : m <= b
  OBVIOUS
<1> QED BY <1>6, <1>7 DEF M

(* No component of a file has the root.                                    *)
LEMMA ComponentOfVertex ==
  ASSUME CalledRight, NEW v \in Vertex
  PROVE  v \in Order!strong_components[v] /\ Order!strong_components[v] \in SUBSET Vertex
<1>1. v \in Order!NewVertex
  BY DEF Order!NewVertex
<1>2. NothingLeaves(Vertex) /\ Vertex \in SUBSET Order!NewVertex
  BY StrongComponents DEF NothingLeaves, Order!NewVertex
<1> QED BY <1>1, <1>2, StrongComponents

LEMMA SameDepth ==
  ASSUME CalledRight, NEW v \in Order!NewVertex, NEW u \in Order!strong_components[v]
  PROVE  /\ u \in Order!NewVertex
         /\ OrderDepth[u] = OrderDepth[v]
         /\ Order!strong_components[u] = Order!strong_components[v]
<1>1. u \in Order!NewVertex
  BY OrderGraph, InItsComponent
<1>2. Order!strong_components[u] = Order!strong_components[v]
  BY <1>1, OrderGraph, InItsComponent
<1>3. OrderDepth[u] = OrderDepth[v]
  BY OrderGraph, DepthOfComponent DEF OrderDepth
<1> QED BY <1>1, <1>2, <1>3

(* The output is that of the depths.                                       *)
OutputOfDepths ==
  /\ t_components = Order!strong_components
  /\ t_levels = OrderDepth
  /\ t_output = [l \in 1..Order!num_levels |->
                   {t_components[v] : v \in {u \in Vertex : t_levels[u] = -l}}]

LEMMA LevelIsDepth ==
  ASSUME CalledRight, OutputOfDepths, NEW v \in Vertex
  PROVE  Order!LevelOf(v) = -OrderDepth[v]
<1> DEFINE ls == {l \in DOMAIN t_output : v \in UNION t_output[l]}
           n == Order!num_levels
<1>1. n \in Nat /\ -OrderDepth[v] <= n
  BY NumLevels DEF OutputOfDepths, Order!NewVertex
<1>2. OrderDepth[v] \in Int /\ OrderDepth[v] <= 0
  BY OrderDepths DEF Order!NewVertex
<1>3. DOMAIN t_output = 1..n
  BY DEF OutputOfDepths
<1>4. ASSUME NEW l \in 1..n
      PROVE  v \in UNION t_output[l] <=> OrderDepth[v] = -l
  <2>1. t_output[l] = {Order!strong_components[w] : w \in {u \in Vertex : OrderDepth[u] = -l}}
    BY DEF OutputOfDepths
  <2>2. ASSUME NEW w \in Vertex, v \in Order!strong_components[w]
        PROVE  OrderDepth[v] = OrderDepth[w]
    BY <2>2, SameDepth DEF Order!NewVertex
  <2>3. v \in Order!strong_components[v]
    BY ComponentOfVertex
  <2> QED BY <2>1, <2>2, <2>3
<1>5. ls = {l \in 1..n : OrderDepth[v] = -l}
  BY <1>3, <1>4
<1>6. Order!LevelOf(v) = IF ls = {} THEN 0 ELSE Order!Max(ls)
  BY DEF Order!LevelOf
<1> HIDE DEF ls, n
<1>7. CASE OrderDepth[v] = 0
  <2>1. ls = {}
    BY <1>1, <1>5, <1>7
  <2>2. -OrderDepth[v] = 0
    BY <1>2, <1>7, MinusNothing
  <2> QED BY <1>6, <2>1, <2>2
<1>8. CASE OrderDepth[v] # 0
  <2>1. ls = {-OrderDepth[v]}
    BY <1>1, <1>2, <1>5, <1>8
  <2>2. Order!Max(ls) = -OrderDepth[v]
    BY <1>2, <2>1, MaxIs
  <2> QED BY <1>6, <2>1, <2>2
<1> QED BY <1>7, <1>8

(* No edge enters the root, so that its depth is 0.                        *)
LEMMA RootDepth ==
  ASSUME CalledRight
  PROVE  OrderDepth[Order!Root] = 0 /\ Order!Root \in Order!NewVertex
<1> DEFINE C == Order!strong_components
<1>1. Order!Root \in Order!NewVertex
  BY DEF Order!NewVertex
<1>2. \/ OrderDepth[Order!Root] = 0
      \/ \E x \in Order!NewVertex \ C[Order!Root] : \E y \in OrderTargets[x] \cap C[Order!Root] :
           OrderDepth[Order!Root] = OrderDepth[x] - 1
  <2> HIDE DEF C
  <2>1. /\ IsFiniteSet(Order!NewVertex)
        /\ OrderTargets \in [Order!NewVertex -> SUBSET Order!NewVertex]
        /\ InComponents(OrderTargets, C)
    BY OrderGraph DEF C
  <2>2. OrderDepth = Depth(OrderTargets, C)
    BY DEF OrderDepth, C
  <2> QED BY <1>1, <2>1, <2>2, DepthReached
<1>3. ASSUME NEW x \in Order!NewVertex, NEW y \in OrderTargets[x] \cap C[Order!Root]
      PROVE  FALSE
  <2>1. y \in Vertex
    BY StrongComponents DEF OrderTargets
  <2>2. C[y] = C[Order!Root]
    BY <1>1, SameDepth
  <2>3. Order!Root \in C[y]
    BY <1>1, <2>2, OrderGraph, InItsComponent
  <2> QED BY <2>1, <2>3, ComponentOfVertex, RootIsNew
<1> QED BY <1>1, <1>2, <1>3

(* The edges that enter the component of a file of ours from outside.      *)
LEMMA ExternalAlone ==
  ASSUME CalledRight, OthersCalledRight, SourcesInternal(project),
         NEW x \in Vertex, x \in result.is_external
  PROVE  Order!Targets(x) = {}
<1>1. x # Order!Root
  BY RootIsNew
<1>2. x \notin ToSet(result.sources)
  BY SourceInResult DEF SourcesInternal
<1> QED BY <1>1, <1>2, OrderNames DEF Order!Targets, orderInput

LEMMA ComponentInternal ==
  ASSUME CalledRight, OthersCalledRight, SourcesInternal(project), NEW v \in Order!Internal
  PROVE  /\ v \in Vertex /\ v \in Order!strong_components[v]
         /\ Order!strong_components[v] \in SUBSET Order!Internal
<1>1. v \in Vertex /\ v \notin result.is_external /\ v \in Order!NewVertex
  BY DEF Order!Internal, orderInput, Order!NewVertex
<1>2. v \in Order!strong_components[v] /\ Order!strong_components[v] \in SUBSET Vertex
  BY <1>1, ComponentOfVertex
<1>3. ASSUME NEW u \in Order!strong_components[v], u \in result.is_external
      PROVE  FALSE
  <2>1. u \in Vertex /\ u \in Order!NewVertex
    BY <1>2 DEF Order!NewVertex
  <2>2. NothingLeaves({u})
    BY <1>3, <2>1, ExternalAlone DEF NothingLeaves
  <2>3. u \in {u} <=> v \in {u}
    BY <1>1, <2>1, <2>2, StrongComponents
  <2> QED BY <1>1, <1>3, <2>3
<1> QED BY <1>1, <1>2, <1>3 DEF Order!Internal, orderInput

LEMMA Enters ==
  ASSUME CalledRight, OthersCalledRight, HeadersIncluded(project), SourcesInternal(project),
         NEW v \in Order!Internal, NEW x \in Order!NewVertex \ Order!strong_components[v],
         NEW y \in Order!strong_components[v]
  PROVE  y \in Order!Targets(x) <=>
           \/ x = Order!Root /\ result.graph[y] = <<>>
           \/ x \in Order!Internal /\ x \in ToSet(result.graph[y])
<1>1. y \in Vertex /\ y \notin result.is_external /\ y # Order!Root
  BY ComponentInternal, RootIsNew DEF Order!Internal, orderInput
<1>2. CASE x = Order!Root
  <2>1. x \notin Order!Internal
    BY <1>2, RootIsNew DEF Order!Internal
  <2> QED BY <1>1, <1>2, <2>1 DEF Order!Targets, orderInput
<1>3. CASE x # Order!Root
  <2>1. x \in Vertex
    BY <1>3 DEF Order!NewVertex
  <2>2. CASE x \in result.is_external
    BY <1>3, <2>1, <2>2, ExternalAlone DEF Order!Internal, orderInput
  <2>3. CASE x \notin result.is_external
    <3>1. x \in Order!Internal
      BY <2>1, <2>3 DEF Order!Internal, orderInput
    <3>2. Order!Targets(x) =
            {u \in Vertex : x \in ToSet(result.graph[u])}
              \cup (IF x \in ToSet(result.sources) THEN result.component[x] ELSE {})
      BY <1>3, <2>3, OrderNames DEF Order!Targets, Order!Includers, orderInput
    <3>3. ASSUME x \in ToSet(result.sources), y \in result.component[x]
          PROVE  FALSE
      <4>1. y \in ToSet(result.graph[x])
        BY <3>3, HeadersInResult
      <4>2. x \in Order!Targets(y)
        BY <1>1, <2>1, <4>1, OrderNames DEF Order!Targets, Order!Includers, orderInput
      <4>3. y \in Order!Targets(x)
        BY <3>2, <3>3
      <4>4. \A S \in SUBSET Order!NewVertex : NothingLeaves(S) => (x \in S <=> y \in S)
        BY <4>2, <4>3 DEF NothingLeaves
      <4>5. y \in Order!NewVertex /\ x \in Order!strong_components[y]
        BY <1>1, <4>4, StrongComponents DEF Order!NewVertex
      <4>6. Order!strong_components[y] = Order!strong_components[v]
        BY ComponentInternal, SameDepth DEF Order!NewVertex
      <4> QED BY <4>5, <4>6
    <3> QED BY <1>1, <1>3, <3>1, <3>2, <3>3
  <2> QED BY <2>2, <2>3
<1> QED BY <1>2, <1>3

(* Every file of ours is one level above the highest of those it includes. *)
THEOREM LevelsRightAlways ==
  Spec /\ HeadersIncluded(project) /\ SourcesInternal(project) => []LevelsRight
<1>1. ASSUME CalledRight, OthersCalledRight, HeadersIncluded(project), SourcesInternal(project),
             OrderInv, DepthInv, Order!Returned, result.sources # <<>>,
             NEW v \in Order!Internal
      PROVE  LET C == t_components[v]
                 own == \E w \in C : result.graph[w] = <<>>
                 below == (UNION {Order!ToSet(result.graph[w]) \cap Order!Internal : w \in C}) \ C
             IN  Order!LevelOf(v) = Order!Max({IF own THEN 1 ELSE 0}
                                         \cup {Order!LevelOf(u) + 1 : u \in below})
  <2> DEFINE C == t_components[v]
             own == \E w \in C : result.graph[w] = <<>>
             below == (UNION {Order!ToSet(result.graph[w]) \cap Order!Internal : w \in C}) \ C
             f == OrderDepth
             m == -f[v]
             S == {IF own THEN 1 ELSE 0} \cup {Order!LevelOf(u) + 1 : u \in below}
  <2>1. OutputOfDepths
    BY <1>1 DEF OutputOfDepths, OrderInv, DepthInv, Order!Returned
  <2>2. C = Order!strong_components[v]
    BY <2>1 DEF OutputOfDepths
  <2>3. /\ v \in Vertex /\ v \in Order!NewVertex
        /\ v \in C /\ C \in SUBSET Order!Internal /\ C \in SUBSET Vertex
        /\ Order!Root \notin C
    BY <1>1, <2>2, ComponentInternal, RootIsNew DEF Order!NewVertex, Order!Internal
  <2>4. below \in SUBSET Order!Internal /\ below \in SUBSET Vertex
        /\ below \in SUBSET (Order!NewVertex \ C)
    <3>1. \A u \in below : u \in Order!Internal /\ u \notin C
      <4> HIDE DEF C
      <4> QED OBVIOUS
    <3> HIDE DEF below, C
    <3> QED BY <3>1 DEF Order!Internal, Order!NewVertex
  <2>5. \A u \in below : Order!LevelOf(u) = -f[u]
    BY <1>1, <2>1, <2>4, LevelIsDepth
  <2>6. \A u \in Order!NewVertex : f[u] \in Int /\ f[u] <= 0
    BY <1>1, OrderDepths
  <2>7. \A u \in C : f[u] = f[v]
    BY <1>1, <2>2, <2>3, SameDepth
  <2>8. ASSUME NEW x \in Order!NewVertex \ C, NEW y \in C
        PROVE  y \in Order!Targets(x) <=>
                 \/ x = Order!Root /\ result.graph[y] = <<>>
                 \/ x \in Order!Internal /\ x \in ToSet(result.graph[y])
    BY <1>1, <2>2, <2>8, Enters
  <2>9. ASSUME NEW x \in Order!NewVertex \ C, NEW y \in C, y \in Order!Targets(x)
        PROVE  f[v] <= f[x] - 1
    <3>1. y \in Order!NewVertex /\ x \in Order!NewVertex
      BY <2>3 DEF Order!NewVertex
    <3>2. f[y] <= f[x] + Down(Order!strong_components, x, y)
      BY <1>1, <2>9, OrderDepths
    <3>3. Order!strong_components[x] # Order!strong_components[y]
      BY <1>1, <2>2, <2>3, <3>1, OrderGraph, InItsComponent
    <3> QED BY <2>6, <2>7, <3>1, <3>2, <3>3 DEF Down
  <2>10. f[Order!Root] = 0 /\ Order!Root \in Order!NewVertex
    BY <1>1, RootDepth
  <2>11. own => 1 <= m
    <3> SUFFICES ASSUME own PROVE 1 <= m
      OBVIOUS
    <3>1. PICK w \in C : result.graph[w] = <<>>
      OBVIOUS
    <3>2. w \in Order!Targets(Order!Root) /\ Order!Root \in Order!NewVertex \ C
      BY <2>3, <2>8, <2>10, <3>1
    <3>3. f[v] <= f[Order!Root] - 1
      BY <2>9, <3>2
    <3> HIDE DEF f
    <3> QED BY <2>3, <2>6, <2>10, <3>3
  <2>12. ASSUME NEW u \in below PROVE Order!LevelOf(u) + 1 <= m /\ Order!LevelOf(u) + 1 \in Int
    <3>1. PICK w \in C : u \in ToSet(result.graph[w])
      BY OrderNames
    <3>2. u \in Order!NewVertex \ C /\ w \in Order!Targets(u)
      BY <2>4, <2>8, <3>1
    <3>3. f[v] <= f[u] - 1 /\ Order!LevelOf(u) = -f[u] /\ f[u] \in Int /\ f[v] \in Int
      BY <2>3, <2>5, <2>6, <2>9, <3>2
    <3> HIDE DEF f
    <3> QED BY <3>3
  <2>13. m \in Nat
    BY <2>3, <2>6
  <2>14. m \in S
    <3>1. CASE f[v] = 0
      <4>1. m = 0
        BY <2>3, <2>6, <3>1, MinusNothing
      <4>2. ~own
        <5> HIDE DEF own, m
        <5> QED BY <2>11, <4>1
      <4> QED BY <4>1, <4>2
    <3>2. CASE f[v] # 0
      <4>1. PICK x \in Order!NewVertex \ C : \E y \in OrderTargets[x] \cap C : f[v] = f[x] - 1
        <5> DEFINE D == Order!strong_components
        <5>1. /\ IsFiniteSet(Order!NewVertex)
              /\ OrderTargets \in [Order!NewVertex -> SUBSET Order!NewVertex]
              /\ InComponents(OrderTargets, D)
          BY <1>1, OrderGraph
        <5>2. f = Depth(OrderTargets, D) /\ C = D[v]
          BY <2>2 DEF OrderDepth
        <5> HIDE DEF D, f, C
        <5> QED BY <2>3, <3>2, <5>1, <5>2, DepthReached
      <4>2. PICK y \in C : y \in Order!Targets(x) /\ f[v] = f[x] - 1
        BY <4>1 DEF OrderTargets
      <4>3. f[x] \in Int /\ f[v] \in Int /\ m = -f[x] + 1
        <5>1. f[x] \in Int /\ f[v] \in Int
          BY <2>3, <2>6
        <5> HIDE DEF f
        <5> QED BY <4>2, <5>1
      <4>4. CASE x = Order!Root /\ result.graph[y] = <<>>
        BY <2>10, <4>3, <4>4
      <4>5. CASE x \in Order!Internal /\ x \in ToSet(result.graph[y])
        <5>1. x \in Order!ToSet(result.graph[y]) \cap Order!Internal /\ x \notin C /\ y \in C
          BY <4>1, <4>2, <4>5, OrderNames
        <5>2. x \in below
          <6> HIDE DEF C
          <6> QED BY <5>1
        <5> HIDE DEF below, f
        <5> QED BY <2>5, <4>3, <5>2
      <4> QED BY <2>8, <4>2, <4>4, <4>5
    <3> QED BY <3>1, <3>2
  <2>15. S \in SUBSET Int /\ \A k \in S : k <= m
    <3>1. (IF own THEN 1 ELSE 0) <= m
      BY <2>11, <2>13
    <3> HIDE DEF below, own, m
    <3> QED BY <2>12, <2>13, <3>1
  <2>16. Order!Max(S) = m
    <3> HIDE DEF S, m
    <3> QED BY <2>14, <2>15, MaxIs
  <2>17. Order!LevelOf(v) = m
    BY <1>1, <2>1, <2>3, LevelIsDepth
  <2> HIDE DEF m
  <2> QED BY <2>16, <2>17
<1>2. CalledRight /\ OthersCalledRight /\ HeadersIncluded(project) /\ SourcesInternal(project)
        /\ OrderInv /\ DepthInv => LevelsRight
  <2> SUFFICES ASSUME CalledRight, OthersCalledRight, HeadersIncluded(project),
                      SourcesInternal(project), OrderInv, DepthInv
               PROVE  Order!LevelsRight
    BY DEF LevelsRight
  <2> QED BY <1>1 DEF Order!LevelsRight, orderInput
<1> QED BY <1>2, OrderAlways, DepthAlways, CalledRightAlways, OthersCalledRightAlways,
           HypothesesKept, PTL

-----------------------------------------------------------------------------
(***************************************************************************)
(* Types.                                                                  *)
(***************************************************************************)
LEMMA OtherInputsTyped ==
  ASSUME CalledRight
  PROVE  /\ unusedInput \in Unused!Input
         /\ sourcesInput \in Sources!Input
         /\ orderInput \in Order!Input
<1>1. /\ result.graph \in AdjacencyList /\ result.sources \in Seq(Vertex)
      /\ result.component \in [Vertex -> SUBSET Vertex]
      /\ result.is_external \in SUBSET Vertex
  BY DEF CalledRight, ResultType
<1>2. true_cost \in [Vertex -> Nat]
  BY TrueCostType
<1>3. minimum_token_count_cut_off \in Nat
  BY InputsTyped DEF pchInput, Pch!Input
<1>4. /\ Unused!AdjacencyList = AdjacencyList /\ Sources!AdjacencyList = AdjacencyList
      /\ Order!AdjacencyList = AdjacencyList
  BY DEF Unused!AdjacencyList, Sources!AdjacencyList, Order!AdjacencyList, AdjacencyList
<1>5. 0 \in 0..(2 ^ UnsignedWidth - 1)
  <2>1. \A n \in Nat : n > 1 => 0 \in 0..(n - 1)
    OBVIOUS
  <2> QED BY <2>1, WidthAssumption
<1>6. unusedInput \in Unused!Input
  BY <1>1, <1>2, <1>4, <1>5 DEF unusedInput, Unused!Input
<1>7. sourcesInput \in Sources!Input
  BY <1>1, <1>2, <1>3, <1>4 DEF sourcesInput, Sources!Input
<1>8. orderInput \in Order!Input
  BY <1>1, <1>4 DEF orderInput, Order!Input
<1> QED BY <1>6, <1>7, <1>8

LEMMA OutputTyped ==
  ASSUME CalledRight, OrderInv, DepthInv
  PROVE  t_output \in Seq(SUBSET SUBSET Vertex)
<1>1. CASE t_phase # "returned" \/ result.sources = <<>>
  <2>1. t_output = <<>>
    BY <1>1 DEF OrderInv
  <2>2. \A S : <<>> \in Seq(S)
    OBVIOUS
  <2> QED BY <2>1, <2>2
<1>2. CASE t_phase = "returned" /\ result.sources # <<>>
  <2> DEFINE n == Order!num_levels
             group(l) == {t_components[v] : v \in {u \in Vertex : t_levels[u] = -l}}
  <2>1. /\ t_components = Order!strong_components /\ t_levels = OrderDepth
        /\ t_output = [l \in 1..n |-> group(l)]
    BY <1>2 DEF OrderInv, DepthInv
  <2>2. n \in Nat
    BY <2>1, NumLevels
  <2>3. \A l \in 1..n : group(l) \in SUBSET SUBSET Vertex
    BY <2>1, ComponentOfVertex
  <2> HIDE DEF n, group
  <2> QED BY <2>1, <2>2, <2>3
<1> QED BY <1>1, <1>2

(* The state of run() and of every analysis keeps its types.               *)
THEOREM Typed == Spec => []TypeOK
<1>1. CalledRight /\ WalkInv /\ IncludesInv /\ PchInv /\ UnusedInv /\ SourcesInv /\ OrderInv
        /\ DepthInv => TypeOK
  <2> SUFFICES ASSUME CalledRight, WalkInv, IncludesInv, PchInv, UnusedInv, SourcesInv,
                      OrderInv, DepthInv
               PROVE  TypeOK
    OBVIOUS
  <2>1. stage \in {"options", "listing", "build", "built",
                   "unreferenced components", "include directives",
                   "pch additions", "inline sources", "topological order",
                   "exited"}
    BY DEF CalledRight, Stages
  <2>2. /\ directories \in Seq(Dir) /\ dir_copy \in Dir /\ entries \in Seq(Dir \cup Vertex)
        /\ unlisted \subseteq Dir /\ m_sources \in Seq(Vertex)
        /\ exit_code \in {None, 0, 1}
    BY DEF WalkInv, WalkTyped
  <2>3. DOMAIN result.sources \subseteq Nat
    BY SourcePositions
  <2>4. Unused!TypeOK
    BY <2>3, OtherInputsTyped DEF UnusedInv, Unused!TypeOK, UnusedResult
  <2>5. Includes!TypeOK /\ Pch!TypeOK
    BY DEF IncludesInv, PchInv
  <2>6. Sources!TypeOK
    BY <2>3, OtherInputsTyped
       DEF SourcesInv, SourcesTyped, SourcesActive, SourcesResult, Sources!TypeOK
  <2>7. Order!TypeOK
    BY OtherInputsTyped, OutputTyped DEF OrderInv, DepthInv, Order!TypeOK
  <2> QED BY <2>1, <2>2, <2>4, <2>5, <2>6, <2>7 DEF TypeOK
<1> QED BY <1>1, CalledRightAlways, WalkAlways, IncludesAlways, PchAlways, UnusedAlways,
           SourcesAlways, OrderAlways, DepthAlways, PTL

=============================================================================
