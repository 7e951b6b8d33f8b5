---------------------------- MODULE MCBuildGraph ----------------------------
(***************************************************************************)
(* Families of small programs for BuildGraph: two sources and three        *)
(* headers, of which a may include b and c, and b may include c.           *)
(***************************************************************************)
EXTENDS BuildGraphProperties, TLC

CONSTANTS s1, s2, a, b, c, M

MCFile == {s1, s2, a, b, c}

When(item, needed, lacking) ==
  [item EXCEPT !.needs = needed, !.lacks = lacking]

\* The body of f behind the include guard of this kind.
GuardedBy(kind, f, body) ==
  CASE kind = "none" -> body
    [] kind = "once" -> <<Once>> \o body
    [] kind = "ifndef" -> <<Ifndef, Define(f)>> \o body
    [] kind = "if" -> <<If, Define(f)>> \o body

Includes(fs) == [i \in DOMAIN fs |-> Include(fs[i])]

\* Every file has its own size, so that a sum of sizes tells its parts apart.
Size == (s1 :> 1) @@ (s2 :> 2) @@ (a :> 4) @@ (b :> 8) @@ (c :> 16)

\* Different files, or a source and a header that are one component.
OwnStem == [f \in MCFile |-> f]
MCStem == MCFile

Base ==
  [script |-> [f \in MCFile |-> <<>>], size |-> Size, sources |-> <<s1, s2>>,
   forced |-> <<>>, absent |-> {}, external |-> {}, precompiled |-> {},
   stem |-> OwnStem, macros |-> {}, replace_file_optimization |-> FALSE]

WithScripts(scripts) == [Base EXCEPT !.script = scripts @@ Base.script]

Optimised(ps) ==
  {[p EXCEPT !.replace_file_optimization = o] : p \in ps, o \in BOOLEAN}

-----------------------------------------------------------------------------
(***************************************************************************)
(* Programs the tool is made for: every include is unconditional, a guard  *)
(* is one all compilers know, and no header without #pragma once includes  *)
(* itself, directly or not.                                                *)
(***************************************************************************)
Kinds == {"none", "once", "ifndef"}

PlainScripts ==
  {(s1 :> <<Include(a), Tokens(1)>> \o Includes(is1)) @@
   (s2 :> Includes(is2)) @@
   (a :> GuardedBy(ka, a, <<Tokens(1)>> \o Includes(ia) \o <<Tokens(2)>>)) @@
   (b :> GuardedBy(kb, b, Includes(ib) \o <<Tokens(4)>>)) @@
   (c :> GuardedBy(kc, c, <<Tokens(8)>>)) :
     is1 \in {<<>>, <<b>>, <<a>>}, is2 \in {<<a>>, <<c, b>>},
     ia \in {<<>>, <<b>>, <<c, b>>, <<b, b>>}, ib \in {<<>>, <<c>>},
     ka \in Kinds, kb \in Kinds, kc \in {"none", "once"}}

\* Files that are missing, forced, overridden, external or precompiled, and
\* files with the same stem: s1 and a, or both sources and b.
Variants ==
  {[WithScripts(
      (s1 :> first \o <<Include(a), Include(b)>>) @@ (s2 :> <<Include(b)>>) @@
      (a :> GuardedBy(k, a, over \o <<Include(b), Tokens(2)>>)) @@
      (b :> GuardedBy(k, b, <<Include(c), Include(c)>>)) @@
      (c :> <<Tokens(8)>>))
      EXCEPT !.absent = ab, !.forced = fo, !.external = ex,
             !.precompiled = pre, !.stem = st] :
     k \in {"none", "once", "ifndef"}, first \in {<<>>, <<Include(c)>>},
     over \in {<<>>, <<OverrideSize(64), OverrideTokens(128)>>},
     ab \in {{}, {c}}, fo \in {<<>>, <<b>>}, ex \in {{}, {b, c}},
     pre \in {{}, {b}},
     st \in {[OwnStem EXCEPT ![a] = s1], [OwnStem EXCEPT ![b] = s1, ![s2] = s1]}}

\* Headers that include each other behind #pragma once.
Cycles ==
  {WithScripts((s1 :> <<Include(a)>>) @@ (s2 :> <<Include(b)>>) @@
               (a :> GuardedBy("once", a, Includes(ia))) @@
               (b :> GuardedBy("once", b, Includes(ib))) @@
               (c :> GuardedBy(kc, c, <<Tokens(8)>>))) :
     ia \in {<<b>>, <<a, b, c>>}, ib \in {<<a>>, <<c, a>>}, kc \in Kinds}

PlainPrograms ==
  Optimised({WithScripts(s) : s \in PlainScripts} \cup Variants \cup Cycles)

\* They are among the programs that IncludeGraph_proofs is about.
ASSUME PlainProgramsArePlain ==
  \A p \in PlainPrograms : Plain(p) /\ Settled(p) /\ Measured(p)

-----------------------------------------------------------------------------
(***************************************************************************)
(* Any programs: conditional includes, guards met half-way through a cycle,*)
(* sources that are included, listed twice or include themselves.          *)
(***************************************************************************)
Wild ==
  {[WithScripts(
      (s1 :> t1) @@ (s2 :> t2) @@
      (a :> GuardedBy(ka, a, <<Tokens(1)>> \o Includes(ia) \o <<Tokens(2)>>)) @@
      (b :> GuardedBy(kb, b, Includes(ib))) @@
      (c :> GuardedBy(kb, c,
              <<When(Include(b), {M, a}, {s2}), Undef(M), Undef(c)>>)))
      EXCEPT !.sources = so, !.macros = ma] :
     t1 \in {<<Include(a)>>, <<Define(M), Include(c), Include(a)>>,
             <<Ifndef, Define(s1), Include(s1), Include(a)>>,
             <<If, Define(s1), Once, Include(s1)>>},
     t2 \in {<<Define(s2), Include(a)>>, <<Include(s1), Include(c)>>},
     ka \in {"ifndef", "if", "once"}, kb \in {"ifndef", "once"},
     ia \in {<<b>>, <<b, c>>}, ib \in {<<>>, <<a>>, <<a, c>>},
     so \in {<<s1, s2>>, <<s1, s1>>, <<a, s2>>, <<s1, b>>},
     ma \in {{}, {M, a}}}

\* A header whose includes depend on a macro that one source defines.
Shifting ==
  {WithScripts(
     (s1 :> <<Include(a)>>) @@ (s2 :> <<Define(M), Include(a)>>) @@
     (a :> GuardedBy(ka, a, <<When(Include(b), {M}, {}),
                              When(Include(c), {}, {M})>>)) @@
     (b :> GuardedBy(kb, b, <<Tokens(4)>>))) :
     ka \in {"none", "ifndef", "if", "once"}, kb \in {"none", "once"}}

\* Files that are missing: c, which both other headers may include.
Missing == {v \in Variants : v.absent # {} /\ v.external = {}}

WildPrograms == Optimised(Wild \cup Shifting \cup Missing)

\* The second source tests a macro that the header it shares with the first
\* source defines: in the header itself (a), or in a file that includes (b).
MacroScripts(definer) ==
  {(s1 :> <<Include(a)>>) @@
   (s2 :> <<Include(a), When(Include(c), {M}, {}), When(Tokens(1), {}, {M})>>) @@
   (a :> GuardedBy(ka, a, IF definer = a THEN <<Include(b), Define(M)>>
                          ELSE <<Include(b)>>)) @@
   (b :> GuardedBy(kb, b, IF definer = b THEN <<Define(M)>> ELSE <<>>)) @@
   (c :> GuardedBy(kb, c, <<Tokens(8)>>)) :
     ka \in Kinds, kb \in {"once", "ifndef"}}

OwnMacros == Optimised({WithScripts(s) : s \in MacroScripts(a)})
NestedMacros == Optimised({WithScripts(s) : s \in MacroScripts(b)})

PlainAndOwnMacros == PlainPrograms \cup OwnMacros
=============================================================================
