-------------------------- MODULE PatchValuesProofs -------------------------
(***************************************************************************)
(* The values the patcher writes, for any charts, any values and edits of  *)
(* users and any tags.                                                     *)
(*                                                                         *)
(* Everything rests on two facts: no path of a document is a prefix of     *)
(* another one, which every merge and every removal preserves, and only a  *)
(* component whose bundled tag has been read is ever managed, so that the  *)
(* maps it writes are maps in which its chart keeps its own image.         *)
(***************************************************************************)
EXTENDS PatchValues, TLAPS

-----------------------------------------------------------------------------
(* Paths                                                                   *)

LEMMA ClashSymmetric == ASSUME NEW p, NEW q, Clash(p, q) PROVE Clash(q, p)
BY DEF Clash

LEMMA ClashSelf == ASSUME NEW p \in Path PROVE Clash(p, p)
BY DEF Clash, IsPrefix, Path

\* A path and one above it begin with the same key.
LEMMA ClashFirst == ASSUME NEW p \in Path, NEW q \in Path, Clash(p, q) PROVE p[1] = q[1]
<1>1. ASSUME NEW a \in Path, NEW b \in Path, IsPrefix(a, b) PROVE a[1] = b[1]
  <2>1. /\ a \in Seq(Key) /\ b \in Seq(Key) /\ Len(a) \in Nat /\ Len(b) \in Nat
        /\ Len(a) > 0 /\ Len(a) <= Len(b)
    BY <1>1 DEF Path, IsPrefix
  <2>2. SubSeq(a, 1, Len(a))[1] = a[1] /\ SubSeq(b, 1, Len(a))[1] = b[1]
    BY <2>1
  <2> QED BY <1>1, <2>2 DEF IsPrefix
<1> QED BY <1>1 DEF Clash

LEMMA ClashEqual ==
    ASSUME NEW p \in Path, NEW q \in Path, Clash(p, q), Len(p) = Len(q)
    PROVE  p = q
<1>1. /\ p \in Seq(Key) /\ q \in Seq(Key)
      /\ SubSeq(p, 1, Len(p)) = p /\ SubSeq(q, 1, Len(q)) = q
  BY DEF Path
<1> QED BY <1>1 DEF Clash, IsPrefix

-----------------------------------------------------------------------------
(* Trees                                                                   *)

\* No leaf is above another one.
IsTree(tree) ==
    /\ tree = [p \in DOMAIN tree |-> tree[p]]
    /\ DOMAIN tree \subseteq Path
    /\ \A p, q \in DOMAIN tree : Clash(p, q) => p = q

LEMMA EmptyTree == IsTree(<<>>) /\ DOMAIN <<>> = {}
BY DEF IsTree

LEMMA LeafTree == ASSUME NEW p \in Path, NEW v PROVE IsTree([q \in {p} |-> v])
BY DEF IsTree

LEMMA WithoutLeaves ==
    ASSUME NEW tree, NEW paths
    PROVE  LET t == Without(tree, paths)
           IN  /\ t = [p \in DOMAIN t |-> t[p]]
               /\ DOMAIN t = {p \in DOMAIN tree : \A q \in paths : ~Clash(p, q)}
               /\ \A p \in DOMAIN t : t[p] = tree[p]
BY DEF Without, RestrictDomain, Restrict

LEMMA WithoutTree == ASSUME NEW tree, IsTree(tree), NEW paths PROVE IsTree(Without(tree, paths))
<1> DEFINE t == Without(tree, paths)
<1>1. /\ t = [p \in DOMAIN t |-> t[p]]
      /\ DOMAIN t = {p \in DOMAIN tree : \A q \in paths : ~Clash(p, q)}
  BY WithoutLeaves
<1> HIDE DEF t
<1> QED BY <1>1 DEF IsTree, t

LEMMA MergeLeaves ==
    ASSUME NEW tree, NEW overlay
    PROVE  LET t == Merge(tree, overlay)
           IN  /\ t = [p \in DOMAIN t |-> t[p]]
               /\ DOMAIN t = DOMAIN overlay
                             \cup {p \in DOMAIN tree : \A q \in DOMAIN overlay : ~Clash(p, q)}
               /\ \A p \in DOMAIN t : t[p] = IF p \in DOMAIN overlay THEN overlay[p] ELSE tree[p]
<1> DEFINE rest == Without(tree, DOMAIN overlay)
<1>1. DOMAIN rest = {p \in DOMAIN tree : \A q \in DOMAIN overlay : ~Clash(p, q)}
  BY WithoutLeaves
<1> HIDE DEF rest
<1> QED BY <1>1 DEF Merge, rest

LEMMA MergeTree ==
    ASSUME NEW tree, IsTree(tree), NEW overlay, IsTree(overlay)
    PROVE  IsTree(Merge(tree, overlay))
<1> DEFINE t == Merge(tree, overlay)
<1>1. /\ t = [p \in DOMAIN t |-> t[p]]
      /\ DOMAIN t = DOMAIN overlay
                    \cup {p \in DOMAIN tree : \A q \in DOMAIN overlay : ~Clash(p, q)}
      /\ \A p \in DOMAIN t : t[p] = IF p \in DOMAIN overlay THEN overlay[p] ELSE tree[p]
  BY MergeLeaves
<1> HIDE DEF t
<1>2. ASSUME NEW p \in DOMAIN t, NEW q \in DOMAIN t, Clash(p, q) PROVE p = q
  BY <1>1, <1>2, ClashSymmetric DEF IsTree
<1> QED BY <1>1, <1>2 DEF IsTree, t

-----------------------------------------------------------------------------
(* What is generated                                                       *)

LEMMA ImageMapPaths ==
    ASSUME NEW c
    PROVE  \E n \in {1, 2} : \A m \in ImageMaps(c) : m \in Path /\ Len(m) = n
<1>1. CASE c = "calico"
  <2>1. \A i \in {"cniImage", "nodeImage", "flexvolImage", "kubeControllerImage"} :
           <<"calico", i>> \in Path /\ Len(<<"calico", i>>) = 2
    BY PathsAssumption DEF Path, Written
  <2> QED BY <1>1, <2>1 DEF ImageMaps
<1>2. CASE c # "calico"
  <2>1. ImageMaps(c) \in {{<<"flannel", "image">>}, {<<"controller", "image">>},
                          {<<"autoscaler", "image">>}, {<<"image">>}}
    BY <1>2 DEF ImageMaps
  <2>2. /\ <<"flannel", "image">> \in Path /\ Len(<<"flannel", "image">>) = 2
        /\ <<"controller", "image">> \in Path /\ Len(<<"controller", "image">>) = 2
        /\ <<"autoscaler", "image">> \in Path /\ Len(<<"autoscaler", "image">>) = 2
        /\ <<"image">> \in Path /\ Len(<<"image">>) = 1
    BY PathsAssumption DEF Path, Written
  <2> QED BY <2>1, <2>2
<1> QED BY <1>1, <1>2

LEMMA KeyPath ==
    ASSUME NEW m \in Path, NEW key \in Key
    PROVE  LET p == Append(m, key)
           IN  /\ p \in Path /\ Len(p) = Len(m) + 1 /\ p[1] = m[1] /\ p[Len(p)] = key
               /\ Front(p) = m
BY DEF Path, Front

LEMMA ImageTagKeys == ASSUME NEW c PROVE ImageTagKey(c) \in Key /\ "repository" \in Key /\ ImageTagKey(c) # "repository"
BY PathsAssumption DEF ImageTagKey, Written

\* What is written, and where.
LEMMA GeneratedLeaves ==
    ASSUME NEW c, NEW tag
    PROVE  LET g == Generated(c, tag)
           IN  /\ g = [p \in DOMAIN g |-> g[p]]
               /\ DOMAIN g = ImageTagPaths(c) \cup RepositoryPaths(c)
               /\ \A p \in DOMAIN g : g[p] = IF p \in ImageTagPaths(c) THEN tag ELSE Repository[c]
BY DEF Generated

LEMMA GeneratedPaths ==
    ASSUME NEW c
    PROVE  \E n \in Nat : \A p \in ImageTagPaths(c) \cup RepositoryPaths(c) :
              p \in Path /\ Len(p) = n /\ \E m \in ImageMaps(c) : p[1] = m[1]
<1>1. PICK n \in {1, 2} : \A m \in ImageMaps(c) : m \in Path /\ Len(m) = n
  BY ImageMapPaths
<1>2. ImageTagKey(c) \in Key /\ "repository" \in Key
  BY ImageTagKeys
<1>3. ASSUME NEW m \in ImageMaps(c), NEW key \in Key
      PROVE  Append(m, key) \in Path /\ Len(Append(m, key)) = n + 1 /\ Append(m, key)[1] = m[1]
  BY <1>1, KeyPath
<1>4. \A p \in ImageTagPaths(c) \cup RepositoryPaths(c) :
        p \in Path /\ Len(p) = n + 1 /\ \E m \in ImageMaps(c) : p[1] = m[1]
  BY <1>2, <1>3, ZenonT(40) DEF ImageTagPaths, RepositoryPaths
<1>5. n + 1 \in Nat
  BY <1>1
<1> QED BY <1>4, <1>5

LEMMA GeneratedTree == ASSUME NEW c, NEW tag PROVE IsTree(Generated(c, tag))
<1> DEFINE g == Generated(c, tag)
<1>1. g = [p \in DOMAIN g |-> g[p]] /\ DOMAIN g = ImageTagPaths(c) \cup RepositoryPaths(c)
  BY GeneratedLeaves
<1> HIDE DEF g
<1>2. \A p, q \in DOMAIN g : p \in Path /\ q \in Path /\ Len(p) = Len(q)
  BY <1>1, GeneratedPaths
<1> QED BY <1>1, <1>2, ClashEqual DEF IsTree, g

-----------------------------------------------------------------------------
(* The invariant                                                           *)

\* Only a component whose bundled tag could be read is managed.
Bundled(c) == BundledImageTag(Defaults[chart], c) # NoValue

ValuesInv ==
    /\ chart \in Charts
    /\ IsTree(values)
    /\ managed \subseteq {c \in Component : Bundled(c)}

LEMMA ValuesInvariant == Spec => []ValuesInv
<1>1. Init => ValuesInv
  BY EmptyTree DEF Init, ValuesInv
<1>2. ValuesInv /\ [Next]_vars => ValuesInv'
  <2> SUFFICES ASSUME ValuesInv, [Next]_vars PROVE ValuesInv'
    OBVIOUS
  <2>1. CASE UNCHANGED vars
    BY <2>1 DEF vars, ValuesInv, Component, Bundled
  <2>2. ASSUME NEW c \in Component, NEW tag \in Tags, Patch(c, tag)
        PROVE  ValuesInv'
    <3>1. UNCHANGED chart /\ Bundled(c) /\ managed' = managed \cup {c}
          /\ values' = Merge(values, Generated(c, tag))
      BY <2>2 DEF Patch, Bundled
    <3>2. IsTree(values')
      BY <3>1, GeneratedTree, MergeTree DEF ValuesInv
    <3> QED BY <3>1, <3>2 DEF ValuesInv, Component, Bundled
  <2>3. ASSUME NEW c \in Component, Revert(c)
        PROVE  ValuesInv'
    <3>1. UNCHANGED chart /\ managed' = managed \ {c}
          /\ values' = Without(values, DOMAIN Generated(c, NoValue))
      BY <2>3 DEF Revert, Subtract
    <3>2. IsTree(values')
      BY <3>1, WithoutTree DEF ValuesInv
    <3> QED BY <3>1, <3>2 DEF ValuesInv, Component, Bundled
  <2>4. ASSUME NEW path \in UserPaths[chart], NEW scalar, UserSets(path, scalar)
        PROVE  ValuesInv'
    <3>1. UNCHANGED <<chart, managed>> /\ values' = Merge(values, [p \in {path} |-> scalar])
      BY <2>4 DEF UserSets
    <3>2. path \in Path
      BY PathsAssumption DEF ValuesInv
    <3>3. IsTree(values')
      BY <3>1, <3>2, LeafTree, MergeTree DEF ValuesInv
    <3> QED BY <3>1, <3>3 DEF ValuesInv, Component, Bundled
  <2>5. ASSUME NEW path \in UserPaths[chart], UserRemoves(path)
        PROVE  ValuesInv'
    <3>1. UNCHANGED <<chart, managed>> /\ values' = Without(values, {path})
      BY <2>5 DEF UserRemoves
    <3>2. IsTree(values')
      BY <3>1, WithoutTree DEF ValuesInv
    <3> QED BY <3>1, <3>2 DEF ValuesInv, Component, Bundled
  <2> QED BY <2>1, <2>2, <2>3, <2>4, <2>5 DEF Next
<1> QED BY <1>1, <1>2, PTL DEF Spec

-----------------------------------------------------------------------------
(* Comparing and merging                                                   *)

LEMMA PresentIsMerged ==
    ASSUME NEW tree, IsTree(tree), NEW g, IsTree(g)
    PROVE  Present(tree, g) <=> Merge(tree, g) = tree
<1> DEFINE t == Merge(tree, g)
<1>1. /\ t = [p \in DOMAIN t |-> t[p]]
      /\ DOMAIN t = DOMAIN g \cup {p \in DOMAIN tree : \A q \in DOMAIN g : ~Clash(p, q)}
      /\ \A p \in DOMAIN t : t[p] = IF p \in DOMAIN g THEN g[p] ELSE tree[p]
  BY MergeLeaves
<1> HIDE DEF t
<1>2. ASSUME Present(tree, g) PROVE t = tree
  <2>1. DOMAIN t = DOMAIN tree
    BY <1>1, <1>2 DEF Present, IsTree
  <2>2. \A p \in DOMAIN t : t[p] = tree[p]
    BY <1>1, <1>2 DEF Present
  <2> QED BY <1>1, <2>1, <2>2 DEF IsTree
<1>3. ASSUME t = tree PROVE Present(tree, g)
  BY <1>1, <1>3 DEF Present
<1> QED BY <1>2, <1>3 DEF t

LEMMA ScalarLeaves ==
    ASSUME NEW tree
    PROVE  LET s == Scalars(tree)
           IN  /\ DOMAIN s = {p \in DOMAIN tree : tree[p] # EmptyMap}
               /\ \A p \in DOMAIN s : s[p] = tree[p]
BY DEF Scalars, RestrictValues, Restrict

\* What is merged where there is no conflict loses no scalar.
LEMMA NoConflictKeeps ==
    ASSUME NEW tree, IsTree(tree), NEW g, IsTree(g), Conflicts(tree, g) = {}
    PROVE  IsRestriction(Scalars(tree), Merge(tree, g))
<1> DEFINE t == Merge(tree, g)
           s == Scalars(tree)
<1>1. /\ t = [p \in DOMAIN t |-> t[p]]
      /\ DOMAIN t = DOMAIN g \cup {p \in DOMAIN tree : \A q \in DOMAIN g : ~Clash(p, q)}
      /\ \A p \in DOMAIN t : t[p] = IF p \in DOMAIN g THEN g[p] ELSE tree[p]
  BY MergeLeaves
<1>2. /\ DOMAIN s = {p \in DOMAIN tree : tree[p] # EmptyMap}
      /\ \A p \in DOMAIN s : s[p] = tree[p]
  BY ScalarLeaves
<1> HIDE DEF t, s
<1>3. ASSUME NEW p \in DOMAIN s PROVE p \in DOMAIN t /\ t[p] = s[p]
  <2>1. p \in DOMAIN tree /\ tree[p] # EmptyMap /\ s[p] = tree[p] /\ p \in Path
    BY <1>2 DEF IsTree
  <2>2. \A q \in DOMAIN g : Clash(p, q) => p = q /\ tree[p] = g[p]
    BY <2>1 DEF Conflicts
  <2>3. CASE p \in DOMAIN g
    BY <1>1, <2>1, <2>2, <2>3, ClashSelf
  <2>4. CASE p \notin DOMAIN g
    BY <1>1, <2>1, <2>2, <2>4
  <2> QED BY <2>3, <2>4
<1> QED BY <1>3 DEF IsRestriction, t, s

\* A conflict is reported of what the merge would change only.
LEMMA ConflictChanges ==
    ASSUME NEW tree, IsTree(tree), NEW g, IsTree(g), Conflicts(tree, g) # {}
    PROVE  ~IsRestriction(tree, Merge(tree, g))
<1> DEFINE t == Merge(tree, g)
<1>1. /\ t = [p \in DOMAIN t |-> t[p]]
      /\ DOMAIN t = DOMAIN g \cup {p \in DOMAIN tree : \A q \in DOMAIN g : ~Clash(p, q)}
      /\ \A p \in DOMAIN t : t[p] = IF p \in DOMAIN g THEN g[p] ELSE tree[p]
  BY MergeLeaves
<1> HIDE DEF t
<1>2. PICK p \in DOMAIN tree, q \in DOMAIN g : Clash(p, q) /\ (p = q => tree[p] # g[p])
  BY DEF Conflicts
<1>3. CASE p = q
  BY <1>1, <1>2, <1>3 DEF IsRestriction, t
<1>4. CASE p # q
  <2>1. p \notin DOMAIN g
    BY <1>2, <1>4 DEF IsTree
  <2>2. p \notin DOMAIN t
    BY <1>1, <1>2, <2>1
  <2> QED BY <2>2 DEF IsRestriction, t
<1> QED BY <1>3, <1>4

\* The comparison of what is generated with the values says what the merge would do, whatever
\* users have put above, at or below the paths of the patcher.
THEOREM ComparisonIsRight == Spec => []ComparisonPredictsMerge
<1>1. ValuesInv => ComparisonPredictsMerge
  <2> SUFFICES ASSUME ValuesInv, NEW c \in Component, NEW tag \in Tags
               PROVE  LET g == Generated(c, tag)
                      IN  /\ Present(values, g) <=> Merge(values, g) = values
                          /\ Conflicts(values, g) = {} => IsRestriction(Scalars(values), Merge(values, g))
                          /\ Conflicts(values, g) # {} => ~IsRestriction(values, Merge(values, g))
    BY DEF ComparisonPredictsMerge
  <2> DEFINE g == Generated(c, tag)
  <2>1. IsTree(values) /\ IsTree(g)
    BY GeneratedTree DEF ValuesInv
  <2> HIDE DEF g
  <2>2. Present(values, g) <=> Merge(values, g) = values
    BY <2>1, PresentIsMerged
  <2>3. Conflicts(values, g) = {} => IsRestriction(Scalars(values), Merge(values, g))
    BY <2>1, NoConflictKeeps
  <2>4. Conflicts(values, g) # {} => ~IsRestriction(values, Merge(values, g))
    BY <2>1, ConflictChanges
  <2> QED BY <2>2, <2>3, <2>4 DEF g
<1> QED BY <1>1, ValuesInvariant, PTL

-----------------------------------------------------------------------------
(* Patching and reverting                                                  *)

LEMMA PatchedStep ==
    ASSUME ValuesInv, [Next]_vars, NEW c \in Component, Patched(c)
    PROVE  \E tag \in Tags : /\ Bundled(c) /\ Conflicts(values, Generated(c, tag)) = {}
                             /\ values' = Merge(values, Generated(c, tag))
<1>1. c \notin managed /\ c \in managed'
  BY DEF Patched
<1>2. PICK d \in Component, tag \in Tags : Patch(d, tag)
  BY <1>1 DEF Next, vars, Revert, UserSets, UserRemoves
<1>3. d = c
  BY <1>1, <1>2 DEF Patch
<1> QED BY <1>1, <1>2, <1>3 DEF Patch, Bundled

LEMMA RevertedStep ==
    ASSUME ValuesInv, [Next]_vars, NEW c \in Component, Reverted(c)
    PROVE  Bundled(c) /\ values' = Without(values, DOMAIN Generated(c, NoValue))
<1>1. c \in managed /\ c \notin managed'
  BY DEF Reverted
<1>2. PICK d \in Component : Revert(d)
  BY <1>1 DEF Next, vars, Patch, UserSets, UserRemoves
<1>3. d = c
  BY <1>1, <1>2 DEF Revert
<1> QED BY <1>1, <1>2, <1>3 DEF Revert, Subtract, Bundled, ValuesInv

\* Patching a component that is not managed loses nothing that users have set, and reverting it
\* only what is above, at or below its own image values.
THEOREM UsersValues == Spec => UsersValuesKept
<1>1. ValuesInv /\ [Next]_vars =>
        [\A c \in Component :
           /\ Patched(c) => IsRestriction(Scalars(values), values')
           /\ Reverted(c) => \A p \in DOMAIN values :
                (\A q \in DOMAIN Generated(c, NoValue) : ~Clash(p, q)) => Lookup(values', p) = values[p]
        ]_vars
  <2> SUFFICES ASSUME ValuesInv, [Next]_vars, NEW c \in Component
               PROVE  /\ Patched(c) => IsRestriction(Scalars(values), values')
                      /\ Reverted(c) => \A p \in DOMAIN values :
                           (\A q \in DOMAIN Generated(c, NoValue) : ~Clash(p, q))
                              => Lookup(values', p) = values[p]
    OBVIOUS
  <2>1. ASSUME Patched(c) PROVE IsRestriction(Scalars(values), values')
    <3>1. PICK tag \in Tags : /\ Bundled(c) /\ Conflicts(values, Generated(c, tag)) = {}
                              /\ values' = Merge(values, Generated(c, tag))
      BY <2>1, PatchedStep
    <3>2. IsTree(values) /\ IsTree(Generated(c, tag))
      BY GeneratedTree DEF ValuesInv
    <3> QED BY <3>1, <3>2, NoConflictKeeps
  <2>2. ASSUME Reverted(c), NEW p \in DOMAIN values,
               \A q \in DOMAIN Generated(c, NoValue) : ~Clash(p, q)
        PROVE  Lookup(values', p) = values[p]
    <3>1. values' = Without(values, DOMAIN Generated(c, NoValue))
      BY <2>2, RevertedStep
    <3>2. p \in DOMAIN values' /\ values'[p] = values[p]
      <4> DEFINE G == DOMAIN Generated(c, NoValue)
                 t == Without(values, G)
      <4>1. /\ t = [q \in DOMAIN t |-> t[q]]
            /\ DOMAIN t = {r \in DOMAIN values : \A q \in G : ~Clash(r, q)}
            /\ \A r \in DOMAIN t : t[r] = values[r]
        BY WithoutLeaves
      <4>2. values' = t /\ \A q \in G : ~Clash(p, q)
        BY <2>2, <3>1
      <4> HIDE DEF G, t
      <4> QED BY <4>1, <4>2
    <3> QED BY <3>2 DEF Lookup
  <2> QED BY <2>1, <2>2
<1> QED BY <1>1, ValuesInvariant, PTL DEF Spec, UsersValuesKept

-----------------------------------------------------------------------------
(* What is rendered                                                        *)

LEMMA OverridingLeaves ==
    ASSUME NEW tree
    PROVE  LET o == Overriding(tree)
           IN  /\ DOMAIN o = {p \in DOMAIN tree :
                                tree[p] = EmptyMap =>
                                   \A q \in DOMAIN Defaults[chart] : ~IsStrictPrefix(p, q)}
               /\ \A p \in DOMAIN o : o[p] = tree[p]
BY DEF Overriding, RestrictDomain, Restrict

\* What is rendered at a path depends on the leaves that are above, at or below it.
LEMMA RenderedAt ==
    ASSUME NEW tree, DOMAIN tree \subseteq Path, NEW other, DOMAIN other \subseteq Path, NEW x \in Path,
           \A p \in Path : Clash(p, x) => /\ p \in DOMAIN tree <=> p \in DOMAIN other
                                          /\ p \in DOMAIN tree => tree[p] = other[p]
    PROVE  Lookup(Rendered(tree), x) = Lookup(Rendered(other), x)
<1> DEFINE o == Overriding(tree)
           u == Overriding(other)
           base == Defaults[chart]
<1>1. /\ DOMAIN o = {p \in DOMAIN tree : tree[p] = EmptyMap => \A q \in DOMAIN base : ~IsStrictPrefix(p, q)}
      /\ \A p \in DOMAIN o : o[p] = tree[p]
  BY OverridingLeaves
<1>2. /\ DOMAIN u = {p \in DOMAIN other : other[p] = EmptyMap => \A q \in DOMAIN base : ~IsStrictPrefix(p, q)}
      /\ \A p \in DOMAIN u : u[p] = other[p]
  BY OverridingLeaves
<1> HIDE DEF o, u, base
<1>3. ASSUME NEW p \in Path, Clash(p, x)
      PROVE  (p \in DOMAIN o <=> p \in DOMAIN u) /\ (p \in DOMAIN o => o[p] = u[p])
  BY <1>1, <1>2, <1>3
<1>4. DOMAIN o \subseteq Path /\ DOMAIN u \subseteq Path
  BY <1>1, <1>2
<1>5. (x \in DOMAIN o <=> x \in DOMAIN u) /\ (x \in DOMAIN o => o[x] = u[x])
  BY <1>3, ClashSelf
<1>6. (\A q \in DOMAIN o : ~Clash(x, q)) <=> (\A q \in DOMAIN u : ~Clash(x, q))
  BY <1>3, <1>4, ClashSymmetric
<1> DEFINE a == Merge(base, o)
           b == Merge(base, u)
<1>7. /\ a = [p \in DOMAIN a |-> a[p]]
      /\ DOMAIN a = DOMAIN o \cup {p \in DOMAIN base : \A q \in DOMAIN o : ~Clash(p, q)}
      /\ \A p \in DOMAIN a : a[p] = IF p \in DOMAIN o THEN o[p] ELSE base[p]
  BY MergeLeaves
<1>8. /\ b = [p \in DOMAIN b |-> b[p]]
      /\ DOMAIN b = DOMAIN u \cup {p \in DOMAIN base : \A q \in DOMAIN u : ~Clash(p, q)}
      /\ \A p \in DOMAIN b : b[p] = IF p \in DOMAIN u THEN u[p] ELSE base[p]
  BY MergeLeaves
<1> HIDE DEF a, b
<1>9. (x \in DOMAIN a <=> x \in DOMAIN b) /\ (x \in DOMAIN a => a[x] = b[x])
  BY <1>5, <1>6, <1>7, <1>8
<1> QED BY <1>9 DEF Lookup, Rendered, a, b, o, u, base

\* What is set to a scalar is rendered.
LEMMA RenderedScalar ==
    ASSUME NEW tree, NEW x \in DOMAIN tree, tree[x] # EmptyMap
    PROVE  Lookup(Rendered(tree), x) = tree[x]
<1> DEFINE o == Overriding(tree)
           base == Defaults[chart]
           a == Merge(base, o)
<1>1. x \in DOMAIN o /\ o[x] = tree[x]
  BY OverridingLeaves
<1> HIDE DEF o, base
<1>2. /\ a = [p \in DOMAIN a |-> a[p]]
      /\ DOMAIN a = DOMAIN o \cup {p \in DOMAIN base : \A q \in DOMAIN o : ~Clash(p, q)}
      /\ \A p \in DOMAIN a : a[p] = IF p \in DOMAIN o THEN o[p] ELSE base[p]
  BY MergeLeaves
<1> HIDE DEF a
<1>3. x \in DOMAIN a /\ a[x] = tree[x]
  BY <1>1, <1>2
<1> QED BY <1>3 DEF Lookup, Rendered, a, o, base

\* A component whose bundled tag can be read has its image in all the maps the patcher writes.
LEMMA BundledMaps ==
    ASSUME ValuesInv, NEW c \in Component, Bundled(c)
    PROVE  ImageMaps(c) = MapsOf(c)
<1> DEFINE base == Defaults[chart]
<1>1. c \in DOMAIN Repository
  BY ComponentsAssumption DEF ValuesInv, Component, ComponentsOf, Repository
<1>2. Repository[c] # NoValue
  BY <1>1, ComponentsAssumption
<1>3. {Lookup(base, p) : p \in RepositoryPaths(c)} = {Repository[c]}
  BY DEF Bundled, BundledImageTag
<1>4. ASSUME NEW m \in ImageMaps(c) PROVE m \in MapsOf(c)
  <2> DEFINE p == Append(m, "repository")
  <2>1. p \in RepositoryPaths(c)
    BY DEF RepositoryPaths
  <2>2. m \in Path
    BY ImageMapPaths
  <2>3. Front(p) = m
    BY <2>2, ImageTagKeys, KeyPath
  <2> HIDE DEF p
  <2>4. Lookup(base, p) = Repository[c]
    BY <1>3, <2>1
  <2>5. p \in DOMAIN base
    BY <1>2, <2>4 DEF Lookup
  <2> QED BY <2>3, <2>4, <2>5 DEF MapsOf, MapsIn, p
<1>5. MapsOf(c) \subseteq ImageMaps(c)
  BY <1>4, ChartsAssumption DEF MapsOf, ValuesInv, Component
<1> QED BY <1>4, <1>5

\* A leaf near an image of another component of the chart is not near those that are written.
LEMMA ImagesApart ==
    ASSUME ValuesInv, NEW c \in Component, NEW d \in Component, c # d, Bundled(c),
           NEW m \in MapsOf(d), NEW key \in Key, NEW p \in Path, Clash(p, Append(m, key)),
           NEW tag, NEW q \in DOMAIN Generated(c, tag)
    PROVE  ~Clash(p, q)
<1>1. m \in Path
  BY ChartsAssumption DEF MapsOf, ValuesInv, Component
<1>2. Append(m, key) \in Path /\ Append(m, key)[1] = m[1]
  BY <1>1, KeyPath
<1>3. p[1] = m[1]
  BY <1>2, ClashFirst
<1>4. q \in ImageTagPaths(c) \cup RepositoryPaths(c)
  BY GeneratedLeaves
<1>5. PICK n \in ImageMaps(c) : q \in Path /\ q[1] = n[1]
  BY <1>4, GeneratedPaths
<1>6. n \in MapsOf(c)
  BY BundledMaps
<1>7. Head(n) # Head(m)
  BY <1>6, ChartsAssumption DEF MapsOf, ValuesInv, Component
<1>8. n \in Path
  BY <1>6, ChartsAssumption DEF MapsOf, ValuesInv, Component
<1>9. Head(n) = n[1] /\ Head(m) = m[1]
  BY <1>1, <1>8 DEF Path
<1> QED BY <1>3, <1>5, <1>7, <1>9, ClashFirst

\* Patching or reverting a component leaves what is rendered near the images of others.
LEMMA OthersRendered ==
    ASSUME ValuesInv, [Next]_vars, NEW c \in Component, NEW d \in Component, c # d,
           Patched(c) \/ Reverted(c), NEW m \in MapsOf(d), NEW key \in Key
    PROVE  Lookup(Rendered(values'), Append(m, key)) = Lookup(Rendered(values), Append(m, key))
<1> DEFINE x == Append(m, key)
           tree == values
           other == values'
<1>1. x \in Path
  BY ChartsAssumption, KeyPath DEF MapsOf, ValuesInv, Component
<1>2. DOMAIN tree \subseteq Path
  BY DEF ValuesInv, IsTree
<1>3. ASSUME NEW p \in Path, Clash(p, x), NEW tag, Bundled(c)
      PROVE  \A q \in DOMAIN Generated(c, tag) : ~Clash(p, q)
  BY <1>3, ImagesApart
<1> HIDE DEF x
<1>4. /\ DOMAIN other \subseteq Path
      /\ \A p \in Path : Clash(p, x) => /\ p \in DOMAIN other <=> p \in DOMAIN tree
                                        /\ p \in DOMAIN other => other[p] = tree[p]
  <2>1. CASE Patched(c)
    <3>1. PICK tag \in Tags : Bundled(c) /\ other = Merge(tree, Generated(c, tag))
      BY <2>1, PatchedStep
    <3> DEFINE g == Generated(c, tag)
               t == Merge(tree, g)
    <3>2. /\ t = [p \in DOMAIN t |-> t[p]]
          /\ DOMAIN t = DOMAIN g \cup {p \in DOMAIN tree : \A q \in DOMAIN g : ~Clash(p, q)}
          /\ \A p \in DOMAIN t : t[p] = IF p \in DOMAIN g THEN g[p] ELSE tree[p]
      BY MergeLeaves
    <3>3. DOMAIN g \subseteq Path
      BY GeneratedTree DEF IsTree
    <3>4. \A p \in Path : Clash(p, x) => \A q \in DOMAIN g : ~Clash(p, q)
      BY <1>3, <3>1
    <3>5. other = t
      BY <3>1
    <3> HIDE DEF g, t, tree, other
    <3>6. \A p \in Path : Clash(p, x) => p \notin DOMAIN g
      BY <3>4, ClashSelf
    <3> QED BY <1>2, <3>2, <3>3, <3>4, <3>5, <3>6
  <2>2. CASE Reverted(c)
    <3> DEFINE G == DOMAIN Generated(c, NoValue)
               t == Without(tree, G)
    <3>1. Bundled(c) /\ other = t
      BY <2>2, RevertedStep
    <3>2. /\ t = [p \in DOMAIN t |-> t[p]]
          /\ DOMAIN t = {p \in DOMAIN tree : \A q \in G : ~Clash(p, q)}
          /\ \A p \in DOMAIN t : t[p] = tree[p]
      BY WithoutLeaves
    <3>3. \A p \in Path : Clash(p, x) => \A q \in G : ~Clash(p, q)
      BY <1>3, <3>1
    <3> HIDE DEF G, t, tree, other
    <3> QED BY <1>2, <3>1, <3>2, <3>3
  <2> QED BY <2>1, <2>2
<1> HIDE DEF tree, other
<1>5. Lookup(Rendered(other), x) = Lookup(Rendered(tree), x)
  BY <1>1, <1>2, <1>4, RenderedAt
<1> QED BY <1>5 DEF x, tree, other

\* Patching or reverting a component leaves the images of the others of a shared chart alone:
\* the guard of BundledImageTag keeps a component whose paths hold another image from being
\* patched at all.
THEOREM OtherImages == Spec => OtherImagesKept
<1>1. ValuesInv /\ [Next]_vars =>
        [\A c, d \in Component :
           c # d /\ (Patched(c) \/ Reverted(c)) =>
              \A m \in MapsOf(d) : Image(values', d, m) = Image(values, d, m)]_vars
  <2> SUFFICES ASSUME ValuesInv, [Next]_vars, NEW c \in Component, NEW d \in Component,
                      c # d, Patched(c) \/ Reverted(c), NEW m \in MapsOf(d)
               PROVE  Image(values', d, m) = Image(values, d, m)
    OBVIOUS
  <2>1. "repository" \in Key /\ ImageTagKey(d) \in Key
    BY ImageTagKeys
  <2>2. \A key \in Key :
           Lookup(Rendered(values'), Append(m, key)) = Lookup(Rendered(values), Append(m, key))
    BY OthersRendered
  <2> QED BY <2>1, <2>2 DEF Image
<1> QED BY <1>1, ValuesInvariant, PTL DEF Spec, OtherImagesKept

-----------------------------------------------------------------------------
(* The image of a component                                                *)

LEMMA WrittenLeaves ==
    ASSUME NEW c, NEW tag, NEW m \in ImageMaps(c)
    PROVE  LET g == Generated(c, tag)
           IN  /\ Append(m, "repository") \in DOMAIN g /\ g[Append(m, "repository")] = Repository[c]
               /\ Append(m, ImageTagKey(c)) \in DOMAIN g /\ g[Append(m, ImageTagKey(c))] = tag
<1> DEFINE g == Generated(c, tag)
           r == Append(m, "repository")
           t == Append(m, ImageTagKey(c))
<1>1. /\ g = [p \in DOMAIN g |-> g[p]]
      /\ DOMAIN g = ImageTagPaths(c) \cup RepositoryPaths(c)
      /\ \A p \in DOMAIN g : g[p] = IF p \in ImageTagPaths(c) THEN tag ELSE Repository[c]
  BY GeneratedLeaves
<1>2. r \in RepositoryPaths(c) /\ t \in ImageTagPaths(c)
  BY DEF RepositoryPaths, ImageTagPaths
\* A repository is not written where a tag is.
<1>3. r \notin ImageTagPaths(c)
  <2> SUFFICES ASSUME NEW n \in ImageMaps(c), r = Append(n, ImageTagKey(c)) PROVE FALSE
    BY DEF ImageTagPaths
  <2>1. m \in Path /\ n \in Path
    BY ImageMapPaths
  <2>2. r[Len(r)] = "repository"
    BY <2>1, ImageTagKeys, KeyPath
  <2>3. Append(n, ImageTagKey(c))[Len(Append(n, ImageTagKey(c)))] = ImageTagKey(c)
    BY <2>1, ImageTagKeys, KeyPath
  <2> HIDE DEF r
  <2> QED BY <2>2, <2>3, ImageTagKeys
<1> HIDE DEF g, r, t
<1>4. /\ r \in DOMAIN g /\ g[r] = Repository[c]
      /\ t \in DOMAIN g /\ g[t] = tag
  BY <1>1, <1>2, <1>3
<1> QED BY <1>4 DEF g, r, t

\* A component that is patched runs the tag wherever its chart uses its image, and one that is
\* reverted runs what the chart bundles, whatever users have made of its values since.
THEOREM ImagesArePatched == Spec => EveryImagePatched
<1>1. ValuesInv /\ [Next]_vars =>
        [\A c \in Component : \A m \in MapsOf(c) :
           /\ Patched(c) => \E tag \in Tags :
                /\ values' = Merge(values, Generated(c, tag))
                /\ Image(values', c, m) = [repository |-> Repository[c], tag |-> tag]
           /\ Reverted(c) => Image(values', c, m) = Image(<<>>, c, m)]_vars
  <2> SUFFICES ASSUME ValuesInv, [Next]_vars, NEW c \in Component, NEW m \in MapsOf(c)
               PROVE  /\ Patched(c) => \E tag \in Tags :
                           /\ values' = Merge(values, Generated(c, tag))
                           /\ Image(values', c, m) = [repository |-> Repository[c], tag |-> tag]
                      /\ Reverted(c) => Image(values', c, m) = Image(<<>>, c, m)
    OBVIOUS
  <2> DEFINE r == Append(m, "repository")
             t == Append(m, ImageTagKey(c))
  <2>1. ASSUME Patched(c)
        PROVE  \E tag \in Tags :
                 /\ values' = Merge(values, Generated(c, tag))
                 /\ Image(values', c, m) = [repository |-> Repository[c], tag |-> tag]
    <3>1. PICK tag \in Tags : Bundled(c) /\ values' = Merge(values, Generated(c, tag))
      BY <2>1, PatchedStep
    <3> DEFINE g == Generated(c, tag)
               new == Merge(values, g)
    <3>2. m \in ImageMaps(c)
      BY <3>1, BundledMaps
    <3>3. /\ r \in DOMAIN g /\ g[r] = Repository[c]
          /\ t \in DOMAIN g /\ g[t] = tag
      BY <3>2, WrittenLeaves
    <3>4. /\ new = [p \in DOMAIN new |-> new[p]]
          /\ DOMAIN new = DOMAIN g \cup {p \in DOMAIN values : \A q \in DOMAIN g : ~Clash(p, q)}
          /\ \A p \in DOMAIN new : new[p] = IF p \in DOMAIN g THEN g[p] ELSE values[p]
      BY MergeLeaves
    <3>5. tag # EmptyMap /\ Repository[c] # EmptyMap
      BY ComponentsAssumption DEF ValuesInv, Component, ComponentsOf, Repository
    <3>6. values' = new
      BY <3>1
    <3> HIDE DEF g, new, r, t
    <3>7. /\ r \in DOMAIN new /\ new[r] = Repository[c]
          /\ t \in DOMAIN new /\ new[t] = tag
      BY <3>3, <3>4
    <3>8. Lookup(Rendered(new), r) = Repository[c] /\ Lookup(Rendered(new), t) = tag
      BY <3>5, <3>7, RenderedScalar
    <3>9. Image(values', c, m) = [repository |-> Repository[c], tag |-> tag]
      BY <3>6, <3>8 DEF Image, r, t
    <3> QED BY <3>1, <3>9
  <2>2. ASSUME Reverted(c)
        PROVE  Image(values', c, m) = Image(<<>>, c, m)
    <3> DEFINE g == Generated(c, NoValue)
               new == Without(values, DOMAIN g)
    <3>1. Bundled(c) /\ values' = new
      BY <2>2, RevertedStep
    <3>2. m \in ImageMaps(c)
      BY <3>1, BundledMaps
    <3>3. r \in DOMAIN g /\ t \in DOMAIN g
      BY <3>2, WrittenLeaves
    <3>4. DOMAIN g \subseteq Path
      BY GeneratedTree DEF IsTree
    <3>5. /\ new = [p \in DOMAIN new |-> new[p]]
          /\ DOMAIN new = {p \in DOMAIN values : \A q \in DOMAIN g : ~Clash(p, q)}
          /\ \A p \in DOMAIN new : new[p] = values[p]
      BY WithoutLeaves
    <3>6. DOMAIN new \subseteq Path
      BY <3>5 DEF ValuesInv, IsTree
    <3> HIDE DEF g, new, r, t
    <3>7. ASSUME NEW x \in {r, t}
          PROVE  Lookup(Rendered(new), x) = Lookup(Rendered(<<>>), x)
      <4>1. x \in DOMAIN g /\ x \in Path
        BY <3>3, <3>4
      <4>2. \A p \in Path : Clash(p, x) => p \notin DOMAIN new
        BY <3>5, <4>1
      <4>3. DOMAIN <<>> = {}
        BY EmptyTree
      <4> DEFINE none == <<>>
      <4>4. DOMAIN none = {}
        BY <4>3
      <4> HIDE DEF none
      <4>5. Lookup(Rendered(new), x) = Lookup(Rendered(none), x)
        BY <3>6, <4>1, <4>2, <4>4, RenderedAt
      <4> QED BY <4>5 DEF none
    <3> QED BY <3>1, <3>7 DEF Image, r, t
  <2> QED BY <2>1, <2>2
<1> QED BY <1>1, ValuesInvariant, PTL DEF Spec, EveryImagePatched

-----------------------------------------------------------------------------
(* Taking back what was written                                            *)

\* Two trees with the same leaves are the same.
LEMMA SameTree ==
    ASSUME NEW s, NEW t, s = [p \in DOMAIN s |-> s[p]], t = [p \in DOMAIN t |-> t[p]],
           DOMAIN s = DOMAIN t, \A p \in DOMAIN s : s[p] = t[p]
    PROVE  s = t
OBVIOUS

\* "No record of what was applied": a revert subtracts what would be generated by then, for
\* whatever tag, from what was merged. It gives back the document without the component's
\* image values, which is the document itself when nobody had set any.
THEOREM RevertUndoesPatch ==
    ASSUME NEW tree, IsTree(tree), NEW c, NEW applied, NEW now
    PROVE  LET g == Generated(c, applied)
               reverted == Subtract(Merge(tree, g), Generated(c, now))
           IN  /\ reverted = Without(tree, DOMAIN g)
               /\ (\A p \in DOMAIN tree, q \in DOMAIN g : ~Clash(p, q)) => reverted = tree
<1> DEFINE g == Generated(c, applied)
           merged == Merge(tree, g)
           reverted == Without(merged, DOMAIN g)
           rest == Without(tree, DOMAIN g)
<1>1. Subtract(merged, Generated(c, now)) = reverted
  <2>1. DOMAIN Generated(c, now) = DOMAIN g
    BY GeneratedLeaves
  <2> HIDE DEF g, merged
  <2> QED BY <2>1 DEF Subtract, reverted
<1>2. IsTree(g)
  BY GeneratedTree
<1>3. /\ DOMAIN merged = DOMAIN g \cup {p \in DOMAIN tree : \A q \in DOMAIN g : ~Clash(p, q)}
      /\ \A p \in DOMAIN merged : merged[p] = IF p \in DOMAIN g THEN g[p] ELSE tree[p]
  BY MergeLeaves
<1> HIDE DEF g, merged
<1>4. /\ reverted = [p \in DOMAIN reverted |-> reverted[p]]
      /\ DOMAIN reverted = {p \in DOMAIN merged : \A q \in DOMAIN g : ~Clash(p, q)}
      /\ \A p \in DOMAIN reverted : reverted[p] = merged[p]
  BY WithoutLeaves
<1>5. /\ rest = [p \in DOMAIN rest |-> rest[p]]
      /\ DOMAIN rest = {p \in DOMAIN tree : \A q \in DOMAIN g : ~Clash(p, q)}
      /\ \A p \in DOMAIN rest : rest[p] = tree[p]
  BY WithoutLeaves
<1> HIDE DEF reverted, rest
\* What was written clashes with itself.
<1>6. \A p \in DOMAIN g : p \in Path /\ Clash(p, p)
  BY <1>2, ClashSelf DEF IsTree
<1>7. DOMAIN reverted = DOMAIN rest /\ \A p \in DOMAIN rest : reverted[p] = rest[p]
  BY <1>3, <1>4, <1>5, <1>6
<1>8. reverted = rest
  BY <1>4, <1>5, <1>7, SameTree
<1>9. (\A p \in DOMAIN tree, q \in DOMAIN g : ~Clash(p, q)) => rest = tree
  <2> SUFFICES ASSUME \A p \in DOMAIN tree, q \in DOMAIN g : ~Clash(p, q) PROVE rest = tree
    OBVIOUS
  <2>1. tree = [p \in DOMAIN tree |-> tree[p]]
    BY DEF IsTree
  <2>2. DOMAIN rest = DOMAIN tree
    BY <1>5
  <2> QED BY <1>5, <2>1, <2>2, SameTree
<1> QED BY <1>1, <1>8, <1>9 DEF g, merged, rest

\* The ImagePatches of a shared chart write the same document, in any order: patching two
\* components, or patching one and reverting the other, comes to the same either way.
THEOREM OrderDoesNotMatter ==
    ASSUME ValuesInv, NEW c \in Component, NEW d \in Component, c # d, Bundled(c), Bundled(d),
           NEW tree, IsTree(tree), NEW s, NEW t
    PROVE  LET g == Generated(c, s)
               h == Generated(d, t)
           IN  /\ Merge(Merge(tree, g), h) = Merge(Merge(tree, h), g)
               /\ Subtract(Merge(tree, g), h) = Merge(Subtract(tree, h), g)
<1> DEFINE g == Generated(c, s)
           h == Generated(d, t)
<1>1. ASSUME NEW p \in DOMAIN g, NEW q \in DOMAIN h PROVE ~Clash(p, q) /\ p # q
  <2>1. h = [x \in DOMAIN h |-> h[x]] /\ DOMAIN h = ImageTagPaths(d) \cup RepositoryPaths(d)
    BY GeneratedLeaves
  <2>2. PICK m \in ImageMaps(d), key \in Key : q = Append(m, key)
    <3>1. q \in ImageTagPaths(d) \cup RepositoryPaths(d)
      BY <2>1
    <3> QED BY <3>1, ImageTagKeys DEF ImageTagPaths, RepositoryPaths
  <2>3. m \in MapsOf(d)
    BY BundledMaps
  <2>4. q \in Path
    BY <1>1, GeneratedTree DEF IsTree
  <2>5. Clash(q, Append(m, key)) /\ Clash(q, q)
    BY <2>2, <2>4, ClashSelf
  <2> HIDE DEF h
  <2>6. ~Clash(q, p)
    BY <1>1, <2>3, <2>4, <2>5, ImagesApart
  <2> QED BY <2>5, <2>6, ClashSymmetric
<1> HIDE DEF g, h
<1> DEFINE with == Merge(tree, g)
           both == Merge(with, h)
           other == Merge(tree, h)
           same == Merge(other, g)
           less == Without(with, DOMAIN h)
           rest == Without(tree, DOMAIN h)
           kept == Merge(rest, g)
<1>2. /\ DOMAIN with = DOMAIN g \cup {p \in DOMAIN tree : \A q \in DOMAIN g : ~Clash(p, q)}
      /\ \A p \in DOMAIN with : with[p] = IF p \in DOMAIN g THEN g[p] ELSE tree[p]
  BY MergeLeaves
<1>3. /\ DOMAIN other = DOMAIN h \cup {p \in DOMAIN tree : \A q \in DOMAIN h : ~Clash(p, q)}
      /\ \A p \in DOMAIN other : other[p] = IF p \in DOMAIN h THEN h[p] ELSE tree[p]
  BY MergeLeaves
<1>4. /\ DOMAIN rest = {p \in DOMAIN tree : \A q \in DOMAIN h : ~Clash(p, q)}
      /\ \A p \in DOMAIN rest : rest[p] = tree[p]
  BY WithoutLeaves
<1> HIDE DEF with, other, rest
<1>5. /\ both = [p \in DOMAIN both |-> both[p]]
      /\ DOMAIN both = DOMAIN h \cup {p \in DOMAIN with : \A q \in DOMAIN h : ~Clash(p, q)}
      /\ \A p \in DOMAIN both : both[p] = IF p \in DOMAIN h THEN h[p] ELSE with[p]
  BY MergeLeaves
<1>6. /\ same = [p \in DOMAIN same |-> same[p]]
      /\ DOMAIN same = DOMAIN g \cup {p \in DOMAIN other : \A q \in DOMAIN g : ~Clash(p, q)}
      /\ \A p \in DOMAIN same : same[p] = IF p \in DOMAIN g THEN g[p] ELSE other[p]
  BY MergeLeaves
<1>7. /\ less = [p \in DOMAIN less |-> less[p]]
      /\ DOMAIN less = {p \in DOMAIN with : \A q \in DOMAIN h : ~Clash(p, q)}
      /\ \A p \in DOMAIN less : less[p] = with[p]
  BY WithoutLeaves
<1>8. /\ kept = [p \in DOMAIN kept |-> kept[p]]
      /\ DOMAIN kept = DOMAIN g \cup {p \in DOMAIN rest : \A q \in DOMAIN g : ~Clash(p, q)}
      /\ \A p \in DOMAIN kept : kept[p] = IF p \in DOMAIN g THEN g[p] ELSE rest[p]
  BY MergeLeaves
<1> HIDE DEF both, same, less, kept
<1>9. both = same
  <2>1. DOMAIN both = DOMAIN same
    BY <1>1, <1>2, <1>3, <1>5, <1>6, ClashSymmetric
  <2>2. \A p \in DOMAIN both : both[p] = same[p]
    BY <1>1, <1>2, <1>3, <1>5, <1>6, <2>1
  <2> QED BY <1>5, <1>6, <2>1, <2>2, SameTree
<1>10. less = kept
  <2>1. DOMAIN less = DOMAIN kept
    BY <1>1, <1>2, <1>4, <1>7, <1>8
  <2>2. \A p \in DOMAIN less : less[p] = kept[p]
    BY <1>1, <1>2, <1>4, <1>7, <1>8, <2>1
  <2> QED BY <1>7, <1>8, <2>1, <2>2, SameTree
<1> QED BY <1>9, <1>10 DEF Subtract, both, same, less, kept, with, other, rest, g, h
=============================================================================
