---------------------------- MODULE PatchValues -----------------------------
(***************************************************************************)
(* The values the patcher writes (internal/patcher): what it generates for *)
(* a component, how that is compared with, merged into and subtracted from *)
(* the values of a HelmChartConfig that users edit and the components of a *)
(* chart share, and how the bundled tag is read from the chart's defaults. *)
(*                                                                         *)
(* A tree of YAML values is the function from the paths of its leaves to   *)
(* their scalars, where an empty map counts as the leaf EmptyMap: no path  *)
(* is a prefix of another one.                                             *)
(***************************************************************************)
EXTENDS Functions, SequencesExt

CONSTANTS
    Charts,         \* the charts that are looked at
    Key,            \* the keys of documents of values
    Defaults,       \* Chart -> the default values of the chart RKE2 bundles
    Tags,           \* the tags an ImagePatch asks for
    UserPaths,      \* bound: Chart -> the paths users set
    UserScalars,    \* bound: the scalars users set
    EmptyMap,       \* an empty map
    NoValue,        \* what is at a path that is not set
    MaxEdits        \* bound: how many edits users make

\* The keys the patcher writes.
Written == {"image", "controller", "autoscaler", "flannel", "calico", "cniImage", "nodeImage",
            "flexvolImage", "kubeControllerImage", "repository", "tag", "primeTag"}

\* The paths of leaves: a document of values is a map.
Path == Seq(Key) \ {<<>>}

ASSUME PathsAssumption ==
    /\ Written \subseteq Key
    /\ \A k \in Charts : UserPaths[k] \cup DOMAIN Defaults[k] \subseteq Path

VARIABLES
    chart,          \* the chart the HelmChartConfig belongs to
    values,         \* the valuesContent of the HelmChartConfig
    managed,        \* the components with the managed annotation
    edits           \* how many edits users have made

vars == <<chart, values, managed, edits>>

-----------------------------------------------------------------------------
(* The components of a chart and their images                              *)

Repository == [
    traefik |-> "hardened-traefik", ingressNginx |-> "nginx-ingress-controller",
    coredns |-> "hardened-coredns", dnsNodeCache |-> "hardened-dns-node-cache",
    autoscaler |-> "hardened-cluster-autoscaler", calico |-> "hardened-calico",
    canalFlannel |-> "hardened-flannel", snapshot |-> "hardened-snapshot-controller"]

ComponentsOf == [
    traefik |-> {"traefik"}, ingressNginx |-> {"ingressNginx"},
    coredns |-> {"coredns", "dnsNodeCache", "autoscaler"},
    canal |-> {"calico", "canalFlannel"}, snapshot |-> {"snapshot"}]

ASSUME ComponentsAssumption ==
    /\ Charts \subseteq DOMAIN ComponentsOf
    /\ \A c \in DOMAIN Repository : Repository[c] \notin {NoValue, EmptyMap}
    /\ EmptyMap \notin Tags

Component == ComponentsOf[chart]

\* renderValuesContent: the maps it writes a repository and a tag into.
ImageMaps(c) ==
    CASE c = "calico" ->
           {<<"calico", i>> : i \in {"cniImage", "nodeImage", "flexvolImage", "kubeControllerImage"}}
      [] c = "canalFlannel" -> {<<"flannel", "image">>}
      [] c \in {"ingressNginx", "snapshot"} -> {<<"controller", "image">>}
      [] c = "autoscaler" -> {<<"autoscaler", "image">>}
      [] OTHER -> {<<"image">>}

ImageTagKey(c) == IF c = "ingressNginx" THEN "primeTag" ELSE "tag"

ImageTagPaths(c) == {Append(m, ImageTagKey(c)) : m \in ImageMaps(c)}
RepositoryPaths(c) == {Append(m, "repository") : m \in ImageMaps(c)}

Generated(c, tag) ==
    [p \in ImageTagPaths(c) \cup RepositoryPaths(c) |->
        IF p \in ImageTagPaths(c) THEN tag ELSE Repository[c]]

-----------------------------------------------------------------------------
(* Trees                                                                   *)

\* The leaves that can not be in one tree with a leaf at path.
Clash(path, other) == IsPrefix(path, other) \/ IsPrefix(other, path)

Without(tree, paths) == RestrictDomain(tree, LAMBDA p : \A q \in paths : ~Clash(p, q))

\* mergeMapsWithOverride: the overlay wins, where one has a map and the other has none too.
Merge(tree, overlay) ==
    [p \in DOMAIN overlay \cup DOMAIN Without(tree, DOMAIN overlay) |->
        IF p \in DOMAIN overlay THEN overlay[p] ELSE tree[p]]

\* Mutant: only what the patcher wrote itself is removed.
SubtractEqual(tree, toRemove) ==
    RestrictDomain(tree, LAMBDA p : p \notin DOMAIN toRemove \/ tree[p] # toRemove[p])

\* deepSubtractMap: whatever the values are; a map that becomes empty goes away.
Subtract(tree, toRemove) == Without(tree, DOMAIN toRemove)

\* Mutant: a scalar where the patcher writes a map is no conflict.
ConflictsOfLeaves(tree, generated) ==
    {p \in DOMAIN tree : p \in DOMAIN generated /\ tree[p] # generated[p]}

\* compareLeaves: the leaves of the tree that are set to something else ...
Conflicts(tree, generated) ==
    {p \in DOMAIN tree : \E q \in DOMAIN generated :
        /\ Clash(p, q)
        /\ p = q => tree[p] # generated[p]
        /\ tree[p] = EmptyMap => ~IsStrictPrefix(p, q)}

\* Mutant: only the paths are compared.
PresentPaths(tree, generated) == DOMAIN generated \subseteq DOMAIN tree

\* ... and whether the tree has all that is generated.
Present(tree, generated) ==
    /\ DOMAIN generated \subseteq DOMAIN tree
    /\ \A p \in DOMAIN generated : tree[p] = generated[p]

Lookup(tree, path) == IF path \in DOMAIN tree THEN tree[path] ELSE NoValue

\* Mutant: the repository next to the tag is not looked at.
BundledTagUnchecked(tree, c) ==
    LET found == {Lookup(tree, p) : p \in ImageTagPaths(c)}
    IN  IF Cardinality(found) = 1 THEN CHOOSE t \in found : TRUE ELSE NoValue

\* BundledImageTag: one tag at all paths, each beside the repository of the component, or none.
BundledImageTag(tree, c) ==
    LET found == {Lookup(tree, p) : p \in ImageTagPaths(c)}
        repositories == {Lookup(tree, p) : p \in RepositoryPaths(c)}
    IN  IF repositories = {Repository[c]} /\ Cardinality(found) = 1
        THEN CHOOSE t \in found : TRUE ELSE NoValue

-----------------------------------------------------------------------------
(* The patcher and the users                                               *)

Init ==
    /\ chart \in Charts
    /\ values = <<>>
    /\ managed = {}
    /\ edits = 0

\* With the guards of the controller: the bundled tag can be read, and values that somebody
\* else has set are left alone.  The CLI, which merges without them, is not modelled here.
Patch(c, tag) ==
    /\ BundledImageTag(Defaults[chart], c) \notin {NoValue, tag}
    /\ ~(c \in managed /\ Present(values, Generated(c, tag)))
    /\ c \in managed \/ Conflicts(values, Generated(c, tag)) = {}
    /\ values' = Merge(values, Generated(c, tag))
    /\ managed' = managed \cup {c}
    /\ UNCHANGED <<chart, edits>>

\* The keys depend only on the component, so the tag is a dummy.
Revert(c) ==
    /\ c \in managed
    /\ values' = Subtract(values, Generated(c, NoValue))
    /\ managed' = managed \ {c}
    /\ UNCHANGED <<chart, edits>>

UserSets(path, scalar) ==
    /\ edits < MaxEdits
    /\ Lookup(values, path) # scalar
    /\ values' = Merge(values, [p \in {path} |-> scalar])
    /\ edits' = edits + 1
    /\ UNCHANGED <<chart, managed>>

UserRemoves(path) ==
    /\ edits < MaxEdits
    /\ path \in DOMAIN values
    /\ values' = Without(values, {path})
    /\ edits' = edits + 1
    /\ UNCHANGED <<chart, managed>>

Next ==
    \/ \E c \in Component : Revert(c) \/ (\E tag \in Tags : Patch(c, tag))
    \/ \E path \in UserPaths[chart] :
         UserRemoves(path) \/ (\E scalar \in UserScalars : UserSets(path, scalar))

Spec == Init /\ [][Next]_vars

-----------------------------------------------------------------------------
(* Properties                                                              *)

Patched(c) == c \notin managed /\ c \in managed'
Reverted(c) == c \in managed /\ c \notin managed'
Scalars(tree) == RestrictValues(tree, LAMBDA v : v # EmptyMap)

\* What helm renders: the values of the HelmChartConfig over the defaults of the chart, where an
\* empty map hides nothing of a map.
Overriding(tree) ==
    RestrictDomain(tree, LAMBDA p :
        tree[p] = EmptyMap => \A q \in DOMAIN Defaults[chart] : ~IsStrictPrefix(p, q))
Rendered(tree) == Merge(Defaults[chart], Overriding(tree))

\* The maps in which a chart itself keeps the image of a component, and what is rendered there.
MapsIn(k, c) == {m \in {Front(p) : p \in DOMAIN Defaults[k]} :
                   Lookup(Defaults[k], Append(m, "repository")) = Repository[c]}
MapsOf(c) == MapsIn(chart, c)
Image(tree, c, m) == [repository |-> Lookup(Rendered(tree), Append(m, "repository")),
                      tag |-> Lookup(Rendered(tree), Append(m, ImageTagKey(c)))]

\* The charts: the images of different components are under different keys of the document, and
\* a component that has its image in all the maps the patcher writes has it in no other.
ASSUME ChartsAssumption ==
    \A k \in Charts : \A c \in ComponentsOf[k] :
        /\ MapsIn(k, c) \subseteq Path
        /\ \A d \in ComponentsOf[k] \ {c} : \A m \in MapsIn(k, c), n \in MapsIn(k, d) : Head(m) # Head(n)
        /\ ImageMaps(c) \subseteq MapsIn(k, c) => MapsIn(k, c) \subseteq ImageMaps(c)

\* The comparison says what the merge would do, although the two walk the trees separately:
\* present when it changes nothing, no conflict when it loses no scalar, a conflict only when it
\* changes something.
ComparisonPredictsMerge ==
    \A c \in Component, tag \in Tags :
        LET generated == Generated(c, tag)
            merged == Merge(values, generated)
            conflicts == Conflicts(values, generated)
        IN  /\ Present(values, generated) <=> merged = values
            /\ conflicts = {} => IsRestriction(Scalars(values), merged)
            /\ conflicts # {} => ~IsRestriction(values, merged)

\* Patching an unmanaged component loses nothing users have set, and reverting it leaves
\* everything that is not below or above its own image values.
UsersValuesKept ==
    [][\A c \in Component :
         /\ Patched(c) => IsRestriction(Scalars(values), values')
         /\ Reverted(c) => \A p \in DOMAIN values :
              (\A q \in DOMAIN Generated(c, NoValue) : ~Clash(p, q)) => Lookup(values', p) = values[p]
      ]_vars

\* "a patcher path that points at another image of a shared chart is reported": patching or
\* reverting a component leaves the images of the others of the chart alone.
OtherImagesKept ==
    [][\A c, d \in Component :
         c # d /\ (Patched(c) \/ Reverted(c)) =>
            \A m \in MapsOf(d) : Image(values', d, m) = Image(values, d, m)]_vars

\* A patched component runs the tag in every place where its chart uses its image, and a
\* reverted one runs the bundled tag, whatever users have made of its values since.
EveryImagePatched ==
    [][\A c \in Component : \A m \in MapsOf(c) :
         /\ Patched(c) => \E tag \in Tags :
              /\ values' = Merge(values, Generated(c, tag))
              /\ Image(values', c, m) = [repository |-> Repository[c], tag |-> tag]
         /\ Reverted(c) => Image(values', c, m) = Image(<<>>, c, m)]_vars
=============================================================================
