--------------------------- MODULE CatalogVersions ---------------------------
(***************************************************************************)
(* Which version of a declared catalog an ATTACH selects (src/catalog.cpp: *)
(* parse_semver, resolve_version_npm, catalog_attach).                     *)
(*                                                                         *)
(* A version string is the tuple parse_semver reads from it, <<X, Y, Z>>;  *)
(* a string that is no X.Y.Z is any other sequence, and <<>> the empty     *)
(* one.  A request is a form and a version: "absent", "exact" X.Y.Z,       *)
(* "caret" ^X.Y.Z, "tilde" ~X.Y.Z, "major" X, "minor" X.Y, or "other"      *)
(* text.  The answers are [ok, v].                                         *)
(***************************************************************************)
EXTENDS Naturals, Sequences, FiniteSets

NoVersion == <<>>
Found(v) == [ok |-> TRUE, v |-> v]
Unsupported == [ok |-> FALSE, v |-> NoVersion]

parse_semver(text) == Len(text) = 3
ElementsOf(seq) == {seq[i] : i \in DOMAIN seq}

\* std::array<uint32_t, 3>::operator<.
Below(a, b) ==
  \E i \in 1..3 : a[i] < b[i] /\ \A j \in 1..(i - 1) : a[j] = b[j]
AtLeast(a, b) == a = b \/ Below(b, a)

\* The lambda best: sorted, then highest first.
Best(supported, Covers(_)) ==
  LET hits == {v \in ElementsOf(supported) : parse_semver(v) /\ Covers(v)} IN
  IF hits = {} THEN Unsupported
  ELSE Found(CHOOSE v \in hits : \A u \in hits : AtLeast(v, u))

resolve_version_npm(spec, supported, fallback) ==
  LET base == spec.v
      SameMajor(v) == v[1] = base[1]
      InCaret(v) == v[1] = base[1] /\ AtLeast(v, base)
      InTilde(v) == InCaret(v) /\ v[2] = base[2]
      Listed(v) == IF v \in ElementsOf(supported) THEN Found(v) ELSE Unsupported
  IN CASE spec.form = "absent" -> Found(fallback)
       [] spec.form = "exact" -> Listed(base)
       [] spec.form = "caret" -> Best(supported, InCaret)
       [] spec.form = "tilde" -> Best(supported, InTilde)
       [] spec.form = "major" -> Best(supported, SameMajor)
       [] spec.form = "minor" -> Listed(<<base[1], base[2], 0>>)
       [] spec.form = "other" -> Unsupported

\* The non-npm negotiation: an exact match against what the worker serves.
ExactVersion(spec, supported, fallback) ==
  CASE spec.form = "absent" -> Found(fallback)
    [] spec.form = "exact" /\ spec.v \in ElementsOf(supported) -> Found(spec.v)
    [] OTHER -> Unsupported

\* catalog_attach's resolved_data; a catalog with no list resolves nothing.
DataVersion(model, spec) ==
  CASE model.versions = <<>> -> Found(NoVersion)
    [] model.versions # <<>> /\ model.npm ->
         resolve_version_npm(spec, model.versions, model.default)
    [] OTHER -> ExactVersion(spec, model.versions, model.default)

\* catalog_attach's resolved_impl: an empty list means the one version itself.
ImplementationVersion(model, spec) ==
  CASE model.impl = NoVersion -> Found(NoVersion)
    [] model.impl # NoVersion /\ model.npm /\ model.impls # <<>> ->
         resolve_version_npm(spec, model.impls, model.impl)
    [] OTHER ->
         ExactVersion(spec, IF model.impls = <<>> THEN <<model.impl>> ELSE model.impls,
                      model.impl)

\* What catalog_attach settles on: a version-shaped catalog refuses a version
\* it keeps no schemas for.
Shaped(model, data) ==
  IF data.ok /\ (model.shapes = {} \/ data.v \in model.shapes)
  THEN data ELSE Unsupported
AttachedVersion(model, spec) == Shaped(model, DataVersion(model, spec))
=============================================================================
