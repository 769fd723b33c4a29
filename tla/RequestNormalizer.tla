-------------------------- MODULE RequestNormalizer --------------------------
(***************************************************************************)
(* The policy boundary for job attributes (internal/proxy/normalizer.go).  *)
(* The attributes of a request are a function from their names to values;  *)
(* a value whose syntax is wrong is Malformed.  A media-col is a record of *)
(* the names and the size in it, an overrides value a set of collections.  *)
(* A collection is the set of the paths to its members: the name of a      *)
(* member, preceded by those of the collections that it lies in, however   *)
(* deep that is (with a path its beginnings are in the set too).           *)
(***************************************************************************)
EXTENDS CapabilityModel

CONSTANT Malformed

policyDropAttrs ==
  {"media", "media-col", "media-type", "media-source", "media-weight-metric",
   "media-color", "media-pre-printed", "media-hole-count", "media-order-count",
   "media-recycled", "media-tooth", "print-color-mode", "output-mode"}

\* Members that select the target of an override and change nothing.
overrideSelectors ==
  {"document-number", "document-numbers", "page-ranges", "pages",
   "document-copies", "copy-numbers"}

Only(attrs, names)     == [n \in DOMAIN attrs \cap names |-> attrs[n]]
DropAttrs(attrs, names) == Only(attrs, DOMAIN attrs \ names)

malformedPolicyAttributes(attrs) ==
  {n \in DOMAIN attrs \cap {"media", "media-type", "media-source",
                             "print-color-mode", "output-mode", "media-col"} :
     attrs[n] = Malformed}

\* Collections within a member keep what they hold.
dropNestedPolicyAttrs_TopOnly(col, drop) == {path \in col : path[1] \notin drop}

\* Controlled names go from a collection and from all those within it.
dropNestedPolicyAttrs(col, drop) == {path \in col : ToSet(path) \cap drop = {}}

hasOverridePayload(col) == \E path \in col : path[1] \notin overrideSelectors

\* Collections that still change something; the attribute goes with the last.
sanitizeOverrides(attrs, drop) ==
  IF "overrides" \notin DOMAIN attrs THEN attrs
  ELSE LET kept == {col \in {dropNestedPolicyAttrs(c, drop) :
                               c \in attrs["overrides"]} : hasOverridePayload(col)}
       IN  IF kept = {} THEN DropAttrs(attrs, {"overrides"})
           ELSE [attrs EXCEPT !["overrides"] = kept]

\* A media-col must name one medium of the catalog, or a size that exactly one
\* instance of it has; both have to agree.  None when it resolves to nothing.
resolveMediaCol(col, catalog) ==
  LET sized == {i \in DOMAIN catalog.sizes : dimensionsEqual(col.size, catalog.sizes[i].size)}
      one   == catalog.sizes[CHOOSE i \in sized : TRUE]
      named == catalog.byName[CHOOSE n \in col.names : TRUE]
  IN  CASE \/ col.invalid \/ ~(col.names \subseteq DOMAIN catalog.byName)
           \/ Cardinality(col.names) > 1
           \/ col.size # None /\ Cardinality(sized) # 1
           \/ col.names = {} /\ col.size = None       -> None
        [] OTHER ->
             IF col.names = {} THEN one
             ELSE IF col.size = None \/ dimensionsEqual(named.size, one.size)
                  THEN named ELSE None

\* A media-col wins over a loose media; what does not resolve falls back to the
\* default medium of the policy.
selectRequestedMedia(attrs, catalog, pol) ==
  LET name    == policyMediaDefault(pol)
      default == IF name \in DOMAIN catalog.byName THEN catalog.byName[name]
                 ELSE catalog.sizes[<<1, 1>>]
      wanted  == CASE "media-col" \in DOMAIN attrs -> resolveMediaCol(attrs["media-col"], catalog)
                   [] "media-col" \notin DOMAIN attrs /\ "media" \in DOMAIN attrs ->
                        IF attrs["media"] \in DOMAIN catalog.byName
                        THEN catalog.byName[attrs["media"]] ELSE None
                   [] DOMAIN attrs \cap {"media", "media-col"} = {} -> None
  IN  [size |-> Known(wanted, default), fallback |-> wanted = None]

\* Attributes the policy adds to a job; one it has no value for is left out.
forcedNames ==
  {"media", "media-type", "media-source", "media-col", "print-scaling",
   "print-color-mode", "output-mode"}

\* What the policy adds to every job.
forcedAttrs(pol, size) ==
  LET loose(v) == IF pol.useMediaCol THEN None ELSE v
      value == [n \in forcedNames |->
                  CASE n = "media"        -> loose(size.name)
                    [] n = "media-type"   -> loose(pol.mediaType)
                    [] n = "media-source" -> loose(pol.mediaSource)
                    [] n = "media-col"    ->
                         IF pol.useMediaCol
                         THEN [names |-> {}, size |-> size.size, type |-> pol.mediaType,
                               source |-> pol.mediaSource]
                         ELSE None
                    [] n = "print-scaling"    -> pol.printScaling
                    [] n = "print-color-mode" -> pol.colorMode
                    [] n = "output-mode" ->
                         IF pol.colorMode = "monochrome" THEN "monochrome" ELSE None]
  IN  Only(value, {n \in forcedNames : value[n] # None})

\* The attributes of first, and those of second that it does not have.
Over(first, second) ==
  [n \in DOMAIN first \cup DOMAIN second |->
     IF n \in DOMAIN first THEN first[n] ELSE second[n]]

\* Names the client sent that the answer reports as substituted.
substitutions(attrs, pol, vendorDrop, out, fallback) ==
  {n \in DOMAIN attrs :
     \/ n \in vendorDrop
     \/ n = "media" /\ (fallback \/ "media" \notin DOMAIN out \/ out["media"] # attrs["media"])
     \/ n = "media-col" /\ (fallback \/ ~pol.useMediaCol)
     \/ n = "media-type" /\ attrs[n] # pol.mediaType
     \/ n = "media-source" /\ attrs[n] # pol.mediaSource
     \/ n \in {"print-color-mode", "output-mode"} /\ attrs[n] # pol.colorMode}

\* NormalizeJobAttrsWithOptions: ok is FALSE when the request is refused.
normalize(attrs, catalog, pol, vendorDrop, preserve, fidelity) ==
  LET drop    == policyDropAttrs \cup vendorDrop
      other   == DOMAIN attrs \ (drop \cup preserve)
      input   == DropAttrs(attrs, other)
      media   == selectRequestedMedia(input, catalog, pol)
      out     == Over(forcedAttrs(pol, media.size),
                      sanitizeOverrides(DropAttrs(input, drop), drop))
      changed == other \cup substitutions(attrs, pol, vendorDrop, out, media.fallback)
  IN  IF malformedPolicyAttributes(attrs) # {}
      THEN [ok |-> FALSE, attrs |-> <<>>, unsupported |-> malformedPolicyAttributes(attrs)]
      ELSE [ok |-> /\ fidelity => other = {}
                   /\ ~(fidelity /\ pol.fidelityMode = "reject" /\ changed # {}),
            attrs |-> out, unsupported |-> changed]
=============================================================================
