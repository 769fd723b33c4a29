--------------------------- MODULE CapabilityModel ---------------------------
(***************************************************************************)
(* What the proxy derives from one answer of the printer and one queue     *)
(* policy: the media catalog, the projected policy, the document routes,   *)
(* the advertised attributes and the profiles (internal/proxy/             *)
(* capabilities.go, routing.go and profiles.go).                           *)
(*                                                                         *)
(* An answer is a record in which an attribute the printer left out is     *)
(* None.  Names are compared without regard to case in the code; here they *)
(* are model values or short strings.  "untyped" stands for a value of the *)
(* wrong syntax, "junk" for a token that is not in the grammar.            *)
(***************************************************************************)
EXTENDS Integers, Sequences, SequencesExt, FiniteSetsExt

CONSTANTS None,
          MediaNames,   \* media the policy or the printer may name
          PWGSize       \* size a media name spells out, or None

Known(v, otherwise) == IF v = None THEN otherwise ELSE v
Has(v, x)           == v # None /\ x \in v

\* The values of s at the positions in kept, in their order.
Picked(s, kept) ==
  LET upTo[n \in 0..Len(s)] ==
        IF n = 0 THEN <<>>
        ELSE IF n \in kept THEN Append(upTo[n - 1], s[n]) ELSE upTo[n - 1]
  IN  upTo[Len(s)]
-----------------------------------------------------------------------------
(* Media *)

policyMediaNames(pol) ==
  IF pol.mediaSupported # <<>> THEN pol.mediaSupported ELSE <<pol.media>>

policyMediaDefault(pol) ==
  Known(pol.mediaDefault, Known(pol.media, Head(policyMediaNames(pol))))

\* A sheet may be fed either way round.
dimensionsEqual(a, b) == a # None /\ b # None /\ (a = b \/ a = <<b[2], b[1]>>)

mediaCollectionMatches(col, name) ==
  name \in col.names \/ dimensionsEqual(PWGSize[name], col.size)

\* Values of src fill what dst does not know.
mergeMediaSize(dst, src) ==
  [dst EXCEPT !.size = Known(@, src.size), !.margin = Known(@, src.margin),
              !.type = Known(@, src.type), !.source = Known(@, src.source),
              !.ready = @ \/ src.ready]

sameMediaInstance(a, b) ==
  /\ a.source = b.source /\ a.type = b.type
  /\ a.size # None /\ b.size # None => dimensionsEqual(a.size, b.size)
  /\ a.margin # None /\ b.margin # None => a.margin = b.margin

\* Database and ready descriptions of one tray become one instance.
mergeMediaInstance(instances, candidate) ==
  LET same == {i \in DOMAIN instances : sameMediaInstance(instances[i], candidate)}
  IN  IF same = {} THEN Append(instances, candidate)
      ELSE [instances EXCEPT ![Min(same)] = mergeMediaSize(@, candidate)]

\* A source the printer is known to accept when the policy pins none.
provenAutomaticMediaSource(up) ==
  CASE Has(up.sources, "auto") -> "auto"
    [] ~Has(up.sources, "auto") /\ up.sourceDefault = None -> None
    [] ~Has(up.sources, "auto") /\ up.sourceDefault # None ->
         IF up.sources \in {None, {}} \/ up.sourceDefault \in up.sources
         THEN up.sourceDefault ELSE None

baseInstance(name) ==
  [name |-> name, size |-> PWGSize[name], source |-> None, type |-> None,
   margin |-> None, ready |-> FALSE]

\* What a collection that names the medium says of its size wins over the name.
candidateInstance(name, col) ==
  mergeMediaSize(IF col.size # None /\ name \in col.names
                 THEN [baseInstance(name) EXCEPT !.size = col.size] ELSE baseInstance(name),
                 col)

\* The collections that describe the medium in a source the policy allows.
matchingInstances(up, pol, name) ==
  LET fits(col) == /\ mediaCollectionMatches(col, name)
                   /\ \/ pol.mediaSource = None
                      \/ col.source \in {None, pol.mediaSource}
      found[n \in 0..Len(up.collections)] ==
        IF n = 0 THEN <<>>
        ELSE IF fits(up.collections[n])
             THEN mergeMediaInstance(found[n - 1], candidateInstance(name, up.collections[n]))
             ELSE found[n - 1]
  IN  found[Len(up.collections)]

mediaInstances(up, pol, name) ==
  LET found == matchingInstances(up, pol, name)
      kept  == IF found = <<>> THEN <<baseInstance(name)>> ELSE found
  IN  [i \in DOMAIN kept |->
         [kept[i] EXCEPT !.source = Known(@, provenAutomaticMediaSource(up)),
                         !.type = Known(@, pol.mediaType)]]

\* Ready trays first, then those that are not borderless.
preferredMediaInstance(instances) ==
  LET score(inst) == (IF inst.ready THEN 100 ELSE 0)
                     + (IF inst.margin # None /\ inst.margin > 0 THEN 10 ELSE 0)
      best == Max({score(instances[i]) : i \in DOMAIN instances})
  IN  instances[Min({i \in DOMAIN instances : score(instances[i]) = best})]

\* sizes lists the instances of every name: the k-th of the i-th at <<i, k>>.
buildMediaCatalog(up, pol) ==
  LET names == policyMediaNames(pol)
      all   == [i \in DOMAIN names |-> mediaInstances(up, pol, names[i])]
  IN  [sizes  |-> [p \in UNION {{i} \X (DOMAIN all[i]) : i \in DOMAIN names} |->
                     all[p[1]][p[2]]],
       byName |-> [n \in ToSet(names) |->
                     preferredMediaInstance(mediaInstances(up, pol, n))]]

policyMediaSupportedByUpstream(up, pol, name) ==
  \/ Has(up.media, name)
  \/ /\ pol.useMediaCol
     /\ \E i \in DOMAIN up.collections : mediaCollectionMatches(up.collections[i], name)
-----------------------------------------------------------------------------
(* Policy projection *)

\* A support attribute that is present and does not hold the value.
Contradicted(support, value) ==
  value # None /\ support # None /\ (value \notin support \/ "untyped" \in support)

\* The media that are kept; none of them, or a contradiction, is an error.
ProjectPolicyAgainstUpstream(up, pol) ==
  LET names == policyMediaNames(pol)
      media == Picked(names, {i \in DOMAIN names :
                                policyMediaSupportedByUpstream(up, pol, names[i])})
      default == Known(pol.mediaDefault, Head(media))
  IN  [ok |-> /\ media # <<>>
              /\ ~Contradicted(up.colorModes, pol.colorMode)
              /\ ~Contradicted(up.types, pol.mediaType)
              /\ ~Contradicted(up.sources, pol.mediaSource),
       policy |-> IF media = <<>> THEN pol
                  ELSE [pol EXCEPT !.mediaSupported = media,
                                   !.media = IF @ = None THEN @ ELSE Head(media),
                                   !.mediaDefault = IF default \in ToSet(media) THEN default
                                                    ELSE Head(media)]]
-----------------------------------------------------------------------------
(* Format families *)

ColorTokens   == {"SRGB", "ADOBERGB", "DEVRGB", "DEVCMYK"}
KnownTokens   == ColorTokens \cup {"DEVW", "W", "RS", "V"}
MonoTypes     == {"black_1", "sgray_8"}
ColorTypes    == {"srgb_8", "rgb_8"}
RasterSheets  == {"normal", "flipped", "rotated", "manual-tumble"}

\* A value of the wrong syntax spoils the whole attribute.
hasMimeTypeValue(up, format) ==
  format \in ToSet(up.formats) /\ "untyped" \notin ToSet(up.formats)

validURFFamily(up) ==
  /\ hasMimeTypeValue(up, "urf")
  /\ up.urf # None /\ up.urf \subseteq KnownTokens
  /\ "W" \in up.urf /\ "RS" \in up.urf /\ up.urf \cap (ColorTokens \cup {"DEVW"}) # {}

rasterTypeCompatible(type, mode) ==
  CASE mode = "monochrome" -> type \in MonoTypes
    [] mode = "color"      -> type \in ColorTypes
    [] mode \notin {"monochrome", "color"} -> TRUE

filteredPWGRasterTypes(up, mode) ==
  {t \in up.rasterTypes : rasterTypeCompatible(t, mode)}

validPWGRasterFamily(up, pol) ==
  /\ hasMimeTypeValue(up, "pwg")
  /\ up.rasterTypes # None /\ up.rasterTypes \subseteq MonoTypes \cup ColorTypes
  /\ filteredPWGRasterTypes(up, pol.colorMode) # {}
  /\ up.resolutions # <<>>
  /\ \A i \in DOMAIN up.resolutions :
       /\ up.resolutions[i].x > 0 /\ up.resolutions[i].y > 0
       /\ up.resolutions[i].unit \in {"dpi", "dpcm"}
  /\ up.sheetBack \in RasterSheets

\* Colour tokens reach a monochrome client.
nativeURFTokens_KeepColor(up, pol) ==
  {t \in up.urf : pol.colorMode = "color" => t \notin {"W", "DEVW"}}

\* The tokens a policy leaves of a native family; {} when it fits no policy.
nativeURFTokens(up, pol) ==
  LET mode      == pol.colorMode
      preferred == IF "SRGB" \in up.urf THEN "SRGB" ELSE "DEVRGB"
      kept == {t \in up.urf :
                 CASE mode = "monochrome" -> t \notin ColorTokens
                   [] mode = "color"      -> t \notin ({"W", "DEVW"} \cup ColorTokens) \/ t = preferred
                   [] mode \notin {"monochrome", "color"} -> TRUE}
      fits == /\ "RS" \in kept
              /\ CASE mode = "monochrome" -> "W" \in kept
                   [] mode = "color"      -> preferred \in kept
                   [] mode \notin {"monochrome", "color"} -> kept \cap ({"W"} \cup ColorTokens) # {}
  IN  IF fits THEN kept ELSE {}
-----------------------------------------------------------------------------
(* Routes *)

\* Formats in the printer's order, without duplicates and without the generic one.
admittedUpstreamFormats(up) ==
  Picked(up.formats, {i \in DOMAIN up.formats :
                        /\ up.formats[i] \notin {"octet", "untyped"}
                        /\ \A k \in 1..(i - 1) : up.formats[k] # up.formats[i]})

squarePWGResolutions(up) ==
  {r.x : r \in {r \in ToSet(up.resolutions) : r.x > 0 /\ r.x = r.y /\ r.unit = "dpi"}}

defaultSides(up) ==
  IF up.sidesDefault \in {"one-sided", "two-sided-long-edge", "two-sided-short-edge"}
  THEN up.sidesDefault ELSE "one-sided"

\* Settings of a pass-through route.
defaultPageSettings(up, pol, catalog) ==
  LET name == policyMediaDefault(pol)
      known == name \in DOMAIN catalog.byName /\ catalog.byName[name].size # None
      square == squarePWGResolutions(up)
  IN  [name |-> name,
       size |-> IF known THEN catalog.byName[name].size ELSE None,
       type |-> IF known THEN Known(catalog.byName[name].type, pol.mediaType) ELSE pol.mediaType,
       sides |-> defaultSides(up),
       resolution |-> IF square = {} THEN 0 ELSE Min(square),
       quality |-> IF up.qualityDefault \in 3..5 THEN up.qualityDefault ELSE 0,
       sheetBack |-> IF up.sheetBack \in RasterSheets THEN up.sheetBack ELSE None]

mappingForPolicyAndTypes(up, pol) ==
  IF pol.colorMode = "monochrome" THEN "W8"
  ELSE IF Has(up.rasterTypes, "srgb_8") THEN "SRGB24" ELSE "DEVRGB24"

\* The emulated route, or None with every reason the code gives.
emulatedURFRoute(up, pol, catalog) ==
  LET default  == policyMediaDefault(pol)
      square   == squarePWGResolutions(up)
      eligible == /\ validPWGRasterFamily(up, pol)
                  /\ default \in DOMAIN catalog.byName
                  /\ catalog.byName[default].size # None
                  /\ square # {}
                  /\ \/ pol.colorMode = "monochrome" /\ Has(up.rasterTypes, "sgray_8")
                     \/ pol.colorMode = "color" /\ up.rasterTypes \cap ColorTypes # {}
  IN  IF ~eligible THEN None
      ELSE [client |-> "urf", upstream |-> "pwg", transform |-> TRUE,
            mapping |-> mappingForPolicyAndTypes(up, pol), resolutions |-> square,
            page |-> [name |-> default, size |-> catalog.byName[default].size,
                      type |-> catalog.byName[default].type,
                      sides |-> defaultSides(up), resolution |-> Min(square),
                      quality |-> 0, sheetBack |-> up.sheetBack]]

URFToken(mapping) == CASE mapping = "W8" -> "W" [] mapping = "SRGB24" -> "SRGB"
                       [] mapping = "DEVRGB24" -> "DEVRGB"

\* buildRouteSnapshot: pass-through routes, and native or emulated AirPrint.
buildRouteSnapshot(up, pol, catalog) ==
  LET tokens == IF validURFFamily(up) THEN nativeURFTokens(up, pol) ELSE {}
      native == tokens # {}
      direct(f) == [client |-> f, upstream |-> f, transform |-> FALSE,
                    mapping |-> None, resolutions |-> {},
                    page |-> defaultPageSettings(up, pol, catalog)]
      formats  == admittedUpstreamFormats(up)
      admitted == Picked(formats, {i \in DOMAIN formats :
                    /\ formats[i] = "urf" => native
                    /\ formats[i] = "pwg" => validPWGRasterFamily(up, pol)})
      through  == [i \in DOMAIN admitted |-> direct(admitted[i])]
      emulated == IF native \/ pol.airprint # "emulate" THEN None
                  ELSE emulatedURFRoute(up, pol, catalog)
  IN  CASE native -> [routes |-> through, path |-> "native", tokens |-> tokens]
        [] ~native /\ emulated = None ->
             [routes |-> through, path |-> "unavailable", tokens |-> {}]
        [] ~native /\ emulated # None ->
             [routes |-> Append(through, emulated), path |-> "emulated",
              tokens |-> {"V", "RS", URFToken(emulated.mapping)}]

Formats(snapshot) == {snapshot.routes[i].client : i \in DOMAIN snapshot.routes}

\* The first route of a format, None when there is none.
routeFor(snapshot, format) ==
  LET at == {i \in DOMAIN snapshot.routes : snapshot.routes[i].client = format}
  IN  IF at = {} THEN None ELSE snapshot.routes[Min(at)]

\* Without a format: the printer's default, AirPrint, the first route.
defaultRoute(snapshot, up) ==
  CASE routeFor(snapshot, up.formatDefault) # None -> routeFor(snapshot, up.formatDefault)
    [] /\ routeFor(snapshot, up.formatDefault) = None
       /\ snapshot.path = "emulated" -> routeFor(snapshot, "urf")
    [] /\ routeFor(snapshot, up.formatDefault) = None
       /\ snapshot.path # "emulated" ->
         IF snapshot.routes = <<>> THEN None ELSE snapshot.routes[1]

\* Request-level values over the defaults of the route.  The normalised
\* media-col carries no name, so only a loose media is found.
routePageSettings(route, attrs, up) ==
  LET name == IF "media" \in DOMAIN attrs THEN attrs["media"] ELSE None
      selected == mediaInstances(up, [mediaSource |-> None, mediaType |-> route.page.type], name)
      found == name # None /\ preferredMediaInstance(selected).size # None
      resolution == IF "printer-resolution" \in DOMAIN attrs
                    THEN attrs["printer-resolution"] ELSE 0
  IN  [route.page EXCEPT
         !.name = IF found THEN name ELSE @,
         !.size = IF found THEN preferredMediaInstance(selected).size ELSE @,
         !.sides = IF "sides" \in DOMAIN attrs THEN attrs["sides"] ELSE @,
         !.quality = IF "print-quality" \in DOMAIN attrs /\ attrs["print-quality"] \in 3..5
                     THEN attrs["print-quality"] ELSE @,
         !.resolution = IF /\ resolution > 0
                           /\ route.resolutions = {} \/ resolution \in route.resolutions
                        THEN resolution ELSE @]
-----------------------------------------------------------------------------
(* Advertised attributes and profiles *)

\* synthesizedFormatAttributes, before the routes are applied.
synthesizedFormats(up, pol) ==
  LET listed == Picked(up.formats, {i \in DOMAIN up.formats :
                  /\ up.formats[i] \notin {"untyped", "octet"}
                  /\ up.formats[i] = "pwg" => validPWGRasterFamily(up, pol)
                  /\ up.formats[i] = "urf" => validURFFamily(up)})
  IN  [formats |-> ToSet(listed),
       default |-> IF listed = <<>> \/ up.formatDefault = None THEN None
                   ELSE IF up.formatDefault \in ToSet(listed) THEN up.formatDefault
                   ELSE Head(listed),
       preferred |-> IF up.formatPreferred \in ToSet(listed) THEN up.formatPreferred ELSE None,
       rasterTypes |-> IF validPWGRasterFamily(up, pol) /\ listed # <<>>
                       THEN filteredPWGRasterTypes(up, pol.colorMode) ELSE {},
       urf |-> IF validURFFamily(up) /\ listed # <<>> THEN up.urf ELSE {}]

OutputType(mapping) == CASE mapping = "W8" -> "sgray_8" [] mapping = "SRGB24" -> "srgb_8"
                         [] mapping = "DEVRGB24" -> "rgb_8"

\* applyRouteCapabilities and applyEmulatedRasterCapabilities.
applyRouteCapabilities(base, snapshot) ==
  IF snapshot.routes = <<>> THEN [base EXCEPT !.urf = {}]
  ELSE [formats |-> Formats(snapshot),
        default |-> IF snapshot.path = "emulated" THEN Known(base.default, "urf")
                    ELSE base.default,
        preferred |-> base.preferred,
        rasterTypes |-> IF snapshot.path = "emulated"
                        THEN {OutputType(routeFor(snapshot, "urf").mapping)}
                        ELSE base.rasterTypes,
        urf |-> snapshot.tokens]

\* evaluateCapabilityProfiles of a queue that is available.
evaluateCapabilityProfiles(up, pol, snapshot) ==
  LET mediaReady == \E i \in DOMAIN policyMediaNames(pol) :
                      policyMediaSupportedByUpstream(up, pol, policyMediaNames(pol)[i])
      base == synthesizedFormats(up, pol).formats # {} /\ mediaReady /\ up.baseline
  IN  [airprint   |-> pol.airprint # "disabled" /\ base /\ snapshot.path # "unavailable",
       everywhere |-> pol.everywhere # "disabled" /\ up.claimsEverywhere /\ base]

\* SynthesizeCapabilityModel: everything a refresh commits.
NewCapabilityModel(up, pol, snapshot) ==
  [upstream |-> up, policy |-> pol, routes |-> snapshot,
   profiles |-> evaluateCapabilityProfiles(up, pol, snapshot),
   media |-> ToSet(policyMediaNames(pol)),
   mediaDefault |-> policyMediaDefault(pol),
   color |-> pol.colorMode = "color",
   attributes |-> applyRouteCapabilities(synthesizedFormats(up, pol), snapshot)]

\* The model an answer and a configured policy give, {} when the policy cannot
\* be projected.  Sets of one element hand each result on by value.
Models(up, pol) ==
  LET snapshots(p) == {buildRouteSnapshot(up, p, c) : c \in {buildMediaCatalog(up, p)}}
      projected    == {p \in {ProjectPolicyAgainstUpstream(up, pol)} : p.ok}
  IN  UNION {{NewCapabilityModel(up, p.policy, s) : s \in snapshots(p.policy)} : p \in projected}
=============================================================================
