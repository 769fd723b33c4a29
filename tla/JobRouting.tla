----------------------------- MODULE JobRouting -----------------------------
(***************************************************************************)
(* How a request finds its document route while the capabilities of the    *)
(* queue are refreshed beside it (internal/proxy/service.go, airprint.go). *)
(* A handler takes the read lock several times: for the route, for the     *)
(* policy and for the printer's attributes; a refresh may commit another   *)
(* model between any two of them.  Requests that reach the printer are     *)
(* kept in sent; the translation itself is module URFTranslate.            *)
(***************************************************************************)
EXTENDS RequestNormalizer

CONSTANTS Clients, Requests,    \* Requests: [op, format, attrs, fidelity]
          Upstreams,            \* answers the printer may give
          Policies,             \* policies a queue may be configured with
          VendorDrop, Preserve, \* passthrough lists of the queue
          MaxSent               \* bound on the requests that reach the printer

\* A policy that names its media and its colour mode: applyMediaDefaults, the
\* defaults of a configuration and its validation.
ASSUME PoliciesAssumption ==
  \A pol \in Policies :
    /\ {"media", "mediaSupported", "mediaDefault", "mediaType", "mediaSource", "colorMode",
        "useMediaCol", "fidelityMode", "printScaling", "airprint", "everywhere"} = DOMAIN pol
    /\ pol.mediaSupported \in Seq(MediaNames)
    /\ pol.mediaSupported = <<>> => pol.media \in MediaNames
    /\ pol.colorMode # None

\* The bound is a number of requests.
ASSUME SentAssumption == MaxSent \in Nat

\* Formats and media collections of an answer are lists (1setOf attributes).
ASSUME UpstreamsAssumption ==
  \A up \in Upstreams :
    /\ up.formats \in Seq(STRING)
    /\ DOMAIN up.collections = 1..Len(up.collections) /\ Len(up.collections) \in Nat

\* None stands for what is missing, and is neither a medium nor a route.
ASSUME NoneAssumption ==
  /\ None \notin MediaNames
  /\ \A up \in Upstreams, pol \in Policies : \A m \in Models(up, pol) :
       \A i \in DOMAIN m.routes.routes : m.routes.routes[i] # None

VARIABLES configured,  \* policy of the queue in the configuration
          model,       \* the committed capability model
          handlers,    \* the request each client has in progress
          jobs,        \* rows of created jobs
          sent         \* what reached the printer, in order

vars == <<configured, model, handlers, jobs, sent>>

Idle == [pc |-> "idle", req |-> None, route |-> None, policy |-> None, attrs |-> <<>>]

\* Rejection and completion alike end the request.
Answered(c) == handlers' = [handlers EXCEPT ![c] = Idle]
-----------------------------------------------------------------------------
(* The route of a row *)

\* A stored route knows its kind, not its resolutions.
routeToStore(route) ==
  [client |-> route.client, upstream |-> route.upstream,
   kind |-> IF route.transform THEN "urf-to-pwg" ELSE "pass-through",
   mapping |-> route.mapping, page |-> route.page]

routeFromStore(row) ==
  [client |-> row.client, upstream |-> row.upstream,
   transform |-> row.kind = "urf-to-pwg", mapping |-> row.mapping,
   resolutions |-> {}, page |-> row.page]

\* The requested format, or the default of the committed snapshot. There is one:
\* a queue whose first refresh has not succeeded is refused before any handler.
routeForRequest(format) ==
  IF format = None THEN defaultRoute(model.routes, model.upstream)
  ELSE routeFor(model.routes, format)

\* What the printer is sent: job attributes, format, and how a document was
\* translated for it.
Forwarded(op, route, attrs) ==
  [op |-> op, attrs |-> attrs, format |-> route.upstream,
   transform |-> route.transform, mapping |-> route.mapping, page |-> route.page]
-----------------------------------------------------------------------------
Init ==
  /\ configured \in Policies
  /\ \E up \in Upstreams : model \in Models(up, configured)
  /\ handlers = [c \in Clients |-> Idle]
  /\ jobs = <<>> /\ sent = <<>>

\* A refresh whose policy projection fails commits nothing.
refreshCapabilities ==
  /\ \E up \in Upstreams : model' \in Models(up, configured)
  /\ UNCHANGED <<configured, handlers, jobs, sent>>

Arrive(c) ==
  /\ handlers[c].pc = "idle" /\ Len(sent) < MaxSent
  /\ \E r \in Requests :
       handlers' = [handlers EXCEPT ![c].req = r,
                      ![c].pc = IF r.op = "print" THEN "format" ELSE "policy"]
  /\ UNCHANGED <<configured, model, jobs, sent>>

\* validatePayloadDocumentFormat of a Print-Job.
ValidateFormat(c) ==
  /\ handlers[c].pc = "format"
  /\ IF \/ handlers[c].req.format = None
        \/ routeFor(model.routes, handlers[c].req.format) = None
     THEN Answered(c)
     ELSE handlers' = [handlers EXCEPT ![c].pc = "route"]
  /\ UNCHANGED <<configured, model, jobs, sent>>

\* A request without a route goes on.
ClientRoute_Unchecked(c) ==
  /\ handlers[c].pc = "route"
  /\ handlers' = [handlers EXCEPT ![c].route = routeForRequest(handlers[c].req.format),
         ![c].pc = IF handlers[c].req.op = "print" THEN "policy" ELSE "submit"]
  /\ UNCHANGED <<configured, model, jobs, sent>>

\* clientRoute: before the normalisation of a Print-Job, after that of the others.
ClientRoute(c) ==
  /\ handlers[c].pc = "route"
  /\ LET route == routeForRequest(handlers[c].req.format)
     IN  IF route = None THEN Answered(c)
         ELSE handlers' = [handlers EXCEPT ![c].route = route,
                ![c].pc = IF handlers[c].req.op = "print" THEN "policy" ELSE "submit"]
  /\ UNCHANGED <<configured, model, jobs, sent>>

\* normalizeJobRequest reads the policy of the committed model ...
ReadPolicy(c) ==
  /\ handlers[c].pc = "policy"
  /\ handlers' = [handlers EXCEPT ![c].pc = "normalize", ![c].policy = model.policy]
  /\ UNCHANGED <<configured, model, jobs, sent>>

\* ... and then, under another lock, the printer's attributes.
NormalizeRequest(c) ==
  /\ handlers[c].pc = "normalize"
  /\ \E h \in {handlers[c]}, catalog \in {buildMediaCatalog(model.upstream, handlers[c].policy)} :
       \E n \in {normalize(h.req.attrs, catalog, h.policy, VendorDrop, Preserve,
                           h.req.fidelity)} :
         IF ~n.ok THEN Answered(c)
         ELSE handlers' = [handlers EXCEPT ![c].attrs = n.attrs, ![c].policy = None,
                ![c].pc = IF h.req.op = "print" THEN "submit" ELSE "route"]
  /\ UNCHANGED <<configured, model, jobs, sent>>

\* The page settings, the row and the request to the printer.
Submit(c) ==
  /\ handlers[c].pc = "submit" /\ Len(sent) < MaxSent
  /\ LET h     == handlers[c]
         route == [h.route EXCEPT !.page = routePageSettings(h.route, h.attrs, model.upstream)]
     IN  /\ sent' = Append(sent, Forwarded(h.req.op, IF h.req.op = "validate" THEN h.route ELSE route,
                                           h.attrs))
         /\ jobs' = IF h.req.op = "create"
                    THEN Append(jobs, [route |-> routeToStore(route), attrs |-> h.attrs,
                                       documents |-> 0])
                    ELSE jobs
  /\ Answered(c)
  /\ UNCHANGED <<configured, model>>

\* The document takes the route of the current snapshot.
handleSendDocument_Rerouted(c) ==
  /\ handlers[c].pc = "idle" /\ Len(sent) < MaxSent
  /\ \E j \in DOMAIN jobs :
       /\ jobs[j].documents = 0
       /\ LET route == routeFor(model.routes, jobs[j].route.client)
          IN  /\ route # None
              /\ sent' = Append(sent, Forwarded("send", route, jobs[j].attrs))
       /\ jobs' = [jobs EXCEPT ![j].documents = 1]
  /\ UNCHANGED <<configured, model, handlers>>

\* Send-Document translates with the route pinned at Create-Job; a format that
\* differs from it is refused, as is a second document.
handleSendDocument(c) ==
  /\ handlers[c].pc = "idle" /\ Len(sent) < MaxSent
  /\ \E j \in DOMAIN jobs :
       /\ jobs[j].documents = 0
       /\ LET route == routeFromStore(jobs[j].route)
          IN  sent' = Append(sent, Forwarded("send",
                [route EXCEPT !.page = routePageSettings(route, <<>>, model.upstream)],
                jobs[j].attrs))
       /\ jobs' = [jobs EXCEPT ![j].documents = 1]
  /\ UNCHANGED <<configured, model, handlers>>

Next ==
  \/ refreshCapabilities
  \/ \E c \in Clients : \/ Arrive(c) \/ ValidateFormat(c) \/ ClientRoute(c)
                        \/ ReadPolicy(c) \/ NormalizeRequest(c) \/ Submit(c)
                        \/ handleSendDocument(c)

Spec == Init /\ [][Next]_vars
-----------------------------------------------------------------------------
\* Every variable keeps its type (the maps of Service, service.go).
TypeOK ==
  /\ configured \in Policies /\ model.upstream \in Upstreams
  /\ \A c \in Clients :
       /\ handlers[c].pc \in {"idle", "format", "policy", "normalize", "route", "submit"}
       /\ handlers[c].pc # "idle" => handlers[c].req \in Requests
       /\ handlers[c].pc = "submit" => handlers[c].route # None /\ handlers[c].attrs # <<>>
  /\ Len(sent) <= MaxSent
  /\ \A j \in DOMAIN jobs : jobs[j].documents \in 0..1

\* The attributes of a job under a policy.  Of the names the policy controls or
\* the queue drops, a job has only those the policy adds, with its values, and
\* none at any depth of an override.
KeepsPolicy(pol, attrs) ==
  LET drop == policyDropAttrs \cup VendorDrop
  IN  /\ "print-color-mode" \in DOMAIN attrs /\ attrs["print-color-mode"] = pol.colorMode
      /\ DOMAIN attrs \cap drop \subseteq forcedNames
      /\ "media" \in DOMAIN attrs => attrs["media"] \in ToSet(policyMediaNames(pol))
      /\ "media-type" \in DOMAIN attrs => attrs["media-type"] = pol.mediaType
      /\ "media-source" \in DOMAIN attrs => attrs["media-source"] = pol.mediaSource
      /\ "output-mode" \in DOMAIN attrs => attrs["output-mode"] = pol.colorMode
      /\ pol.printScaling # None \/ "print-scaling" \in drop =>
           \/ "print-scaling" \notin DOMAIN attrs
           \/ attrs["print-scaling"] = pol.printScaling
      /\ "media-col" \in DOMAIN attrs =>
           /\ attrs["media-col"].type = pol.mediaType
           /\ attrs["media-col"].source = pol.mediaSource
      /\ "overrides" \in DOMAIN attrs =>
           \A col \in attrs["overrides"] :
             hasOverridePayload(col) /\ \A path \in col : ToSet(path) \cap drop = {}

\* No value of a client for an attribute the policy controls reaches the
\* printer, whichever attributes are on the preserve list and whichever models
\* were read on the way (NormalizeJobAttrsWithOptions, sanitizeOverrides).
PolicyEnforced == \A i \in DOMAIN sent : KeepsPolicy(configured, sent[i].attrs)

\* What a client is told holds for its requests: AirPrint is announced only
\* with a route for it, a format that is advertised has a route as long as any
\* has, a default format too unless the native URF family fits no policy, and
\* a queue of one colour mode shows nothing of the other (buildRouteSnapshot,
\* synthesizedFormatAttributes, applyRouteCapabilities, evaluateCapabilityProfiles).
AdvertisedIsHonoured ==
  LET a == model.attributes
      fitting == validURFFamily(model.upstream)
                   => nativeURFTokens(model.upstream, model.policy) # {}
  IN  /\ model.profiles.airprint => routeFor(model.routes, "urf") # None /\ "RS" \in a.urf
      /\ model.routes.routes # <<>> => \A f \in a.formats : routeFor(model.routes, f) # None
      /\ fitting => \A f \in {a.default, a.preferred} \ {None} : routeFor(model.routes, f) # None
      /\ configured.colorMode = "monochrome" =>
           a.urf \cap ColorTokens = {} /\ a.rasterTypes \cap ColorTypes = {}
      /\ configured.colorMode = "color" => a.urf \cap {"W", "DEVW"} = {}
      /\ model.mediaDefault \in model.media
      /\ model.media \subseteq ToSet(policyMediaNames(configured))

\* The sizes of a medium: what its name spells out, and what a collection that
\* names it says at any time.
SizesOf(name) ==
  {PWGSize[name]} \cup
  UNION {{up.collections[i].size :
            i \in {k \in DOMAIN up.collections : name \in up.collections[k].names}} :
         up \in Upstreams}

\* Page settings that follow the attributes of the job.
PageFollows(page, attrs) ==
  /\ "media" \in DOMAIN attrs /\ PWGSize[attrs["media"]] # None =>
       /\ page.name = attrs["media"]
       /\ page.size # None /\ page.size \in SizesOf(attrs["media"])
  /\ "sides" \in DOMAIN attrs => page.sides = attrs["sides"]

\* A document is translated with the medium and the colour of the job it
\* belongs to, although the route, the policy and the printer's attributes are
\* read at different moments and the document may come long after the job
\* (handlePrintJob, handleCreateJob, handleSendDocument).  It is stated for
\* jobs with a loose media whose name spells out its size: see the README for
\* media-col and for names whose size only the printer knows.
TranslatedAsForwarded ==
  \A i \in DOMAIN sent :
    LET s == sent[i]
    IN  s.transform /\ s.op # "validate" =>
          /\ (s.mapping = "W8") <=> (s.attrs["print-color-mode"] = "monochrome")
          /\ s.format = "pwg"
          /\ PageFollows(s.page, s.attrs)
=============================================================================
