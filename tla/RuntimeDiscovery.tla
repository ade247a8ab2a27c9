---------------------------- MODULE RuntimeDiscovery ----------------------------
(****************************************************************************)
(* runtime_features.go, runtime_controls.go, runtime_controls_schema.go:    *)
(* what the SDK may offer of an installed codex, found out by running it    *)
(* several times, while it may be replaced by another version and the       *)
(* deadline may pass between any two of the runs.                           *)
(*                                                                          *)
(* A schema is whether it describes an object, the fields it requires and   *)
(* those that have the type the SDK uses.  Of what one codex prints or      *)
(* generates, at most one part deviates from what the SDK was written for.  *)
(****************************************************************************)
EXTENDS FiniteSets

VARIABLES
    cli,      \* the installed codex (external)
    replaced, \* it was replaced during the call
    goal,     \* the call: features or controls
    options,  \* its ExperimentalAPI, and the managed requirements it is given
    call,     \* the step it is at
    asked,    \* it asks for the experimental schema
    by,       \* the codex that generated the schema it reads
    left,     \* a temporary directory exists
    policies, \* the approval policies found so far
    result    \* what it returned

discoveryVars ==
    <<cli, replaced, goal, options, call, asked, by, left, policies, result>>

-----------------------------------------------------------------------------
(* The files of a schema, and the fields the SDK looks for in each: those   *)
(* that must be required, of a nested object too, and those that must not.  *)

Required(file) ==
    CASE file = "ItemStarted" ->
            {"agentPath", "agentThreadId", "id", "kind", "type"}
      [] file = "InterruptParams" -> {"threadId", "turnId"}
      [] file = "ListParams" -> {"threadId"}
      [] file = "ListResponse" ->
            {"data", "command", "cwd", "itemId", "processId"}
      [] file = "TerminateParams" -> {"threadId", "processId"}
      [] file = "TerminateResponse" -> {"terminated"}
      [] file = "CleanParams" -> {"threadId"}
      [] OTHER -> {}
Optional(file) ==
    CASE file = "ListParams" -> {"cursor", "limit"}
      [] file = "ListResponse" -> {"nextCursor", "osPid", "cpuPercent", "rssKb"}
      [] OTHER -> {}

Requests == {"InterruptParams", "ListParams", "TerminateParams", "CleanParams"}
StableFeatures == {"SubAgentActivity", "TurnInterrupt"}
TerminalFeatures == {"List", "Terminate", "Clean"}
FilesOf(feature) ==
    CASE feature = "SubAgentActivity" -> {"ItemStarted"}
      [] feature = "TurnInterrupt" -> {"InterruptParams", "InterruptResponse"}
      [] feature = "List" -> {"ListParams", "ListResponse"}
      [] feature = "Terminate" -> {"TerminateParams", "TerminateResponse"}
      [] feature = "Clean" -> {"CleanParams", "CleanResponse"}
Files == UNION {FilesOf(f) : f \in StableFeatures \cup TerminalFeatures}

-----------------------------------------------------------------------------
(* The installed codex (external): how far it knows generate-json-schema,   *)
(* and the part that deviates.                                              *)

Parts == Files \cup {"Help", "ThreadStart"}
Deviations == {"absent", "malformed", "noObject", "demandsMore", "demandsLess",
               "otherTypes"}
Sound == [part |-> "none", how |-> "none"]
CLIs == [command : {"missing", "stable", "experimental"},
         odd : {Sound} \cup [part : Parts, how : Deviations]]
NoCLI == [command |-> "none", odd |-> Sound]

How(c, part) == IF c.odd.part = part THEN c.odd.how ELSE "none"
Schema(c, file) ==
    LET how == How(c, file)
    IN  [object |-> how # "noObject",
         required |-> CASE how = "demandsMore" -> Required(file) \cup {"new"}
                        [] how = "demandsLess" -> {}
                        [] OTHER -> Required(file),
         fields |-> IF how = "otherTypes" THEN {}
                    ELSE Required(file) \cup Optional(file) \cup {"new"}]

\* Only an experimental schema has files about background terminals.
Present(c, file) ==
    /\ How(c, file) # "absent"
    /\ asked \/ \E f \in StableFeatures : file \in FilesOf(f)

HelpPolicies == {"untrusted", "never"}
Advertised(c) == IF How(c, "Help") = "none" THEN HelpPolicies ELSE {}
\* AskForApproval of ThreadStartParams.json; without its granular variant if
\* the schema is an older one.
SchemaPolicies(c) ==
    IF How(c, "ThreadStart") = "demandsLess" THEN HelpPolicies
    ELSE HelpPolicies \cup {"granular"}

Replaced ==
    /\ call # "returned" /\ ~replaced
    /\ cli' \in {c \in CLIs : c.odd = Sound} \ {cli}
    /\ replaced' = TRUE
    /\ UNCHANGED <<goal, options, call, asked, by, left, policies, result>>

-----------------------------------------------------------------------------
(* The managed requirements, and what the SDK sends for a policy.           *)

Unrestricted == {"anything"}
Requirements ==
    {Unrestricted} \cup SUBSET {"untrusted", "granularDefault", "granularOther"}

\* encodeApprovalPolicy: a granular policy goes out with the default settings.
Wire(policy) == IF policy = "granular" THEN "granularDefault" ELSE policy

\* filterApprovalRequirements: a granular requirement counts only if its
\* settings are the default ones.  Mutant: every granular one counts.
AnyGranular(allowed) ==
    (allowed \cap {"untrusted", "never"})
        \cup {p \in {"granular"} :
                 allowed \cap {"granularDefault", "granularOther"} # {}}
AllowedPolicies(allowed) ==
    (allowed \cap {"untrusted", "never"})
        \cup {p \in {"granular"} : "granularDefault" \in allowed}
Filtered(values, allowed) ==
    IF allowed = Unrestricted THEN values
    ELSE values \cap AllowedPolicies(allowed)

-----------------------------------------------------------------------------
(* The checks of a schema.                                                  *)

\* objectSchemaMatches, with propertySchemaMatches.
ObjectMatches(schema, required, optional) ==
    /\ schema.object
    /\ required \subseteq schema.required
    /\ optional \cap schema.required = {}
    /\ required \cup optional \subseteq schema.fields

\* schemaHasRequestProperties: nothing else is required.  Mutant: it may be.
AnyRequired(schema, required) == TRUE
OnlyRequired(schema, required) == schema.required = required

FileMatches(c, file) ==
    LET schema == Schema(c, file)
    IN  /\ ObjectMatches(schema, Required(file), Optional(file))
        /\ file \in Requests => OnlyRequired(schema, Required(file))

\* discoverRuntimeFeaturesFromSchema looks for the stable features alone in a
\* stable schema; a malformed file it comes to is an error.
Looked == StableFeatures \cup (IF asked THEN TerminalFeatures ELSE {})
Malformed(c) ==
    \E f \in Looked : \E file \in FilesOf(f) : How(c, file) = "malformed"
Proven(c) ==
    {f \in Looked :
        \A file \in FilesOf(f) : Present(c, file) /\ FileMatches(c, file)}

-----------------------------------------------------------------------------
(* The two calls.                                                           *)

DiscoveryInit ==
    /\ cli \in CLIs /\ replaced = FALSE
    /\ \/ /\ goal = "features"
          /\ options \in [experimental : BOOLEAN, allowed : {Unrestricted}]
       \/ /\ goal = "controls"
          /\ options \in [experimental : BOOLEAN, allowed : Requirements]
    /\ call = IF goal = "features" THEN "version" ELSE "help"
    /\ asked = options.experimental /\ by = NoCLI /\ left = FALSE
    /\ policies = {} /\ result = [kind |-> "none", values |-> {}]

Return(kind, values) ==
    /\ result' = [kind |-> kind, values |-> values]
    /\ call' = "returned"

\* DiscoverRuntimeControls runs --help first: without policies there is
\* nothing to offer.
ControlsHelp ==
    /\ call = "help"
    /\ policies' = Advertised(cli)
    /\ IF policies' = {} THEN Return("error", {})
       ELSE /\ call' = IF asked THEN "require" ELSE "filter"
            /\ UNCHANGED result
    /\ UNCHANGED <<cli, replaced, goal, options, asked, by, left>>

\* DiscoverRuntimeFeatures runs --version first: it is a label, and a failure
\* that is not the deadline leaves it empty.
FeaturesVersion ==
    /\ call = "version"
    /\ call' = "require"
    /\ UNCHANGED <<cli, replaced, goal, options, asked, by, left, policies,
                   result>>

\* requireSchemaCommand: the subcommand and the options it advertises.
Advertises ==
    cli.command = "experimental" \/ (cli.command = "stable" /\ ~asked)

\* generateRuntimeFeatureSchema goes back to the stable schema if there is no
\* experimental one.  Mutant: it does not.
NoFallback == FALSE
FallsBack == goal = "features" /\ asked

\* Without the command no feature is proven, which is no error; the controls
\* are refused.
RequireSchemaCommand ==
    /\ call = "require"
    /\ IF Advertises THEN call' = "generate" /\ UNCHANGED <<asked, result>>
       ELSE IF FallsBack THEN asked' = FALSE /\ UNCHANGED <<call, result>>
       ELSE /\ Return(IF goal = "features" THEN "ok" ELSE "error", {})
            /\ UNCHANGED asked
    /\ UNCHANGED <<cli, replaced, goal, options, by, left, policies>>

\* The temporary directory, and codex that fills it.
MakeDirectory ==
    /\ call = "generate"
    /\ left' = TRUE /\ call' = "run"
    /\ UNCHANGED <<cli, replaced, goal, options, asked, by, policies, result>>

\* cleanup.  Mutant: the directory stays.
DirectoryStays == TRUE
AfterCleanup == FALSE

\* A codex that replaced the one asked for help may not know the arguments.
GenerateSchema ==
    /\ call = "run"
    /\ IF Advertises
       THEN by' = cli /\ call' = "read" /\ UNCHANGED <<left, result>>
       ELSE left' = AfterCleanup /\ Return("error", {}) /\ UNCHANGED by
    /\ UNCHANGED <<cli, replaced, goal, options, asked, policies>>

ReadFeatures ==
    /\ call = "read" /\ goal = "features"
    /\ IF Malformed(by) THEN Return("error", {}) ELSE Return("ok", Proven(by))
    /\ left' = AfterCleanup
    /\ UNCHANGED <<cli, replaced, goal, options, asked, by, policies>>

\* discoverExperimentalApprovalPolicies: a file that is absent or malformed,
\* or says nothing of approvals, is an error.
ReadPolicies ==
    /\ call = "read" /\ goal = "controls"
    /\ IF How(by, "ThreadStart") \in {"absent", "malformed", "noObject"}
       THEN Return("error", {}) /\ UNCHANGED policies
       ELSE /\ policies' = policies \cup SchemaPolicies(by)
            /\ call' = "filter" /\ UNCHANGED result
    /\ left' = AfterCleanup
    /\ UNCHANGED <<cli, replaced, goal, options, asked, by>>

\* The version of the codex, and what the requirements leave of the policies.
FilterPolicies ==
    /\ call = "filter"
    /\ LET offered == Filtered(policies, options.allowed)
       IN  IF offered = {} THEN Return("error", {}) ELSE Return("ok", offered)
    /\ UNCHANGED <<cli, replaced, goal, options, asked, by, left, policies>>

\* A run of codex fails, or the deadline passes in it.
RunFails ==
    /\ call \in {"version", "help", "require", "run", "filter"}
    /\ left' = (left /\ AfterCleanup)
    /\ Return("error", {})
    /\ UNCHANGED <<cli, replaced, goal, options, asked, by, policies>>

DiscoveryNext ==
    \/ Replaced
    \/ ControlsHelp \/ FeaturesVersion
    \/ RequireSchemaCommand \/ MakeDirectory \/ GenerateSchema
    \/ ReadFeatures \/ ReadPolicies \/ FilterPolicies
    \/ RunFails

DiscoverySpec == DiscoveryInit /\ [][DiscoveryNext]_discoveryVars

-----------------------------------------------------------------------------
(* Properties                                                               *)

\* What background_terminals.go and threads.go put into a request, and what
\* they read of its response.
Sends(feature) ==
    CASE feature = "TurnInterrupt" -> {{"threadId", "turnId"}}
      [] feature = "List" ->
            {{"threadId", "limit"}, {"threadId", "limit", "cursor"}}
      [] feature = "Terminate" -> {{"threadId", "processId"}}
      [] feature = "Clean" -> {{"threadId"}}
      [] OTHER -> {}
Reads(feature) ==
    CASE feature = "SubAgentActivity" -> {"id", "kind", "agentThreadId"}
      [] feature = "List" -> {"data", "itemId", "processId"}
      [] feature = "Terminate" -> {"terminated"}
      [] OTHER -> {}

Accepts(schema, sent) ==
    schema.object /\ schema.required \subseteq sent /\ sent \subseteq schema.fields
Delivers(schema, read) ==
    schema.object /\ read \subseteq schema.required \cap schema.fields

Usable(c, feature) ==
    \A file \in FilesOf(feature) :
        /\ How(c, file) \notin {"absent", "malformed"}
        /\ IF file \in Requests
           THEN \A sent \in Sends(feature) : Accepts(Schema(c, file), sent)
           ELSE Delivers(Schema(c, file), Reads(feature))

Succeeded(kind) == goal = kind /\ result.kind = "ok"

\* "Optional controls are enabled only when DiscoverRuntimeFeatures proves
\* their exact methods and response shapes" (README.md:48): a feature that is
\* reported is one whose requests the codex that was examined accepts as
\* background_terminals.go sends them, and whose answers have what is read of
\* them; a malformed file is an error ("fail closed"); no older codex loses
\* more than it lacks; and no directory outlives the call.
ProvenIsUsable ==
    /\ Succeeded("features") =>
          /\ \A f \in result.values : Usable(by, f)
          /\ result.values \cap TerminalFeatures # {} => options.experimental
          /\ by # NoCLI => ~Malformed(by)
          /\ ~replaced /\ cli.odd = Sound =>
                result.values =
                    CASE cli.command = "missing" -> {}
                      [] cli.command = "experimental" /\ options.experimental ->
                            StableFeatures \cup TerminalFeatures
                      [] OTHER -> StableFeatures
    /\ call = "returned" => ~left

\* "intersects the advertised values with optional provider-managed
\* requirements": every policy that is offered is allowed in the form in which
\* the SDK will send it, and the granular one was advertised by the schema and
\* is what the options ask for.
OffersAreAllowed ==
    Succeeded("controls") =>
        /\ result.values # {}
        /\ options.allowed # Unrestricted =>
              \A p \in result.values : Wire(p) \in options.allowed
        /\ "granular" \in result.values =>
              options.experimental /\ "granular" \in SchemaPolicies(by)
=============================================================================
