----------------------------- MODULE MCWebRequests -----------------------------
\* The handlers of the web interface, and two users: one who may do everything
\* and one who may stop inputs and create dashboards, but neither read inputs
\* nor search.
EXTENDS WebRequests, SystemHandlers

AllPermissions ==
    LET steps == UNION {{Handlers[name].steps[i] : i \in DOMAIN Handlers[name].steps} : name \in DOMAIN Handlers}
    IN  UNION {step.needs : step \in steps}
Users == {AllPermissions, {"inputs:stop", "dashboards:create"}}

\* Some classes and methods are enough: the others have the programs of these,
\* but for the permissions they need.
Enough ==
    Of("Sessions", SessionsController)
 @@ Of("Startpage", StartpageController)
 @@ Of("Search", SearchController @@ MessagePages)
 @@ Of("StreamSearch", StreamSearchController)
 @@ Of("SavedSearches", SavedSearchesController)
 @@ Of("Streams", StreamsController)
 @@ Of("StreamOutputs", StreamOutputsController)
 @@ Of("Outputs", OutputsController)
 @@ Of("Alerts", AlertConditions @@ AlertConditionChanges @@ AlertReceivers)
 @@ Of("Users", UsersController)
 @@ Of("Ldap", LdapController)
 @@ Of("Inputs", InputsController)
 @@ Of("Extractors", ExtractorsController)
 @@ Of("GrokPatterns", GrokPatternsController)
 @@ Of("Nodes", NodesController)
 @@ Of("Metrics", MetricsController)
 @@ Of("Logging", LoggingController)
 @@ Of("Indices", IndicesController)
 @@ Of("System", SystemController)
 @@ Of("SystemJobs", SystemJobsController)
 @@ Of("Bundles", BundlesController)
 @@ Of("Dashboards", DashboardsController)
 @@ Of("SavedSearchesApi", [create |-> SavedSearchesApiController.create])
 @@ Of("StreamOutputsApi", StreamOutputsApiController)
 @@ Of("StreamRulesApi", [types |-> StreamRulesApiController.types])
 @@ Of("OutputsApi", [index |-> OutputsApiController.index])
 @@ Of("UsersApi", UsersApiController)
 @@ Of("ToolsApi", [regexTest |-> ToolsApiController.regexTest])
 @@ Of("SystemApi", [pauseMessageProcessing |-> SystemApiController.pauseMessageProcessing])
 @@ Of("BundlesApi", BundlesApiController)
 @@ Of("DashboardsApi", DashboardQueries @@ AddWidget @@ WidgetChanges)

Stripped(program) ==
    [program EXCEPT !.steps = [i \in DOMAIN @ |-> [@[i] EXCEPT !.needs = {}]]]
ASSUME EnoughAssumption ==
    {Stripped(Handlers[name]) : name \in DOMAIN Handlers} = {Stripped(Enough[name]) : name \in DOMAIN Enough}

\* What the proofs assume of the handlers holds of all of them.
All == INSTANCE WebRequests WITH Programs <- Handlers
ASSUME AllHandlersAssumption == All!HandlersRun /\ All!MessagesArePosted /\ All!ChangesAreReported

MCPrograms == Enough
MCSameAddress == AddressOf
MCGrants == Users
=============================================================================
