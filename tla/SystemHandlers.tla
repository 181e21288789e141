---------------------------- MODULE SystemHandlers ----------------------------
(***************************************************************************)
(* The handlers of the system pages: users, inputs, extractors, nodes,     *)
(* indices, content packs; of dashboards; and all handlers together.       *)
(***************************************************************************)
EXTENDS WebHandlers

-----------------------------------------------------------------------------
(* Users and LDAP *)

UserPages == [
    index |-> Page,
    newUserForm |-> Link(<<May({"users:create"}, Home), Read(Fails), End({Shows})>>),
    editUserForm |-> Link(<<May({"users:edit"}, Home), Read(Telling("Users", "index")),
                            Read(Fails), End({Shows})>>)]
\* create goes on after its message; delete ignores its result.
UserChanges == [
    create |-> Form(<<May({"users:create"}, Home), Check(Fails), Write(Noting),
                      End({Saying("Users", "index")})>>),
    delete |-> Form(<<May({"users:edit"}, Home), Write(GoOn), End({To("Users", "index")})>>)]
\* saveChanges ignores the result of the update.
UserSettings == [
    saveChanges |-> Form(<<May({"users:edit"}, Home), Read(Telling("Users", "index")), Check(Fails),
                           Write(GoOn), End({Saying("Users", "index")})>>)]
UserPassword ==
    LET form == "editUserForm" IN
    [changePassword |-> Form(<<May({"users:edit"}, Home), Read(Telling("Users", "index")),
                               Check(Telling("Users", form)), Write(Telling("Users", form)),
                               End({Saying("Users", form)})>>)]
UserPermissions ==
    LET form == "editUserForm" IN
    [resetPermissions |-> Form(<<May({"users:edit"}, Home), Read(Telling("Users", "index")),
                                 May({"users:permissionsedit"}, Telling("Users", form)),
                                 Check(Telling("Users", form)), Write(Telling("Users", form)),
                                 End({Saying("Users", form)})>>)]
UsersController == UserPages @@ UserChanges @@ UserSettings @@ UserPassword @@ UserPermissions

\* An unknown user is not found (which makes the name unique), and so is one
\* who could not be asked for.
UsersApiController == [
    listUsers |-> Query,
    loadUser |-> Xhr(<<May({"users:list"}, Home), Read(Fails), Answers>>),
    deleteUser |-> Xhr(<<May({"users:edit"}, Fails), Write(GoOn), Answers>>),
    saveUserPreferences |-> Xhr(<<May({"users:edit"}, Home), Write(Fails), Answers>>),
    isUniqueUsername |-> Xhr(<<Read(GoOn), End({Shows, Fails})>>)]

LdapController == [
    index |-> Link(<<Read(GoOn), End({Shows})>>),
    apiTestLdapConnection |-> Query, apiTestLdapLogin |-> Query,
    saveLdapSettings |-> Form(<<Check(FailsTelling), Write(Telling("Users", "index")),
                                End({Saying("Users", "index")})>>)]

-----------------------------------------------------------------------------
(* Inputs *)

InputPage == Link(<<May({"inputs:read"}, Home), Read(Fails), End({Shows})>>)
InputPages == [index |-> InputPage, manage |-> InputPage, manageRadio |-> InputPage]

ToInputs == To("Inputs", "index")
NoInput == Telling("Inputs", "index")

\* A global input is launched everywhere by one call.  One of a single node is
\* stored by the master and then launched by its node.
InputLaunch ==
    [launch |-> Form(<<May({"inputs:edit"}, Home), Read(Fails), Check(Crashes), Read(Fails),
                       WriteOr({Fails, NoInput}, Fails), Check(ToInputs), Write(Fails), End({ToInputs})>>)]

\* Updated and then restarted; errors of both are printed on the console.
InputUpdate == [
    update |-> Form(<<May({"inputs:edit"}, Home), Read(Crashes), Check(Crashes), Read(ToInputs),
                      Write(ToInputs), Write(ToInputs), End({ToInputs})>>)]
\* A global input is terminated on every node, of which there are two here.
InputTermination ==
    LET one == Link(<<May({"inputs:terminate"}, Home), Check(Fails), Write(Noting), End({ToInputs})>>)
    IN  [terminate |-> one, terminateRadio |-> one,
         terminateGlobal |-> Link(<<May({"inputs:terminate"}, Home), Write(Noting), Write(Noting),
                                    End({ToInputs})>>)]
InputStates ==
    LET Changed(permissions) == Link(<<May(permissions, NoInput), Write(Fails), End({ToInputs})>>)
    IN  [stop |-> Changed({"inputs:stop"}), start |-> Changed({"inputs:start"}),
         restart |-> Changed({"inputs:start", "inputs:stop"})]
StaticFields ==
    LET add == <<Check(NoInput), Read(Fails), Write(Fails), End({ToInputs})>>
        may == <<May({"inputs:edit"}, Home)>>
    IN  [addStaticField |-> Form(may \o add),
         addStaticFieldGlobal |-> Form(may \o <<Read(Crashes)>> \o add),
         removeStaticField |-> Link(may \o <<Read(Fails), Write(Fails), End({ToInputs})>>)]
InputsController ==
    InputPages @@ InputLaunch @@ InputUpdate @@ InputTermination @@ InputStates @@ StaticFields
InputsApiController == [
    list |-> Query, io |-> Query, globaIO |-> Query, connections |-> Query,
    globalRecentMessage |-> Query, recentMessage |-> Query]

-----------------------------------------------------------------------------
(* Extractors *)

MayExtract == May({"inputs:edit"}, Home)
Manage == To("Extractors", "manage")
ExtractorPage == Link(<<MayExtract, Read(Fails), End({Shows})>>)
ExtractorChange ==
    Form(<<MayExtract, Read(Fails), Check(Fails), Write(Fails), End({Saying("Extractors", "manage")})>>)
\* Pages, and those that change one extractor.
ExtractorPages == [
    manage |-> ExtractorPage, manageGlobal |-> ExtractorPage, newExtractor |-> ExtractorPage,
    create |-> ExtractorChange]
OneExtractor == [
    delete |-> Form(<<MayExtract, Read(Fails), Write(Fails), End({Manage})>>),
    editExtractor |-> Link(<<MayExtract, Read(Fails), Read(GoOn), End({Shows})>>),
    update |-> ExtractorChange,
    exportExtractors |-> Link(<<May({"inputs:read"}, Home), Read(Fails), End({Shows})>>),
    importExtractorsPage |-> ExtractorPage]
\* Each extractor is made, or noted as failed; how many were made is told, too.
ExtractorImport == [
    importExtractors |-> Form(<<MayExtract, Check(Telling("Extractors", "importExtractorsPage")),
                                Write(Noting), Write(Noting), End({Saying("Extractors", "manage")})>>)]
ExtractorsController == ExtractorPages @@ OneExtractor @@ ExtractorImport
ExtractorsApiController == [order |-> Change]
ToolsApiController ==
    LET test == Xhr(<<Check(Fails), Read(Fails), Answers>>)
    IN  [regexTest |-> test, substringTest |-> test, splitAndIndexTest |-> test,
         naturalDateTest |-> test, grokTest |-> test]

\* The file is parsed here and loaded by the server in one call.
GrokPatternsController == [
    index |-> Link(<<Read(Crashes), End({Shows})>>),
    upload |-> Form(<<Check(Telling("GrokPatterns", "index")), Write(Telling("GrokPatterns", "index")),
                      End({Saying("GrokPatterns", "index")})>>)]
GrokPatternsApiController == [index |-> Query, create |-> Change, update |-> Change, delete |-> Change]

-----------------------------------------------------------------------------
(* Nodes, indices and the rest of the system *)

\* Processing is paused and resumed by a form on a node's page and by a script.
NodePages == [
    nodes |-> ReadPage,
    node |-> Link(<<Check(Telling("Nodes", "nodes")), Read(Fails), End({Shows})>>),
    threadDump |-> ReadPage]
NodeChanges ==
    LET Changed(page) == <<Check(Fails), Write(Fails), End({To("Nodes", page)})>>
    IN  [pauseMessageProcessing |-> Form(Changed("node")), resumeMessageProcessing |-> Form(Changed("node")),
         overrideLbStatus |-> Link(Changed("nodes")), shutdown |-> Link(Changed("nodes"))]
NodesController == NodePages @@ NodeChanges
RadiosController == [
    show |-> ReadPage, threadDump |-> ReadPage,
    overrideLbStatus |-> Link(<<Check(Fails), Write(Fails), End({To("Nodes", "nodes")})>>)]
NodesApiController == [nodes |-> Query]
MetricsController == [
    ofNode |-> ReadPage, ofRadio |-> ReadPage,
    ofMasterNode |-> Link(<<Read(Fails), End({To("Metrics", "ofNode")})>>)]
LoggingController == [
    index |-> ReadPage,
    setSubsystemLevel |-> XhrOfAnything(<<Check(Fails), Write(Fails), End({To("Logging", "index")})>>)]

IndicesController ==
    LET Changed(class) == Link(<<Write(Fails), End({To(class, "index")})>>)
    IN  [index |-> ReadPage, failures |-> ReadPage,
         closeIndex |-> Changed("Indices"), reopenIndex |-> Changed("Indices"),
         deleteIndex |-> Changed("Indices"), cycleDeflector |-> Changed("Indices"),
         reCalculateRanges |-> Changed("System")]
IndicesApiController == [failures |-> Query, indexInfo |-> Query]
SystemController == [index |-> ReadPage]
SystemJobsController == [
    trigger |-> Form(<<Check(Crashes), Write(Fails), End({To("System", "index")})>>)]
SystemQueries == [
    fields |-> Query, jobs |-> Query, notifications |-> Query, deleteNotification |-> Change,
    totalThroughput |-> Query, nodeThroughput |-> Query, radioThroughput |-> Query,
    streamThroughput |-> Query, heap |-> Query]
SystemApiController ==
    LET change == Xhr(<<Check(Fails), Write(Fails), Answers>>) IN
    SystemQueries @@
    [journal |-> Query, radioHeap |-> Query, internalLogsOfNode |-> Query,
     internalLogMetricsOfNode |-> Query,
     pauseMessageProcessing |-> change, resumeMessageProcessing |-> change]
CollectorsApiController == [index |-> Query]
CollectorsController == [index |-> Page]

-----------------------------------------------------------------------------
(* Content packs, dashboards *)

\* A download leaves the form where it is.
BundlesController == [
    index |-> Page,
    exportForm |-> Link(<<Read(GoOn), End({Shows})>>),
    export |-> Form(<<Check(FailsTelling), Read(Telling("Bundles", "exportForm")), End({Sends})>>)]
BundlesApiController ==
    LET change == <<Write(Telling("Bundles", "index")), End({Saying("Bundles", "index")})>>
    IN  [index |-> Query,
         create |-> Form(<<Check(Telling("Bundles", "index"))>> \o change),
         apply |-> Form(change), delete |-> Form(change)]

DashboardPages == [
    index |-> ReadPage,
    show |-> Link(<<ReadOr({Telling("Dashboards", "index"), Fails}, Fails), End({Shows})>>),
    newDashboard |-> Link(<<May({"dashboards:create"}, Home), End({Shows})>>),
    create |-> Form(<<Check(Telling("Dashboards", "newDashboard")), Write(Fails),
                      End({To("Dashboards", "index")})>>)]
DashboardDeletion == [delete |-> Link(<<Write(Fails), End({Saying("Dashboards", "index")})>>)]
DashboardsController == DashboardPages @@ DashboardDeletion
DashboardQueries ==
    LET change == <<Check(Fails), Read(Fails), Write(Fails), Answers>> IN
    [index |-> Query, listWritable |-> Query,
     create |-> Xhr(<<May({"dashboards:create"}, Fails), Check(Fails), Write(Fails), Answers>>),
     update |-> Xhr(<<May({"dashboards:edit"}, Fails)>> \o change)]
DashboardValues == [
    setWidgetPositions |-> Xhr(<<Read(Fails), Write(Fails), Answers>>),
    widget |-> Query, widgetValue |-> Query]
AddWidget == [addWidget |-> Xhr(<<Read(Fails), Check(Fails), Write(Fails), Answers>>)]
\* Who may not edit is sent to the start page, which a script takes for an error.
WidgetChanges ==
    LET change == Xhr(<<Check(Fails), Read(Fails), Write(Fails), Answers>>)
    IN  [removeWidget |-> Xhr(<<Read(Fails), Write(Fails), Answers>>),
         updateWidgetDescription |-> change, updateWidgetCacheTime |-> change,
         updateWidget |-> Xhr(<<May({"dashboards:edit"}, Home), Read(Fails), Write(Fails), Answers>>)]
DashboardsApiController == DashboardQueries @@ DashboardValues @@ AddWidget @@ WidgetChanges

-----------------------------------------------------------------------------
(* All handlers *)

Of(class, methods) == [name \in {class} \X DOMAIN methods |-> methods[name[2]]]
PageHandlers ==
    Of("Sessions", SessionsController)
 @@ Of("Startpage", StartpageController)
 @@ Of("Search", SearchController @@ MessagePages)
 @@ Of("StreamSearch", StreamSearchController)
 @@ Of("Messages", MessagesController)
 @@ Of("MessageCounts", MessageCountsController)
 @@ Of("Sources", SourcesController)
 @@ Of("SavedSearches", SavedSearchesController)
 @@ Of("Streams", StreamsController)
 @@ Of("StreamRules", StreamRulesController)
 @@ Of("StreamOutputs", StreamOutputsController)
 @@ Of("Outputs", OutputsController)
 @@ Of("Alerts", AlertConditions @@ AlertConditionChanges @@ AlertReceivers)
 @@ Of("Users", UsersController)
 @@ Of("Ldap", LdapController)
 @@ Of("Inputs", InputsController)
 @@ Of("Extractors", ExtractorsController)
 @@ Of("GrokPatterns", GrokPatternsController)
 @@ Of("Nodes", NodesController)
 @@ Of("Radios", RadiosController)
 @@ Of("Metrics", MetricsController)
 @@ Of("Logging", LoggingController)
 @@ Of("Indices", IndicesController)
 @@ Of("System", SystemController)
 @@ Of("SystemJobs", SystemJobsController)
 @@ Of("Collectors", CollectorsController)
 @@ Of("Bundles", BundlesController)
 @@ Of("Dashboards", DashboardsController)
ApiHandlers ==
    Of("SearchApi", SearchApiController)
 @@ Of("SourcesApi", SourcesApiController)
 @@ Of("SavedSearchesApi", SavedSearchesApiController)
 @@ Of("StreamsApi", StreamsApiController)
 @@ Of("StreamRulesApi", StreamRulesApiController)
 @@ Of("StreamOutputsApi", StreamOutputsApiController)
 @@ Of("OutputsApi", OutputsApiController)
 @@ Of("AlarmCallbacksApi", AlarmCallbacksApiController)
 @@ Of("AlertsApi", AlertsApiController)
 @@ Of("UsersApi", UsersApiController)
 @@ Of("InputsApi", InputsApiController)
 @@ Of("ExtractorsApi", ExtractorsApiController)
 @@ Of("ToolsApi", ToolsApiController)
 @@ Of("GrokPatternsApi", GrokPatternsApiController)
 @@ Of("NodesApi", NodesApiController)
 @@ Of("IndicesApi", IndicesApiController)
 @@ Of("SystemApi", SystemApiController)
 @@ Of("CollectorsApi", CollectorsApiController)
 @@ Of("BundlesApi", BundlesApiController)
 @@ Of("DashboardsApi", DashboardsApiController)
Handlers == PageHandlers @@ ApiHandlers

\* Forms with a page at the same address: asked for with GET they are that page.
AddressOf ==
    <<"Bundles", "export">> :> <<"Bundles", "exportForm">>
 @@ <<"BundlesApi", "create">> :> <<"BundlesApi", "index">>
 @@ <<"Inputs", "launch">> :> <<"Inputs", "index">>
 @@ <<"Extractors", "create">> :> <<"Extractors", "manage">>
 @@ <<"Extractors", "importExtractors">> :> <<"Extractors", "importExtractorsPage">>
 @@ <<"Ldap", "saveLdapSettings">> :> <<"Ldap", "index">>
 @@ <<"Users", "create">> :> <<"Users", "index">>
=============================================================================
