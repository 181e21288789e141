----------------------------- MODULE WebHandlers -----------------------------
(***************************************************************************)
(* What each handler of the web interface does with a request, as a        *)
(* program: a sequence of steps, each of which checks something, asks the  *)
(* cluster or changes something there, with the ways the handler takes     *)
(* when the step fails, and an end.  The name of a handler is that of its  *)
(* class and its method.  WebRequests runs the programs.                   *)
(***************************************************************************)
EXTENDS Sequences, TLC

-----------------------------------------------------------------------------
(* Ways on *)

None == <<"none", "none">>
Way(then, to, say) == [then |-> then, to |-> to, say |-> say]

GoOn == Way("on", None, "nothing")          \* as if nothing had failed
Noting == Way("on", None, "error")          \* goes on, with a message
Shows == Way("page", None, "nothing")
Fails == Way("error", None, "nothing")      \* an error page or status of its own
FailsTelling == Way("error", None, "error") \* the form again, with a message
Crashes == Way("crash", None, "nothing")    \* a bare status, or Play's error page
Sends == Way("file", None, "nothing")       \* a file to download
To(class, method) == Way("redirect", <<class, method>>, "nothing")
Telling(class, method) == Way("redirect", <<class, method>>, "error")
Saying(class, method) == Way("redirect", <<class, method>>, "success")
Home == To("Startpage", "redirect")

-----------------------------------------------------------------------------
(* Steps.  The cluster may refuse a call, or not answer it. *)

Step(do, needs, refused, lost) == [do |-> do, needs |-> needs, refused |-> refused, lost |-> lost]

May(permissions, way) == Step("may", permissions, {way}, {way})     \* one of them is enough
Check(way) == Step("check", {}, {way}, {way})                       \* of what was submitted
Read(way) == Step("read", {}, {way}, {way})
ReadOr(refused, lost) == Step("read", {}, refused, {lost})
Write(way) == Step("write", {}, {way}, {way})
WriteOr(refused, lost) == Step("write", {}, refused, {lost})
End(ways) == Step("end", {}, ways, ways)

\* How the browser comes to a handler: by a link, a form, or from a script,
\* most of which want JSON and take anything else for an error.
Link(steps) == [by |-> "link", steps |-> steps]
Form(steps) == [by |-> "form", steps |-> steps]
Xhr(steps) == [by |-> "json", steps |-> steps]
XhrOfAnything(steps) == [by |-> "any", steps |-> steps]

Page == Link(<<End({Shows})>>)
ReadPage == Link(<<Read(Fails), End({Shows})>>)
Answers == End({Shows})
Query == Xhr(<<Read(Fails), Answers>>)
Change == Xhr(<<Write(Fails), Answers>>)
ChangeBy(permission) == Xhr(<<May({permission}, Fails), Write(Fails), Answers>>)

-----------------------------------------------------------------------------
(* Signing out, start page and search *)

\* A session that could not be ended on the server is forgotten all the same.
SessionsController == [destroy |-> Link(<<Write(GoOn), End({Home})>>)]

\* Whatever the user's start page is; the search if none is set.
StartpageController == [
    redirect |-> Link(<<End({To("Search", "globalSearch"), To("Dashboards", "show"),
                             To("StreamSearch", "index")})>>),
    set |-> Link(<<Check(Crashes),
                   WriteOr({Telling("Streams", "index"), Telling("Dashboards", "index")},
                           Telling("Streams", "index")),
                   End({Saying("Streams", "index"), Saying("Dashboards", "index")})>>),
    reset |-> Form(<<Read(Crashes), Write(Telling("Users", "editUserForm")),
                     End({Saying("Users", "editUserForm")})>>)]

MaySearch == May({"searches:absolute", "searches:relative", "searches:keyword"}, To("Streams", "index"))
SearchPage == Link(<<MaySearch, Check(Fails), Read(Fails), End({Shows})>>)
SearchController == [globalSearch |-> SearchPage, index |-> SearchPage]
MessagePages == [
    showMessage |-> ReadPage,
    exportAsCsv |-> Link(<<Check(Fails), Read(Fails), End({Sends})>>)]
StreamSearchController == [
    index |-> Link(<<ReadOr({Telling("Streams", "index"), Fails}, Fails),
                     Check(Fails), Read(Fails), End({Shows})>>)]
MessagesController == [single |-> Query, analyze |-> Query]
MessageCountsController == [total |-> Query]
SourcesController == [list |-> Page]
SearchApiController == [
    fieldStats |-> Xhr(<<Check(Fails), Read(Fails), Answers>>),
    fieldTerms |-> Xhr(<<Check(Fails), Read(Fails), Answers>>),
    fieldHistogram |-> Xhr(<<Check(Fails), Read(Fails), Answers>>),
    histogram |-> Xhr(<<Check(Fails), Read(Fails), Answers>>)]
SourcesApiController == [list |-> Xhr(<<Check(Fails), Read(Fails), Answers>>)]

\* deleting is asked for by a script, which follows the redirect.
SavedSearchesController == [
    execute |-> Link(<<Read(Fails), End({To("Search", "index"), To("StreamSearch", "index")})>>),
    delete |-> XhrOfAnything(<<Read(Fails), Write(Fails), End({Saying("Search", "globalSearch")})>>)]
SavedSearchesApiController == [list |-> Query, create |-> Change, update |-> Change]

-----------------------------------------------------------------------------
(* Streams and alerts *)

StreamsController == [index |-> Page]
StreamRulesController == [index |-> ReadPage]
StreamOutputsController == [
    index |-> Link(<<May({"streams:read"}, Crashes), May({"outputs:read"}, Crashes),
                     ReadOr({Telling("Streams", "index"), Crashes}, Crashes), End({Shows})>>)]
OutputsController == [index |-> Link(<<May({"outputs:read"}, Home), End({Shows})>>)]

StreamsApiController == [
    list |-> Query, get |-> Query, testMatch |-> Query,
    delete |-> Change, create |-> Change, pause |-> Change, resume |-> Change,
    update |-> Change, cloneStream |-> Change]
StreamRulesApiController == [
    types |-> Xhr(<<Answers>>), list |-> Query,
    update |-> Change, delete |-> Change, create |-> Change]
StreamOutputsApiController == [
    index |-> Xhr(<<May({"streams:read"}, Fails), May({"outputs:read"}, Fails), Read(Fails), Answers>>),
    delete |-> ChangeBy("stream_outputs:delete"),
    add |-> ChangeBy("stream_outputs:create")]
OutputsApiController == [
    index |-> Xhr(<<May({"outputs:read"}, Fails), Read(Fails), Answers>>),
    available |-> Query, availableTypes |-> Query,
    delete |-> ChangeBy("outputs:terminate"),
    create |-> ChangeBy("outputs:create"),
    update |-> ChangeBy("outputs:edit")]
AlarmCallbacksApiController == [
    available |-> Query, list |-> Query,
    create |-> ChangeBy("streams:edit"), delete |-> ChangeBy("streams:edit"),
    update |-> ChangeBy("streams:edit")]
AlertsApiController == [allAllowedSince |-> Query]

\* Numbers that are none make parseInt throw.
AddCondition ==
    Form(<<Check(Telling("Alerts", "index")), Read(Fails), Check(Crashes), Write(Fails),
           End({Saying("Alerts", "index")})>>)
AlertConditions == [
    index |-> ReadPage,
    addTypeMessageCount |-> AddCondition,
    addTypeFieldValue |-> AddCondition]
AlertConditionChanges == [
    addTypeFieldContentValue |-> AddCondition,
    updateCondition |-> Form(<<Check(Telling("Alerts", "index")), Read(Fails), Write(Fails),
                               End({Saying("Alerts", "index")})>>),
    removeCondition |-> Link(<<Read(Fails), Write(Fails), End({Saying("Alerts", "index")})>>)]
AlertReceivers ==
    LET user == <<Check(Telling("Alerts", "index")), Read(Telling("Alerts", "index")),
                  Read(Fails), Write(Fails), End({Saying("Alerts", "index")})>>
        email == <<Read(Fails), Write(Fails), End({Saying("Alerts", "index")})>>
    IN  [addReceiverUser |-> Form(user), removeReceiverUser |-> Link(user),
         addReceiverEmail |-> Form(email), removeReceiverEmail |-> Link(email),
         sendDummyAlert |-> Form(<<WriteOr({Telling("Alerts", "index")}, Fails),
                                   End({Saying("Alerts", "index")})>>)]
=============================================================================
