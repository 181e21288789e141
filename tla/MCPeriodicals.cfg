\* A sequential poller and both loops of a widget.
SPECIFICATION FairSpec
CONSTANTS
    jobs = jobs
    data = data
    value = value
    Pollers = {jobs, data, value}
    Sequential = {jobs}
    Restless = {jobs}
    WidgetLoops = {data, value}
    DataLoops = {data}
    Marking = {value}
    MaxVersion = 1
    MaxUnanswered <- MCUnanswered
INVARIANTS
    TypeOK
    OnePulse
PROPERTIES
    QuietInBackground
    NeverGoesBack
    EventuallyCurrent
    DeletedStops
CHECK_DEADLOCK FALSE
