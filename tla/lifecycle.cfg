\* Both services: every start, failure and shutdown, two requests and a probe.
CONSTANTS
    Service <- Services
    Request = {r1, r2}
SPECIFICATION FairSpec
INVARIANTS TypeOK Released NoUseAfterRelease
PROPERTIES SearchStopsClean NoLateAdmission ReadyMeansServing Stops
CHECK_DEADLOCK FALSE
