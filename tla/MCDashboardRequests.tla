------------------------ MODULE MCDashboardRequests ------------------------
(***************************************************************************)
(* Contract 2 has learner 1 in two course runs, learner 2 and an account   *)
(* with no global id; contracts 0 and 1, which precede it, have such an    *)
(* account and learner 2 alone, and stay below a floor of two.             *)
(***************************************************************************)
EXTENDS DashboardRequests

MCLearner == [p \in Rows |-> CASE p \in {1, 2} -> 1 [] p \in {3, 4} -> 2 [] OTHER -> Null]
MCContract == [p \in Rows |-> CASE p = 4 -> 1 [] p = 6 -> 0 [] OTHER -> 2]
MCRun == [p \in Rows |-> IF p = 2 THEN 2 ELSE 1]

Content(status, since, active) == [status |-> status, since |-> since, active |-> active]
Quiet == Content("not_started", 0, TRUE)
QuietTomorrow == Content("in_progress", 1, TRUE)
Certified == Content("certified", Null, TRUE)
Unenrolled == Content("not_started", 0, FALSE)
Gone == Content(Absent, Null, FALSE)

MCContents == [p \in Rows |-> CASE p = 1 -> {QuietTomorrow, Certified, Unenrolled}
                                [] p = 2 -> {Quiet, Gone}
                                [] p = 3 -> {Quiet, Certified}
                                [] p = 4 -> {Quiet, Gone}
                                [] OTHER -> {Quiet}]
MCDecisions == [k \in {<<1, 2>>, <<2, 2>>, <<2, 1>>} |->
                  CASE k = <<1, 2>> -> {TRUE, FALSE, Null} [] k = <<2, 2>> -> {TRUE, FALSE}
                    [] OTHER -> {Null}]
MCPanelContents == [cohort : {1, 2}, since : {0, 1, Null}, health : {"healthy"}]

Filter(statuses, needs, inactive) ==
    [contract |-> 2, search |-> {1, 2}, runs |-> {}, statuses |-> statuses, needs |-> needs,
     inactive |-> inactive]
Request(endpoint, filter, limit) == [endpoint |-> endpoint, filter |-> filter, limit |-> limit]
All == Filter({}, Null, FALSE)
MCRequests ==
    {Request("learner-progress", f, 4) :
        f \in {Filter({}, Null, TRUE), Filter({"certified"}, Null, FALSE),
               Filter({"in_progress", "unknown"}, Null, FALSE), Filter({}, FALSE, FALSE)}}
    \cup {Request("learner-progress", [All EXCEPT !.runs = {1}], 1),
          Request("learners", [All EXCEPT !.search = {1}], 2),
          Request("learners", Filter({"not_started"}, TRUE, FALSE), 1),
          Request("learners", All, 3),
          Request("course-runs", All, 1),
          Request("needs-attention", [All EXCEPT !.contract = Null], 1),
          Request("panel", All, 2), Request("admin", All, 4)}
=============================================================================
