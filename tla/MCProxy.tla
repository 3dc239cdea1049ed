------------------------------ MODULE MCProxy -------------------------------
EXTENDS Proxy

CONSTANTS r1, r2, p1, p2

OneConn == {r1}
TwoConns == {r1, r2}
OneProject == {p1}
TwoProjects == {p1, p2}

GetAndCreate == {"getIssue", "createIssue"}
SearchOnly == {"searchIssues"}
CreateOnly == {"createIssue"}
AllHandlers == Handlers
=============================================================================
