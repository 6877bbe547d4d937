-------------------------- MODULE MCReviewVerdict --------------------------
(* Instances of ReviewVerdict for TLC: three people in every combination of*)
(* roles that the reviewers file can give them.                            *)
EXTENDS ReviewVerdict

CONSTANTS outsider, robot, code, huge, page, version

DeltaOfFile == [f \in File |-> IF f = huge THEN 1500 ELSE 10]
UnderOfFile == [f \in File |-> IF f = page THEN {"docs/pages"} ELSE
                               IF f = code THEN {"lib"} ELSE {}]

R(owner, preferredOnly, paths, excluded) ==
    [owner |-> owner, preferredOnly |-> preferredOnly, paths |-> paths, excluded |-> excluded]

(* What one person is: the entry among the code reviewers, if any, and the *)
(* other lists they are on.                                                *)
Role(entry, lists) == [entry |-> entry, lists |-> lists]
Roles == <<
    Role({R(TRUE, FALSE, {}, {})}, {}),
    Role({R(TRUE, FALSE, {}, {})}, {"admins"}),
    Role({R(TRUE, FALSE, {}, {})}, {"docs", "codeOmit"}),
    Role({R(TRUE, FALSE, {"docs/pages"}, {})}, {}),
    Role({R(TRUE, TRUE, {"lib"}, {})}, {"release"}),
    Role({R(FALSE, FALSE, {"lib", "docs/pages"}, {"docs/pages"})}, {"release"}),
    Role({}, {"docs"}),
    Role({}, {"admins", "codeOmit"}) >>

ConfigOf(role) ==
    LET On(list) == {p \in Person : list \in role[p].lists}
        team == {p \in Person : role[p].entry # {}}
    IN  [core |-> [p \in team |-> CHOOSE r \in role[p].entry : TRUE],
         cloud |-> [p \in team |-> CHOOSE r \in role[p].entry : TRUE],
         repos |-> <<>>,
         docs |-> On("docs"), docsOmit |-> On("docsOmit"), codeOmit |-> On("codeOmit"),
         release |-> On("release"), admins |-> On("admins")]

(* Persons are numbers, and which of them has a role does not matter.      *)
AllConfigs ==
    {ConfigOf([p \in Person |-> Roles[n[p]]]) :
        n \in {n \in [Person -> DOMAIN Roles] : \A p, q \in Person : p < q => n[p] <= n[q]}}

PullRequestOf(repo, author, base, head) ==
    [repo |-> repo, author |-> author, base |-> base, head |-> head]

AllEnvs ==
    {PullRequestOf("teleport", 1, "master", head) : head \in {"fix", "release/"}}
    \cup {PullRequestOf("teleport", outsider, "master", "fix")}
    \cup {PullRequestOf("cloud", robot, base, "fix") : base \in {"master", "prod"}}

AllFileSets == {{}, {code}, {page}, {code, page}, {huge}, {version, page}}

=============================================================================
