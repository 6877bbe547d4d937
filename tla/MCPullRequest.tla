--------------------------- MODULE MCPullRequest ---------------------------
(* Instances of PullRequest for TLC: a pull request of an admin, and one   *)
(* from a fork, for whose author there are not two admins to pick from.    *)
EXTENDS PullRequest

Reviewer(owner, paths) ==
    [owner |-> owner, preferredOnly |-> FALSE, paths |-> paths, excluded |-> {}]

TheConfig ==
    [core |-> ("ann" :> Reviewer(TRUE, {}) @@ "bob" :> Reviewer(FALSE, {"lib"})
                 @@ "dan" :> Reviewer(TRUE, {})),
     cloud |-> <<>>, repos |-> <<>>,
     docs |-> {"bob"}, docsOmit |-> {}, codeOmit |-> {"cyd"}, release |-> {},
     admins |-> {"cyd", "dan"}]

PullOf(author) == [repo |-> "teleport", author |-> author, base |-> "master", head |-> "fix"]
TheEnv == "inner" :> PullOf("dan") @@ "fork" :> PullOf("eve")
OwnBranch == "inner" :> "dan/fix" @@ "fork" :> "fix"
SameBranch == "inner" :> "fix" @@ "fork" :> "fix"

DeltaOfFile == "code" :> 10 @@ "huge" :> 1500
UnderOfFile == "code" :> {"lib"} @@ "huge" :> {}

Approval(p) == [author |-> p, state |-> "APPROVED"]
FromStart ==
    {[reviews |-> <<Approval(p)>>, files |-> {"code"}] : p \in {"bob", "cyd"}}

=============================================================================
