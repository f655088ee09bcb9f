------------------------------ MODULE MCComments ------------------------------
(* Requests for the model checker: every hunk of three lines, alone and before *)
(* a second hunk and a second file.                                            *)
EXTENDS PullRequestComments

DiffKinds == {"added", "removed", "context", "removed--", "added++"}

FileLines(path) ==
    <<[kind |-> "file", path |-> path, start |-> 0], [kind |-> "header", path |-> NoPath, start |-> 0]>>

Hunk(start) == <<[kind |-> "hunk", path |-> NoPath, start |-> start]>>

TextLine(kind) == <<[kind |-> kind, path |-> NoPath, start |-> 0]>>

MCReviews ==
    {[diff |-> FileLines("a") \o Hunk(2) \o TextLine(k) \o TextLine(l) \o TextLine(m) \o TextLine("no-newline") \o rest,
      findings |-> fs] :
       k \in DiffKinds, l \in DiffKinds, m \in DiffKinds,
       rest \in {<<>>, Hunk(6) \o TextLine("removed") \o TextLine("added") \o FileLines("b") \o Hunk(1) \o TextLine("added")},
       fs \in {<<[path |-> "a", line |-> 3, severity |-> "high"], [path |-> "a", line |-> 2, severity |-> "info"],
                 [path |-> "b", line |-> 1, severity |-> "high"]>>,
               <<[path |-> "b", line |-> Null, severity |-> "high"], [path |-> "a", line |-> 4, severity |-> "high"],
                 [path |-> "a", line |-> 6, severity |-> "high"], [path |-> NoPath, line |-> 1, severity |-> "high"]>>}}
=============================================================================
