------------------------- MODULE PullRequestComments -------------------------
(***************************************************************************)
(* pr-comment (sourcebastion/pr_commenter.py): it fetches the diff of a    *)
(* request, walks it line by line for the lines the request adds, and      *)
(* posts one comment per file with the findings on such lines. The head of *)
(* the request may move meanwhile, and an answer may be lost. Of a line of *)
(* the diff only its kind is known: added or removed text that begins with *)
(* "++" or "--" looks like the header of a file and is not taken for what  *)
(* it is.                                                                  *)
(***************************************************************************)
EXTENDS Integers, Sequences, FiniteSets

CONSTANTS
    Reviews,   \* [diff, findings]: lines [kind, path, start], findings [path, line, severity]
    MaxPushes  \* bound of the model: pushes to the request while the command runs

DiffLine ==
    [kind : {"file", "header", "hunk", "added", "removed", "context", "added++", "removed--", "no-newline"},
     path : STRING, start : Nat]

Finding == [path : STRING, line : Int, severity : STRING]

\* What a finding, or a line of the diff, without a file has for one.
NoPath == "none"

\* Line i is part of the hunk that line h begins.
Within(diff, i, h) ==
    h < i /\ diff[h].kind = "hunk" /\ \A j \in h + 1..i : diff[j].kind \notin {"hunk", "file"}

\* In a diff a hunk belongs to a file, text to a hunk, and a header, which follows the line
\* that begins a file, to no hunk.
IsDiff(diff) ==
    /\ diff \in Seq(DiffLine)
    /\ \A i \in DOMAIN diff :
         CASE diff[i].kind = "file" -> diff[i].path # NoPath
           [] diff[i].kind = "hunk" -> \E f \in 1..i : diff[f].kind = "file"
           [] diff[i].kind = "header" -> ~\E h \in DOMAIN diff : Within(diff, i, h)
           [] OTHER -> \E h \in DOMAIN diff : Within(diff, i, h)

ASSUME CommentsAssumption ==
    /\ MaxPushes \in Nat
    /\ \A r \in Reviews : IsDiff(r.diff) /\ r.findings \in Seq(Finding)

\* A finding without a line is at line 0; one whose line is null ends the command.
Null == -1

VARIABLES
    review,     \* the diff of the request, and the findings of the file
    commenting, \* "fetch", "walk", "post", "done", "failed"
    lineAt,     \* the line of the diff the walk is at
    diffFile,   \* the file it belongs to, NoPath before the first
    newLine,    \* the number of the next line of the new file
    changed,    \* the lines the request adds: <<path, number>>
    uncommented,\* the files with findings still to be looked at
    comments,   \* the comments the request has: [path, line, shown, head]
    reported,   \* [posted, skipped, files]: what the command reports
    head        \* the pushes to the request so far

reviewVars == <<review, commenting, lineAt, diffFile, newLine, changed, uncommented, comments, reported, head>>

CommentsInit(r) ==
    /\ review = r /\ commenting = "fetch"
    /\ lineAt = 1 /\ diffFile = NoPath /\ newLine = 0 /\ changed = {}
    /\ uncommented = {r.findings[i].path : i \in DOMAIN r.findings} \ {NoPath}
    /\ comments = {} /\ reported = [posted |-> 0, skipped |-> 0, files |-> {}]
    /\ head = 0

\* Others push to the request.
Push ==
    /\ commenting \in {"walk", "post"} /\ head < MaxPushes
    /\ head' = head + 1
    /\ UNCHANGED <<review, commenting, lineAt, diffFile, newLine, changed, uncommented, comments, reported>>

\* A diff that cannot be had is an empty one.
FetchDiff ==
    /\ commenting = "fetch"
    /\ commenting' \in {"walk", "post"}
    /\ UNCHANGED <<review, lineAt, diffFile, newLine, changed, uncommented, comments, reported, head>>

\* Slip: removed lines count as lines of the new file.
CountsRemoved(kind) == kind # "no-newline" /\ kind \notin {"file", "hunk"}

\* The walk counts what it takes for a line of the new file: the lines of a header too,
\* which the next hunk corrects, and removed text in disguise, which nothing does.
Counts(kind) == kind \in {"added", "context", "header", "removed--", "added++"}

WalkLine ==
    /\ commenting = "walk" /\ lineAt <= Len(review.diff)
    /\ LET l == review.diff[lineAt]
       IN /\ diffFile' = IF l.kind = "file" THEN l.path ELSE diffFile
          /\ newLine' = IF l.kind = "hunk" /\ diffFile # NoPath THEN l.start
                        ELSE IF Counts(l.kind) /\ diffFile # NoPath THEN newLine + 1 ELSE newLine
          /\ changed' = changed \cup IF l.kind = "added" /\ diffFile # NoPath THEN {<<diffFile, newLine>>} ELSE {}
    /\ lineAt' = lineAt + 1
    /\ UNCHANGED <<review, commenting, uncommented, comments, reported, head>>

EndWalk ==
    /\ commenting = "walk" /\ lineAt > Len(review.diff)
    /\ commenting' = "post"
    /\ UNCHANGED <<review, lineAt, diffFile, newLine, changed, uncommented, comments, reported, head>>

FindingsIn(path) == {i \in DOMAIN review.findings : review.findings[i].path = path}

\* The findings of a file that lie on lines the request adds.
Relevant(path) == {i \in FindingsIn(path) : <<path, review.findings[i].line>> \in changed}

Touched(path) == \E c \in changed : c[1] = path

\* The numbers of a file's findings are read only if the request touches the file.
LineRaises(path) == Touched(path) /\ \E i \in FindingsIn(path) : review.findings[i].line = Null

\* The files are taken as they first come up among the findings.
Upcoming(path) ==
    /\ commenting = "post" /\ path \in uncommented
    /\ \E i \in FindingsIn(path) : \A j \in 1..i - 1 : review.findings[j].path \notin uncommented

Posting(path) == Upcoming(path) /\ ~LineRaises(path)

Counted(posts, skips, files) ==
    reported' = [posted |-> reported.posted + posts, skipped |-> reported.skipped + skips,
                files |-> reported.files \cup files]

SkipFile(path) ==
    /\ Posting(path) /\ Relevant(path) = {}
    /\ Counted(0, Cardinality(FindingsIn(path)), {})
    /\ uncommented' = uncommented \ {path}
    /\ UNCHANGED <<review, commenting, lineAt, diffFile, newLine, changed, comments, head>>

\* The body lists four severities; a finding of another one is counted and not shown.
Comment(path, first) ==
    [path |-> path, head |-> head, line |-> review.findings[first].line,
     shown |-> {i \in Relevant(path) : review.findings[i].severity # "info"}]

\* A comment stands at the first of its findings. It is posted and answered; posted and
\* the answer lost; or not posted.
PostComment(path) ==
    /\ Posting(path)
    /\ \E first \in Relevant(path) :
         LET relevant == Cardinality(Relevant(path))
             others == Cardinality(FindingsIn(path)) - relevant
         IN /\ \A i \in Relevant(path) : review.findings[first].line <= review.findings[i].line
            /\ \/ /\ comments' = comments \cup {Comment(path, first)}
                  /\ Counted(relevant, others, {path})
               \/ /\ comments' \in {comments, comments \cup {Comment(path, first)}}
                  /\ Counted(0, relevant + others, {})
    /\ uncommented' = uncommented \ {path}
    /\ UNCHANGED <<review, commenting, lineAt, diffFile, newLine, changed, head>>

\* The command fails between two files; what is posted stays.
LineFails(path) ==
    /\ Upcoming(path) /\ LineRaises(path)
    /\ commenting' = "failed"
    /\ UNCHANGED <<review, lineAt, diffFile, newLine, changed, uncommented, comments, reported, head>>

EndComments ==
    /\ commenting = "post" /\ uncommented = {}
    /\ commenting' = "done"
    /\ UNCHANGED <<review, lineAt, diffFile, newLine, changed, uncommented, comments, reported, head>>

CommentsNext ==
    \/ Push \/ FetchDiff \/ WalkLine \/ EndWalk
    \/ \E path \in uncommented : SkipFile(path) \/ PostComment(path) \/ LineFails(path)
    \/ EndComments

CommentsSpec == (\E r \in Reviews : CommentsInit(r)) /\ [][CommentsNext]_reviewVars

-----------------------------------------------------------------------------
(* Properties.                                                             *)

\* The lines of the new file a diff adds, as its format defines them: a hunk says where it
\* starts, and every line in it that is not removed is one line of the new file.
FileAt(h) == review.diff[CHOOSE f \in 1..h : /\ review.diff[f].kind = "file"
                                             /\ \A j \in f + 1..h : review.diff[j].kind # "file"].path

NewLines(h, i) == {j \in h + 1..i : review.diff[j].kind \in {"added", "added++", "context"}}

Added ==
    {<<FileAt(p[2]), review.diff[p[2]].start + Cardinality(NewLines(p[2], p[1] - 1))>> :
       p \in {q \in (DOMAIN review.diff) \X (DOMAIN review.diff) :
                 Within(review.diff, q[1], q[2]) /\ review.diff[q[1]].kind \in {"added", "added++"}}}

\* Every comment stands on a line that the diff adds, and shows only findings on such lines,
\* unless the diff removes text that looks like a header; a comment is reported only if it is
\* there, and every finding of a file is counted once.
CommentsOnTheChange ==
    /\ (\A i \in DOMAIN review.diff : review.diff[i].kind # "removed--") =>
         \A c \in comments : /\ <<c.path, c.line>> \in Added
                             /\ \A i \in c.shown : <<c.path, review.findings[i].line>> \in Added
    /\ reported.files \subseteq {c.path : c \in comments}
    /\ commenting = "done" =>
         reported.posted + reported.skipped
           = Cardinality({i \in DOMAIN review.findings : review.findings[i].path # NoPath})
=============================================================================
