----------------------------- MODULE DocsRedirects -----------------------------
(* The bot's check that pages of the documentation which a pull request moves   *)
(* or removes have a redirect (bot/internal/bot/docpaths.go).                   *)
(*                                                                              *)
(* The path of a file is the sequence of its segments without the extension.    *)
(* Its first one is "pages" for what is below docs/pages; that segment stays in *)
(* the paths of URLs, where it stands for the slash they begin with.            *)
EXTENDS Naturals, Sequences, SequencesExt, FiniteSets

CONSTANTS File,       \* paths of files
          EndsIn,     \* pairs of different segments of which the first ends in the second
          Edits,      \* the numbers of files that a pull request may add and remove
          Redirect    \* sources of redirects in docs/config.json

VARIABLES before, after,   \* the files before and after the pull request
          changes,         \* ListFiles: how git accounts for the difference
          redirects,       \* the sources in the configuration of the pull request
          reports          \* what the check has reported as missing: nothing before it ran

docsVars == <<before, after, changes, redirects, reports>>

(* What GitHub lists of a pull request: git pairs some of the files that went   *)
(* with some that came, and calls each pair a renaming.                         *)
Listing(old, new) ==
  LET gone == old \ new
      come == new \ old
      Listed(s, n, p) == [status |-> s, name |-> n, previous |-> p]
  IN  { {Listed("renamed", pair[2], pair[1]) : pair \in R}
        \cup {Listed("removed", f, f) : f \in gone \ {pair[1] : pair \in R}}
        \cup {Listed("added", f, f) : f \in come \ {pair[2] : pair \in R}}
        \cup {Listed("modified", f, f) : f \in old \cap new}
      : R \in {R \in SUBSET (gone \X come) :
                 \A x, y \in R : x[1] = y[1] \/ x[2] = y[2] => x = y} }

DocsInit ==
  /\ before \in SUBSET File /\ after \in SUBSET File
  /\ Cardinality(before \ after) \in Edits /\ Cardinality(after \ before) \in Edits
  /\ changes \in Listing(before, after)
  /\ redirects \in SUBSET Redirect
  /\ reports = {}

HasDocsPrefix(f) == Head(f) = "pages"
HasIncludeSegment(f) == \E n \in 2..(Len(f) - 1) : f[n] = "includes"

HasSuffix(s, t) == s = t \/ <<s, t>> \in EndsIn

(* The file of a page with the name of its directory is served as the directory.*)
ToURLPath(f) ==
  IF Len(f) > 2 /\ HasSuffix(f[Len(f) - 1], Last(f)) THEN Front(f) ELSE f

(* A mistake: files that a pull request removes are taken for files it leaves.  *)
FilenamesOfAll(files) == {ToURLPath(c.name) : c \in files}

Filenames(files) == {ToURLPath(c.name) : c \in {x \in files : x.status \in {"added", "renamed"}}}

MissingRedirectSources(conf, files) ==
  LET checked == {c \in files : /\ HasDocsPrefix(c.name) /\ ~HasIncludeSegment(c.name)
                                /\ c.status \in {"renamed", "removed"}}
      paths == {ToURLPath(c.previous) : c \in checked}
  IN  (paths \ Filenames(files)) \ conf

(* CheckDocsPathsForMissingRedirects fails when something is missing.           *)
CheckDocsPaths ==
  /\ reports = {}
  /\ reports' = {MissingRedirectSources(redirects, changes)}
  /\ UNCHANGED <<before, after, changes, redirects>>

DocsNext == CheckDocsPaths

DocsSpec == DocsInit /\ [][DocsNext]_docsVars

-------------------------------------------------------------------------------
(* Docusaurus serves a page with exactly the name of its directory as the index *)
(* of that directory.                                                           *)
ServedAt(f) == IF Len(f) > 2 /\ f[Len(f) - 1] = Last(f) THEN Front(f) ELSE f

IsPage(f) == HasDocsPrefix(f) /\ ~HasIncludeSegment(f)

(* A page that git says was renamed to something that is no page.               *)
LeftTheDocs(f) ==
  \E c \in changes : c.status = "renamed" /\ c.previous = f /\ ~IsPage(c.name)

(* When the check reports nothing, a page that is gone either has a redirect or *)
(* another page is served in its place, however git pairs what went with what   *)
(* came.  Out of it are pages that git takes to have left docs/pages or to have *)
(* become partials, which the check does not look at, and names that end in one *)
(* another, which it takes for index pages (docpaths.go).                       *)
RedirectsSuffice ==
  {} \in reports =>
    \A f \in before \ after :
      IsPage(f) /\ ~LeftTheDocs(f) /\ (\A g \in before \cup after : ToURLPath(g) = ServedAt(g))
        => ServedAt(f) \in redirects \cup {ServedAt(g) : g \in after}

===============================================================================
