-------------------------------- MODULE Reading -------------------------------
(***************************************************************************)
(* Reading a list of a provider page by page: the endpoint scan and its    *)
(* cursors, the lists of Kubernetes and GitHub, the inventory of an        *)
(* organization, metric series and log windows.  What is read becomes      *)
(* evidence, and an operation says how much of it was read.                *)
(*                                                                         *)
(* An answer is a record: fault ("ok" or an error), form ("rows", "none"   *)
(* or "wrong"), rows, next (the cursor: "", a text, or Odd if it is no     *)
(* text), link ("own" or "foreign", where it leads) and cut (the answer    *)
(* says itself that it is not whole).  A row is "wanted", "detail" (wanted,*)
(* and needs a read of its own), "other" (not selected), "bad" (cannot be  *)
(* read), "late" (outside the window) or "again" (seen before).            *)
(***************************************************************************)
EXTENDS Naturals, Sequences, FiniteSets, SequencesExt

CONSTANT Limits     \* pages, assets, series, queue, size and window (GitHub)

ConstantsAssumption ==
    /\ \A k \in {"pages", "assets", "series", "queue", "size", "window"} : Limits[k] \in Nat
    /\ Limits.pages > 0

Odd == "#"

\* What is known while a list is read: the requests made, the last cursor, the records
\* counted, the observations kept and the reads queued.
Start == [outcome |-> "ok", pages |-> 0, tokens |-> <<>>, count |-> 0, kept |-> 0,
          queued |-> 0, over |-> FALSE]

Fail(s, error) == [s EXCEPT !.outcome = error, !.over = TRUE]
End(s) == [s EXCEPT !.over = TRUE]
Keep(s) == [s EXCEPT !.count = @ + 1, !.kept = @ + 1]

-----------------------------------------------------------------------------
(* Rows: what becomes of one, in each list, and when it ends the reading. *)

\* The endpoint scan.  A row that has more metadata than is retained is kept, and ends the
\* reading.
AssetRow(s, r) ==
    IF s.kept >= Limits.assets \/ (r = "detail" /\ s.queued >= Limits.queue)
    THEN Fail(s, "limit")
    ELSE CASE r = "detail" -> [s EXCEPT !.kept = @ + 1, !.queued = @ + 1]
           [] r = "bad" -> Fail([s EXCEPT !.kept = @ + 1], "limit")
           [] r = "other" -> s
           [] OTHER -> [s EXCEPT !.kept = @ + 1]

\* The kinds of Kubernetes.
KubeRow(s, r) ==
    IF r = "other" THEN s
    ELSE IF s.kept >= Limits.assets THEN Fail(s, "limit") ELSE Keep(s)

\* An organization.  Rows that name no subscription or account are left out; GCP's are decoded
\* as a whole.
RootRow(s, r) ==
    IF r = "bad" THEN s ELSE IF s.kept >= Limits.assets THEN Fail(s, "limit") ELSE Keep(s)

\* GitHub: workflow runs and commits.
GithubRow(s, r) ==
    IF s.kept >= Limits.assets THEN Fail(s, "limit") ELSE IF r = "bad" THEN s ELSE Keep(s)

CommitRow(s, r) ==
    CASE r = "bad" -> [s EXCEPT !.outcome = "malformed"]
      [] r = "again" -> s
      [] OTHER -> IF s.kept >= Limits.assets THEN Fail(s, "limit") ELSE Keep(s)

\* A series beyond the limit ends the page, a point that cannot be read does not.
SeriesRow(s, r) ==
    CASE r = "other" -> s
      [] r # "other" /\ s.kept >= Limits.series -> Fail(s, "limit")
      [] OTHER -> IF r = "bad" THEN [s EXCEPT !.outcome = "missing"] ELSE Keep(s)

\* list_metrics: a metric without a name cannot be asked for; what is not selected takes no
\* place, but when there is none left ends the reading.
MetricRow(s, r) ==
    IF s.kept >= Limits.series THEN Fail(s, "limit")
    ELSE IF r \in {"bad", "other"} THEN s ELSE Keep(s)

\* Window::record, with room for so many lines.
Record(s, r, room) ==
    IF s.count >= room THEN Fail(s, "limit")
    ELSE IF r = "late" THEN Fail([s EXCEPT !.count = @ + 1], "malformed")
    ELSE IF r = "again" THEN [s EXCEPT !.count = @ + 1] ELSE Keep(s)

\* A line that cannot be read spoils the window, and the rest of the page is read.
LineRow(s, r, room) ==
    CASE r = "bad" -> [s EXCEPT !.outcome = "malformed"]
      [] r = "other" -> s
      [] OTHER -> Record(s, r, room)

\* The groups of a region, of which each is read by windows of its own.
GroupRow(s, r) ==
    CASE r = "bad" -> [s EXCEPT !.outcome = "malformed"]
      [] r = "other" -> s
      [] OTHER -> IF s.kept >= Limits.series THEN Fail(s, "limit") ELSE Keep(s)

\* Log Analytics answers with a table.
TableRow(s, r, room) == IF r = "bad" THEN Fail(s, "malformed") ELSE Record(s, r, room)

Readers == {"endpoint", "kube", "roots", "projects", "github", "commits", "series", "metrics",
            "groups", "lines", "table"}

Row(reader, s, r, room) ==
    CASE reader = "endpoint" -> AssetRow(s, r)
      [] reader = "kube" -> KubeRow(s, r)
      [] reader \in {"roots", "projects"} -> RootRow(s, r)
      [] reader = "github" -> GithubRow(s, r)
      [] reader = "commits" -> CommitRow(s, r)
      [] reader = "series" -> SeriesRow(s, r)
      [] reader = "metrics" -> MetricRow(s, r)
      [] reader = "groups" -> GroupRow(s, r)
      [] reader = "lines" -> LineRow(s, r, room)
      [] reader = "table" -> TableRow(s, r, room)

\* The rows of a page, until one ends the reading; then an error of a row does.
Taken(reader, s, r, room) == IF s.over THEN s ELSE Row(reader, s, r, room)
Spoiled(s) == IF s.outcome # "ok" THEN End(s) ELSE s
Rows(reader, s, rows, room) ==
    Spoiled(FoldLeft(LAMBDA q, r : Taken(reader, q, r, room), s, rows))

-----------------------------------------------------------------------------
(* Pages: what becomes of an answer, and whether there is another request. *)

\* A reader that keeps the cursor, and refuses to go on for ever.
Turn(s, p, repeated, full) ==
    IF s.over \/ p.next = "" THEN End(s)
    ELSE IF repeated \/ s.pages = Limits.pages \/ full THEN Fail(s, "limit")
    ELSE [s EXCEPT !.tokens = Append(@, p.next)]

Repeated(s, p) == s.tokens # <<>> /\ Last(s.tokens) = p.next
Seen(s, p) == p.next \in ToSet(s.tokens)
Onward(s, p) == Turn(s, p, Repeated(s, p), FALSE)

\* The endpoint scan: pagination::advance and endpoint_scan::fetch.
\* Mutant: a page that says it is cut short, and names no cursor, is the last.
AdvanceUncut(s, p) ==
    IF p.next = Odd THEN Fail(s, "malformed")
    ELSE IF p.next = "" THEN End(s)
    ELSE IF Repeated(s, p) \/ s.pages >= Limits.pages THEN Fail(s, "limit")
    ELSE IF p.link = "foreign" THEN Fail(s, "forbidden")
    ELSE [s EXCEPT !.tokens = Append(@, p.next)]

Advance(s, p) ==
    IF p.next = Odd THEN Fail(s, "malformed")
    ELSE IF p.next = "" THEN IF p.cut THEN Fail(s, "malformed") ELSE End(s)
    ELSE IF Repeated(s, p) \/ s.pages >= Limits.pages THEN Fail(s, "limit")
    ELSE IF p.link = "foreign" THEN Fail(s, "forbidden")
    ELSE [s EXCEPT !.tokens = Append(@, p.next)]

\* The rows of a page are counted when all of them were taken; an empty page resets the
\* count.
Counted(s, p) ==
    IF s.over THEN s
    ELSE Advance([s EXCEPT !.count = IF p.rows = <<>> THEN 0 ELSE @ + Len(p.rows)], p)
EndpointPage(s, p) ==
    IF p.form = "wrong" THEN Fail(s, "malformed")
    ELSE Counted(Rows("endpoint", s, p.rows, 0), p)

\* Lists of Kubernetes, of an organization and of GitHub.
KubePage(s, p) ==
    IF p.form # "rows" THEN Fail(s, "malformed")
    ELSE Onward(Rows("kube", s, p.rows, 0), p)

Owned(s, p) == IF ~s.over /\ p.link = "foreign" THEN Fail(s, "forbidden") ELSE s
OnwardUnseen(s, p) == Turn(s, p, Seen(s, p), FALSE)
RootPage(reader, s, p) ==
    IF p.form # "rows" \/ (reader = "projects" /\ "bad" \in ToSet(p.rows))
    THEN Fail(s, "malformed")
    ELSE Owned(OnwardUnseen(Rows(reader, s, p.rows, 0), p), p)

\* GitHub has numbered pages: one that is not full is the last, and of workflow runs it
\* shows the first thousand only.
Numbered(s, p) ==
    IF s.over \/ Len(p.rows) < Limits.size THEN End(s)
    ELSE IF s.pages = Limits.pages THEN Fail(s, "limit") ELSE s
Shown(s, p) ==
    IF ~s.over /\ p.cut /\ s.pages * Limits.size >= Limits.window THEN Fail(s, "limit")
    ELSE Numbered(s, p)
GithubPage(s, p) ==
    IF p.form # "rows" THEN Fail(s, "malformed")
    ELSE Shown(Rows("github", s, p.rows, 0), p)

CommitPage(s, p) ==
    IF p.form # "rows" THEN Fail(s, "malformed")
    ELSE Numbered(Rows("commits", s, p.rows, 0), p)

\* Series of metrics.  Errors of the execution decide after the rows.
Executed(s, p) == IF p.cut THEN Fail(s, "unavailable") ELSE s
SeriesPage(s, p) ==
    IF p.form = "wrong" THEN Fail(s, "malformed")
    ELSE Onward(Executed(Rows("series", s, p.rows, 0), p), p)

MetricPage(s, p) == Onward(Rows("metrics", s, p.rows, 0), p)

\* Log windows, and the groups of a region.
Filled(s, p, room) == Turn(s, p, Repeated(s, p), s.count >= room)
LinePage(s, p, room) ==
    IF p.form = "wrong" THEN Fail(s, "malformed")
    ELSE Filled(Rows("lines", s, p.rows, room), p, room)

GroupPage(s, p) ==
    IF p.form # "rows" THEN Fail(s, "malformed")
    ELSE Onward(Rows("groups", s, p.rows, 0), p)

\* Log Analytics answers one query for one line more than there is room.
Tabled(s, p, room) ==
    IF s.over THEN s
    ELSE IF Len(p.rows) > room THEN Fail(s, "limit")
    ELSE IF p.cut THEN Fail(s, "unavailable") ELSE End(s)
TableRows(s, p, room) ==
    LET first == SubSeq(p.rows, 1, IF Len(p.rows) < room THEN Len(p.rows) ELSE room)
    IN  IF p.form # "rows" THEN Fail(s, "malformed")
        ELSE Tabled(Rows("table", s, first, room), p, room)

Page(reader, s, p, room) ==
    CASE reader = "endpoint" -> EndpointPage(s, p)
      [] reader = "kube" -> KubePage(s, p)
      [] reader \in {"roots", "projects"} -> RootPage(reader, s, p)
      [] reader = "github" -> GithubPage(s, p)
      [] reader = "commits" -> CommitPage(s, p)
      [] reader = "series" -> SeriesPage(s, p)
      [] reader = "metrics" -> MetricPage(s, p)
      [] reader = "groups" -> GroupPage(s, p)
      [] reader = "lines" -> LinePage(s, p, room)
      [] reader = "table" -> TableRows(s, p, room)

-----------------------------------------------------------------------------
\* One request for each page, max_pages at most, until nothing more is to be read.
Request(reader, s, p, room) ==
    IF s.over THEN s
    ELSE IF p.fault # "ok" THEN Fail([s EXCEPT !.pages = @ + 1], p.fault)
    ELSE Page(reader, [s EXCEPT !.pages = @ + 1], p, room)

Read(reader, answers, room) ==
    FoldLeft(LAMBDA s, p : Request(reader, s, p, room), Start, SubSeq(answers, 1, Limits.pages))

\* A list of series that has none, and no error, is missing what it was asked for.
Series(s) == IF s.outcome = "ok" /\ s.kept = 0 THEN Fail(s, "missing") ELSE s

\* Window::finish: without the table of fingerprints a continuous window proves nothing; a
\* window without room asks for nothing.
Window(s, alone) == IF alone /\ s.outcome = "ok" THEN Fail(s, "limit") ELSE s

Finished(reader, s, alone) ==
    CASE reader = "series" -> Series(s)
      [] reader \in {"lines", "table"} -> Window(s, alone)
      [] OTHER -> s

Result(reader, answers, room, alone) ==
    Finished(reader,
             IF reader \in {"lines", "table"} /\ room = 0 THEN Fail(Start, "limit")
             ELSE Read(reader, answers, room),
             alone)

\* The rows that are left out knowingly, of each reader.
Skipped(reader) ==
    CASE reader \in {"roots", "github", "metrics"} -> {"bad"}
      [] OTHER -> {}

Selected(p) == Cardinality({i \in DOMAIN p.rows : p.rows[i] \in {"wanted", "detail"}})
Total(read) == FoldLeft(LAMBDA n, p : n + Selected(p), 0, read)

\* "Truncated results remain explicit coverage outcomes" (monitor-operations.md:94): an
\* operation that is complete has read a list to a page that names no other, every page of
\* it was an answer in form, and every selected row is kept.
Whole(reader, s, read) ==
    /\ read # <<>>
    /\ IF reader \in {"github", "commits"} THEN Len(Last(read).rows) < Limits.size
       ELSE reader # "table" => Last(read).next = ""
    /\ reader \in {"endpoint", "series", "table"} => ~Last(read).cut
    /\ \A i \in DOMAIN read :
        /\ read[i].fault = "ok" /\ read[i].form # "wrong"
        /\ "bad" \in ToSet(read[i].rows) => "bad" \in Skipped(reader)
    /\ s.kept = Total(read)

CompleteMeansRead(reader, answers, room, alone) ==
    \E s \in {Result(reader, answers, room, alone)} :
        s.outcome = "ok" => Whole(reader, s, SubSeq(answers, 1, s.pages))
===============================================================================
