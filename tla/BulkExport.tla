----------------------------- MODULE BulkExport -----------------------------
(***************************************************************************)
(* bulk_export (src/handlers/bulkExport.ts): the pages of a tool's result  *)
(* written item by item to a temporary file, which is then published under *)
(* the name the caller gave.  Exports to the same name run beside each     *)
(* other and beside other programs.  Outside src: the tool and the file    *)
(* system, in which removing a file is taken to succeed.                   *)
(***************************************************************************)
EXTENDS Naturals, Sequences

CONSTANTS
  Export,       \* the exports, all to the same output_file
  Pages,        \* pages a tool may give: a bound
  ItemsPerPage,
  MaxPages,     \* the largest max_pages
  MaxRetries    \* BULK_EXPORT_MAX_RETRIES

VARIABLES
  exp,      \* the state of each: see TypeOK
  aborted,  \* exports whose signal is aborted, by their caller or the timeout
  broken,   \* exports whose stream failed: streamError
  temp,     \* what each temporary file holds, or NoFile
  out,      \* what is at output_file
  put,      \* what each export published
  answer,   \* what each export answered
  given     \* history: the pages that held items, and whether there are more

vars == <<exp, aborted, broken, temp, out, put, answer, given>>

(* Contents no export has: no file, and the file of another program.       *)
NoFile  == << <<0, 0>> >>
Foreign == << <<0, 1>> >>

(* An item is named by its page and its place there.                       *)
Item == (1..Pages) \X (1..ItemsPerPage)
Precedes(a, b) == a[1] < b[1] \/ (a[1] = b[1] /\ a[2] < b[2])
InOrder(s) == \A i, j \in DOMAIN s : i < j => Precedes(s[i], s[j])
ItemsOf(page, first, last) == [i \in 1..(last - first + 1) |-> <<page, first + i - 1>>]

Running == {e \in Export : exp[e].st \notin {"idle", "done"}}

Ending(r, err) == [r EXCEPT !.st = "ending", !.err = @ \/ err]

(* The head of the loop over the pages.                                    *)
NextPage(e, r) ==
  IF e \in aborted THEN Ending(r, TRUE)
  ELSE IF e \in broken THEN Ending(r, FALSE)
  ELSE [r EXCEPT !.st = "calling", !.attempt = 0]

Goto(e, r) == exp' = [exp EXCEPT ![e] = r]

Blank(st) == [st |-> st, ifExists |-> "error", maxPages |-> 1, page |-> 0, attempt |-> 0,
              item |-> 0, more |-> FALSE, lines |-> 0, err |-> FALSE, natural |-> FALSE]

(* The answer is given and the temporary file removed; the stream and the  *)
(* signal mean nothing from here on.                                       *)
Done(e, status, lines) ==
  /\ Goto(e, Blank("done"))
  /\ aborted' = aborted \ {e}
  /\ broken' = broken \ {e}
  /\ answer' = [answer EXCEPT ![e] = [status |-> status, lines |-> lines]]
  /\ temp' = [temp EXCEPT ![e] = NoFile]

-----------------------------------------------------------------------------
(* handleBulkExport: input, policy, package and path are checked.          *)
Begin(e) ==
  /\ exp[e].st = "idle"
  /\ \E mode \in {"error", "overwrite"}, n \in 1..MaxPages :
       Goto(e, [exp[e] EXCEPT !.st = "checking", !.ifExists = mode, !.maxPages = n])
  /\ UNCHANGED <<aborted, broken, temp, out, put, answer, given>>

(* The first access check, before the clock of the timeout starts.         *)
CheckFirst(e) ==
  /\ exp[e].st = "checking"
  /\ IF exp[e].ifExists = "error" /\ out # NoFile
       THEN Done(e, "error", 0)
       ELSE /\ Goto(e, [exp[e] EXCEPT !.st = "rechecking"])
            /\ UNCHANGED <<aborted, broken, temp, answer>>
  /\ UNCHANGED <<out, put, given>>

(* The second, in runBulkExport; then the temporary file is opened.        *)
Open(e) ==
  /\ exp[e].st = "rechecking"
  /\ IF exp[e].ifExists = "error" /\ out # NoFile
       THEN Done(e, "failed", 0)
       ELSE /\ Goto(e, NextPage(e, exp[e]))
            /\ temp' = [temp EXCEPT ![e] = << >>]
            /\ UNCHANGED <<aborted, broken, answer>>
  /\ UNCHANGED <<out, put, given>>

(* The tool fails, or the abort wins the race with it.                     *)
PageFails(e) ==
  /\ exp[e].st = "calling"
  /\ Goto(e, IF e \notin aborted /\ exp[e].attempt < MaxRetries
               THEN [exp[e] EXCEPT !.st = "waiting"]
               ELSE Ending(exp[e], TRUE))
  /\ UNCHANGED <<aborted, broken, temp, out, put, answer, given>>

(* waitWithAbort is over.                                                  *)
Retry(e) ==
  /\ exp[e].st = "waiting"
  /\ Goto(e, IF e \in aborted THEN Ending(exp[e], TRUE)
             ELSE [exp[e] EXCEPT !.st = "calling", !.attempt = @ + 1])
  /\ UNCHANGED <<aborted, broken, temp, out, put, answer, given>>

(* The last page that may be asked for counts as the end: a mutant.        *)
PageOverAtLimit(e, r) ==
  LET p == [r EXCEPT !.page = @ + 1] IN
  IF ~p.more \/ p.page >= r.maxPages THEN [Ending(p, FALSE) EXCEPT !.natural = TRUE]
  ELSE NextPage(e, p)

(* What follows a page: the end, the limit, or the next page.              *)
PageOver(e, r) ==
  LET p == [r EXCEPT !.page = @ + 1] IN
  IF ~p.more THEN [Ending(p, FALSE) EXCEPT !.natural = TRUE]
  ELSE IF p.page >= r.maxPages THEN Ending(p, TRUE)
  ELSE NextPage(e, p)

(* An answer is a page, which names the next one or does not, and that has *)
(* items or none: an empty list, or, from the second page on, nothing at   *)
(* items_path, which passes for one.  Or it ends the export: there is no   *)
(* payload, it is too long, or the first page has nothing at items_path.   *)
PageArrives(e) ==
  /\ exp[e].st = "calling"
  /\ e \notin aborted
  /\ \/ \E more \in BOOLEAN :
          LET n == exp[e].page + 1
              r == [exp[e] EXCEPT !.item = 0, !.more = more]
              Given(pages) == given' = [given EXCEPT ![e] =
                                          [pages |-> @.pages \union pages, more |-> more]]
          IN /\ more => n < Pages
             /\ \/ Goto(e, [r EXCEPT !.st = "writing"]) /\ Given({n})
                \/ Goto(e, PageOver(e, r)) /\ Given({})
     \/ Goto(e, Ending(exp[e], TRUE)) /\ UNCHANGED given
  /\ UNCHANGED <<aborted, broken, temp, out, put, answer>>

(* Items are written until the page is over or the stream asks to wait.    *)
WriteItems(e) ==
  /\ exp[e].st = "writing"
  /\ LET r == exp[e] IN
     \/ /\ e \in broken \/ r.item = ItemsPerPage
        /\ Goto(e, PageOver(e, r))
        /\ UNCHANGED temp
     \/ /\ e \notin broken
        /\ \E k \in (r.item + 1)..ItemsPerPage, full \in BOOLEAN :
             /\ full \/ k = ItemsPerPage
             /\ temp' = [temp EXCEPT ![e] = @ \o ItemsOf(r.page + 1, r.item + 1, k)]
             /\ LET w == [r EXCEPT !.item = k, !.lines = @ + k - r.item]
                IN Goto(e, IF full THEN [w EXCEPT !.st = "draining"] ELSE PageOver(e, w))
  /\ UNCHANGED <<aborted, broken, out, put, answer, given>>

(* The wait for room does not look at the signal: a mutant.                *)
DrainedOnly(e) ==
  /\ exp[e].st = "draining"
  /\ e \notin broken
  /\ e \notin aborted
  /\ Goto(e, [exp[e] EXCEPT !.st = "writing"])
  /\ UNCHANGED <<aborted, broken, temp, out, put, answer, given>>

(* waitForDrainOrAbort: there is room again, or the export is aborted.     *)
Drained(e) ==
  /\ exp[e].st = "draining"
  /\ e \notin broken
  /\ Goto(e, [exp[e] EXCEPT !.st = "writing"])
  /\ UNCHANGED <<aborted, broken, temp, out, put, answer, given>>

(* The wait is rejected by the stream's error, which is thrown.            *)
DrainFails(e) ==
  /\ exp[e].st = "draining"
  /\ e \in broken
  /\ Done(e, "error", 0)
  /\ UNCHANGED <<out, put, given>>

StreamFails(e) ==
  /\ exp[e].st \in {"calling", "waiting", "draining", "ending"}
  /\ broken' = broken \union {e}
  /\ UNCHANGED <<exp, aborted, temp, out, put, answer, given>>

(* The caller's signal, or the timeout.                                    *)
Abort(e) ==
  /\ e \in Running
  /\ aborted' = aborted \union {e}
  /\ UNCHANGED <<exp, broken, temp, out, put, answer, given>>

Status(e) ==
  LET r == exp[e] IN
  IF ~r.err /\ e \notin broken /\ r.natural THEN "complete"
  ELSE IF r.lines > 0 THEN "partial" ELSE "failed"

(* The stream is ended, and its file published unless it holds nothing of  *)
(* use.                                                                    *)
Finish(e) ==
  /\ exp[e].st = "ending"
  /\ IF e \in broken \/ Status(e) = "failed"
       THEN Done(e, Status(e), exp[e].lines)
       ELSE /\ Goto(e, [exp[e] EXCEPT !.st = "publishing"])
            /\ UNCHANGED <<aborted, broken, temp, answer>>
  /\ UNCHANGED <<out, put, given>>

TakesPlace(e) ==
  /\ out' = temp[e]
  /\ put' = [put EXCEPT ![e] = temp[e]]

(* rename whatever is there: a mutant.                                     *)
LinkOver(e) == TakesPlace(e) /\ Done(e, Status(e), exp[e].lines)

(* if_exists "error": link fails if there is a file.                       *)
Link(e) ==
  IF out = NoFile
    THEN TakesPlace(e) /\ Done(e, Status(e), exp[e].lines)
    ELSE Done(e, "failed", 0) /\ UNCHANGED <<out, put>>

Rename(e) == TakesPlace(e) /\ Done(e, Status(e), exp[e].lines)

Publish(e) ==
  /\ exp[e].st = "publishing"
  /\ \/ exp[e].ifExists = "error" /\ Link(e)
     \/ exp[e].ifExists = "overwrite" /\ Rename(e)
     \/ Done(e, "error", 0) /\ UNCHANGED <<out, put>>
  /\ UNCHANGED given

(* Another program makes a file of that name.                              *)
Appear ==
  /\ out = NoFile
  /\ out' = Foreign
  /\ UNCHANGED <<exp, aborted, broken, temp, put, answer, given>>

-----------------------------------------------------------------------------
Init ==
  /\ exp = [e \in Export |-> Blank("idle")]
  /\ aborted = {}
  /\ broken = {}
  /\ temp = [e \in Export |-> NoFile]
  /\ out = NoFile
  /\ put = [e \in Export |-> NoFile]
  /\ answer = [e \in Export |-> [status |-> "none", lines |-> 0]]
  /\ given = [e \in Export |-> [pages |-> {}, more |-> FALSE]]

(* What the event loop, the timers and the file system bring about.        *)
Step(e) ==
  \/ CheckFirst(e) \/ Open(e) \/ Retry(e) \/ WriteItems(e) \/ DrainFails(e)
  \/ Finish(e) \/ Publish(e)
  \/ e \in aborted /\ (PageFails(e) \/ Drained(e))

Next ==
  \/ Appear
  \/ \E e \in Export :
       \/ Begin(e) \/ Step(e) \/ PageFails(e) \/ PageArrives(e) \/ Drained(e)
       \/ StreamFails(e) \/ Abort(e)

Spec == Init /\ [][Next]_vars

Fairness == \A e \in Export : WF_vars(Step(e)) /\ WF_vars(Abort(e))

FairSpec == Spec /\ Fairness

-----------------------------------------------------------------------------
TypeOK ==
  /\ exp \in [Export -> [st : {"idle", "checking", "rechecking", "calling", "waiting",
                               "writing", "draining", "ending", "publishing", "done"},
                         ifExists : {"error", "overwrite"}, maxPages : 1..MaxPages,
                         page : 0..Pages, attempt : 0..MaxRetries, item : 0..ItemsPerPage,
                         lines : 0..(Pages * ItemsPerPage), more : BOOLEAN, err : BOOLEAN,
                         natural : BOOLEAN]]
  /\ aborted \subseteq Export
  /\ broken \subseteq Export
  /\ \A e \in Export : temp[e] = NoFile \/ temp[e] \in Seq(Item)
  /\ given \in [Export -> [pages : SUBSET (1..Pages), more : BOOLEAN]]

(* A file is replaced only by an export that was told to overwrite, however *)
(* late the file came.                                                     *)
NothingIsOverwritten ==
  [][out # NoFile /\ out' # out =>
       \E e \in Export : exp[e].ifExists = "overwrite" /\ out' = temp[e]]_vars

(* An export that answers "complete" has published every item of every     *)
(* page the tool gave, once and in order, and the last of these pages named *)
(* no other; whatever is published is a beginning of that, as long as the  *)
(* answer says.  No temporary file stays.                                  *)
ReportIsTrue ==
  \A e \in Export : exp[e].st = "done" =>
    LET said    == answer[e]
        file    == put[e]
        held    == {x \in Item : x[1] \in given[e].pages}
        InIt(x) == \E j \in DOMAIN file : file[j] = x
    IN
    /\ said.status = "complete" =>
         file # NoFile /\ ~given[e].more /\ \A x \in held : InIt(x)
    /\ file # NoFile =>
         /\ said.status \in {"complete", "partial"}
         /\ said.lines = Len(file)
         /\ file \in Seq(held) /\ InOrder(file)
         /\ \A i \in DOMAIN file : \A x \in held : Precedes(x, file[i]) => InIt(x)
    /\ temp[e] = NoFile

(* Every export answers, even if the tool or the stream never does.        *)
ExportsEnd == \A e \in Export : []<>(e \notin Running)
=============================================================================
