# reviewHive in TLA+

reviewHive reviews GitHub pull requests. GitHub delivers webhooks to a FastAPI
service; an accepted delivery becomes a row of a table and a background task that
fetches the diff, runs three reviewing agents, a critic and a merge pass over it,
stores the result and posts it. A comment that mentions the bot becomes a row and
a task in the same way.

This directory holds a TLA+ model of that program, TLC configurations that check
it on small instances, and proofs for the TLA+ proof system. Paths below are
relative to the package (`src/reviewhive/`) unless they start with another
directory of the repository.

## 1. The system

| component | state | operations | model |
|---|---|---|---|
| webhook endpoint, `api/webhook.py` | none of its own; one coroutine per request | `github_webhook`, `_handle_comment` | `WebhookService` |
| review job, `jobs.py` | the locals of a background task | `review_pull_request`, `_fetch`, `_post`, `_create_review`, `_say` | `ReviewJob` |
| mention dispatch, `mentions/` | the locals of a background task | `respond_to_mention`, `handle_mention`, `classify`, `reconsider`, `answer_question`, `_post_reply` | `MentionDispatch` |
| review store, `persistence.py`, `db/` | `reviews` with its findings and agent calls, two unique constraints | the methods of `SqlReviewStore` | `ReviewStore` |
| GitHub client, `github/client.py`, `github/positions.py` | none; the pull request is GitHub's | fetch, create review, comment, `build_review`, `degrade` | in `ReviewJob`, the exceptions and what a post carries |
| review graph, `graph/nodes.py`, `graph/build.py` | the state the nodes share; lists concatenated by reducers | prepare, three agents at once, finalize | `ReviewGraph` |
| deduplication and ranking, `graph/dedupe.py` | none | `collapse`, `_merge`, `rank_and_cut` | `Dedupe` |
| critic pass, `graph/critic.py` | the calls of one pass | `judgeable`, the code shown, one call per file at once, `_apply` | `Critic`, `Excerpt` |
| merge pass, `graph/llm_merge.py` | none | `candidate_pairs`, `_apply` (union-find) | `LlmMerge` |
| diff files and anchors, `diff/parser.py`, `anchors.py` | none | `parse_diff`, `truncated_to`, `nearest_anchor`, `anchor_findings`; `_to_hunk`, `window` | `Anchors`, `Excerpt` |
| prompt budget, `diff/budget.py` | none | `build_budget`, `_fit_to_budget` | `Budget` |
| rendering and pricing, `render.py`, `pricing.py` | none | `render_summary`, `render_comment`, `cost_of`, `total_cost` | `Rendering` |
| command line review, `scripts/review_local.py`, `db/session.py` | the locals of one run; writes the same table | `main`, `run`, `open_store`, `print_console` | `LocalReview` |
| configuration, signature, logging, application factory | – | – | the settings and the outcomes the service depends on, in `WebhookService` |
| probe scripts, migrations, deployment | – | – | not modelled |

The service and the pipeline are modelled apart. The service sees a run of the graph
as one step that returns a result or raises (section 2); the pipeline is one such run
in detail (section 3). The command line review (section 4) has a row of its own and shares
nothing with a running service but the table.

How they interact. A delivery is an HTTP request; the handler reads and writes the
store, answers, and leaves a background task on the same event loop. A task calls
GitHub, the model and the store, always by `await`, and shares with other tasks only
the table and the pull request. A mention that asks for a review calls the review
job with its own row. Nothing else is shared: no lock, no queue, no in-process set
of running reviews. The process may die at any await and nothing resumes a task.

What is hard here, and what makes each part correct:

* *Endpoint and store.* GitHub repeats a delivery while the first copy is at work,
  and distinct events concern one commit. The lookups and the insert are separate
  transactions. Correct means: a delivery is recorded once, run once, posted once.
* *Job.* Save, post and record the posting are three calls, each of which may fail
  or may take effect and lose its answer. Correct means: no review is on the pull
  request that the table calls failed or does not know; what the table says of a
  posting is so; a refusal is retried at most once and never after a success; every
  row ends settled when the failure is one the code handles.
* *Mentions.* A mention shares its row with the review it starts. Correct means:
  the row is settled once, by one of the two, and its calls are stored once.
* *Pipeline.* Three agents and one critic call per file finish in any order; each
  may fail alone; findings are merged, dropped, retracted and withheld by five
  stages. Correct means: what an agent reported is posted, or counted as withheld or
  retracted, or merged into a finding that names the agent, or was about a file not
  in the diff; an answer of the model changes only what it was asked about, and
  never raises a severity; an inline comment sits on a line of the diff; the critic
  is shown the code its findings are about.
* *Command line review.* The result is paid for before it is saved, the save may fail
  before or after it took effect, and the run may be interrupted at any await, in its
  handlers and finalizers too. Correct means: what is printed as saved is saved as it
  was printed, a failing database never costs the review, the row tells the truth.
* *Rendering.* The reasoning of a finding is carried by its comment or by the summary,
  as two files decide by the same test. Correct means: every finding is told in full
  once, and the bill is the sum of what has a price.

`PROJECT.json` lists the hazards one by one with their lines and the properties that
watch them.

## 2. The service

### Modules

    ReviewStore  <-  ReviewJob  <-  MentionDispatch  <-  WebhookService
                                                             |
    ReviewLifecycle  <----- INSTANCE -----------  ServiceProperties
                                                             |
                           MCService  ------>  ServiceInvariant  <-  ServiceSafety  <-  ServiceRefinement
                               |
                          ServiceClaims

(`A <- B`: B extends A.)

* **ReviewStore** — the table as a sequence of rows; a review's id is its position.
  One operator per repository method. Each method is one transaction, so one step.
  `start_review` is disabled by a duplicate delivery id and `finish_review` by a
  duplicate agent call: those are the unique constraints, and the callers say what
  happens then. `cutoff` divides the rows older than an hour from the others.
* **ReviewJob** — `review_pull_request`. `pc[r]` is the await the coroutine of
  request `r` is at, `mem[r]` its locals. Between two awaits no other coroutine
  runs, so an action is one awaited call and the code up to the next. Every action
  has a disjunct for each way its call fails, and the constant `Faults` says which
  kinds of failure happen: a store call raises and has changed nothing, or raises
  although its transaction was committed, GitHub answers an error, the connection breaks, the graph raises, the model's
  client raises. A POST that GitHub answers with an error has posted nothing; one whose
  connection breaks may have taken effect. An error answer to a POST that did take effect
  is therefore left out, and so is what `except GitHubError` would do with it. The model keeps the difference between what `except GitHubError`
  catches and what reaches the outer `except Exception`, which logs and returns.
* **MentionDispatch** — `respond_to_mention` down to the reply, the save and the
  failure; the review it may start goes on at `ReviewJob`'s first label with the
  mention's row and calls, as the call in the code does.
* **WebhookService** — the endpoint, GitHub, and the whole system. GitHub opens,
  marks ready, reopens and pushes to one pull request, people comment on it; every
  event is a delivery with its own id, and any number of requests may carry the same
  delivery, at once or later. `Crash` ends every coroutine and keeps the table.
* **ReviewLifecycle** — the abstract promise about a delivery: unrecorded, pending,
  running, then succeeded, answered (a mention that ran no review) or failed, only
  forward, and at most one review published, by a run that began and did not fail.
  `Undo` is the one step back, from answered to failed; `MayUndo` allows it, and the
  service instantiates it with `Fault("commit")`.
* **ServiceProperties**, **ServiceInvariant** — the properties, and the inductive
  invariant the proofs use.
* **MCService**, **ServiceClaims** — instances for TLC, and what comments of the
  repository say that the code does not keep.

One pull request of one repository is modelled, because every query of the service
is keyed by the repository and the number. Findings are present or absent; calls
are the kinds of agent, since only their uniqueness matters; `comments` is 0 or 1,
where 1 stands for any positive number.

### Runs

| run | instance | what it shows |
|---|---|---|
| `webhook` | 3 requests, 2 deliveries, 2 heads, every failure, 1 crash, pull request events | `TypeOK`, `OneReviewPerDelivery`, `PublishedIsOnRecord`, `RecordedPostingIsReal` |
| `mentions` | 2 requests, 2 deliveries, every failure, 1 crash, comments of every author and text | `IInv`, `CallsRecordedOnce`, `TasksOwnTheirRows`, and that the service implements `ReviewLifecycle` |
| `settle` | 2 requests, 2 deliveries, handled failures only, no crash, fair | `UndeliveredIsLegible`, `AnswersAreBilled`, `RecordedDeliveriesSettle` |

Bounds. Two deliveries are what it takes for two events to concern one commit, or
for a mention to meet a review; three requests let both copies of a redelivered
delivery race while the other delivery runs. A second head is what it takes for the
pull request to move between the delivery and the fetch. A second crash finds
nothing that one crash has not already stranded, since no task survives the first.
`MaxMentions = 1` makes the rate limit reachable. Requests and deliveries are
interchangeable, so the safety runs use symmetry; the fair run does not.

Deadlock is not checked: once every request is answered and nothing more happens on
GitHub the system rightly stops.

Fairness is weak fairness of each request's own step (`FairSpec`). The event loop
resumes a coroutine whose call has returned, and each call returns: the HTTP client
and the model's client have timeouts, after which they raise, which is one of the
modelled outcomes. A request is not obliged to arrive, GitHub is not obliged to act,
and a crash is not obliged to happen. `RecordedDeliveriesSettle` needs the failures
to be those the code handles: with a lost connection or a failing database it is
false. The run `claim_UnsettledMeansDied` shows how for a connection lost in the fetch;
a database that fails strands rows too, and no run singles that out. `AnswersAreBilled` says that
whoever was answered has a succeeded row with the calls that were paid for, whether
GitHub took the reply or refused it; with a lost connection it is false as well.

### Disagreements between the code and its comments

Each is a run of `ServiceClaims` that TLC refutes; `PROJECT.json` quotes the line.

| claim | what happens instead |
|---|---|
| `OneReviewPerCommit` | two overlapping deliveries of a commit both pass the lookup and are both reviewed |
| `ReadyIsReviewed` | an answered question in an inline thread leaves a succeeded row with the head, and the commit is then "already reviewed" |
| `UnsettledMeansDied` | a connection that breaks while the diff is fetched ends the task, and its row stays `pending` in a living process (connection failures only, no crash) |
| `AnchorsFitTheDiff` | a push before the fetch pins comments to another commit than the one reviewed |

Five more follow from the same modules and have no run of their own: a review that a
mention asked for is invisible to later mentions (`persistence.py:168`), two mentions
handled at once pass the count of the rate limit together (`config.py:155`), an answered
mention matches the query for undelivered reviews (`db/models.py:124`), a reply whose
answer is lost drops the mention's calls (`mentions/dispatch.py:150`), and a mention that
was answered and saved is failed when the answer to the save is lost
(`mentions/dispatch.py:120`).

## 3. The review pipeline

### Modules

    Selection  <-  Dedupe  <-  Anchors  <-  Budget, Critic
                   Dedupe  <-  LlmMerge
                               Critic   <-  Excerpt

    Budget, Critic, LlmMerge   <-  ReviewGraph     <-  ReviewProperties  <-  MCReview  <-  ReviewClaims
    Budget, LlmMerge, Excerpt  <-  PipelineChecks  <-  MCPipeline
    ReviewLedger  <--- INSTANCE ---  ReviewProperties

    Selection  <-  SequenceFacts  <-  PipelineSafety             (with Budget, Critic, LlmMerge)
    PipelineSafety  <-  ReviewSafety  <-  LedgerSafety           (with ReviewProperties)
    PipelineSafety  <-  PipelineTheorems                         (with PipelineChecks)

* **Selection** — a list comprehension with a condition, the stable `sorted`, and `sum`:
  the elements are given by how many go before them, which is what the provers can use.
* **Dedupe** — findings, `collapse`, `_merge`, `rank_and_cut`.
* **Anchors** — a diff's entries and what `parse_diff` makes of them, the lines of a
  file, `truncated_to`, `nearest_anchor`, `anchor_findings`.
* **Budget** — `build_budget`: what is filtered, shortened and dropped.
* **Critic** — which findings are judged, in which calls, and `_apply` of the verdicts.
* **Excerpt** — the lines of a hunk with their numbers, the window around a line, and
  the code the critic is shown for each file: the whole of it or windows. An excerpt is
  a sequence of segments; the mark the code puts between two of them is left out.
* **LlmMerge** — the candidate pairs and the union-find over the decisions.
* **ReviewGraph** — the state machine: `Prepare`, one `RunAgent` for each agent,
  `Collapse` (finalize up to its first request), one `JudgeOneFile` for each file,
  `ReviewFindings` (the critic's answers applied) and `MergeFindings`. The code between
  two awaits is one action, so `AfterCritic` and `Finish` are parts of the action that
  reaches them and not actions of their own.
* **ReviewLedger** — the abstract promise of a run: reports come in as claims, claims
  are joined and never split, one that goes away is counted as retracted or suppressed
  in the step it goes, and only the last step suppresses.
* **ReviewProperties** — the properties, and the refinement of `ReviewLedger`.
* **PipelineChecks** — the pure algorithms against definitions of what they are for.
* **SequenceFacts**, **PipelineSafety**, **ReviewSafety**, **LedgerSafety**,
  **PipelineTheorems** — the lemmas and proofs (section 5).

A severity is its rank, a confidence a small number, a title its set of words, a path
its sequence of components, and a category or a body nothing at all, since no decision
reads them. A verdict that rewords a finding does so without changing its words in the
model, because no stage after the critic compares titles. The token count of a file,
which Anthropic's API answers, is its number of lines. A finding carries one thing the
code does not have: `raised`, the reports it stands for. It is a history variable, and
what makes "no report vanishes" a statement about states.

The agents' lists are concatenated by LangGraph, whose order the code does not state;
the model concatenates them in the order of their arrival, any order. An answer of the
model that failed, was refused or could not be parsed is one with no findings, verdicts
or decisions: the code returns the same in each case. `Raises` adds the exceptions that
are not an `APIError`, which nothing in the graph catches; the job does.

### Runs

| run | instance | what it shows |
|---|---|---|
| `review` | three agents with one report each of six, two files (or one that is noise), verdicts and decisions on every index, an index past the end included | `ReviewTypeOK`, `ReportsAreAccountedFor`, `SourcesAreAuthors`, `SeverityIsEarned`, `ConfidenceIsEarned`, `LinesAreReported`, `CommentsAreOnTheDiff`, `OneCallEach`, `LoweredIsMarked`, and that the graph implements `ReviewLedger` |
| `pipeline` | every diff of up to four entries of eight shapes, with five tokens and three lines a file; every list of up to four findings of two agents from six; every sequence of up to three decisions on four findings, five pairs asked; every text of hunks of up to six lines, headers included | `PromptFits`, `MostFilesSurvive`, `CoverageIsDisclosed`; `CollapseUnderstatesNothing`, `CapKeepsTheTop`; `GroupsAreConnected`; `ExcerptIsTheDiff`, `EvidenceIsShown` |

Bounds. A report is of the diff if its path, normalized, is that of a file
that is reviewed; one that is not is discarded when it is anchored, uncounted, as
`anchors.py` says, and the properties and the ledger set it apart. The six reports of
`review` cover two wordings of a defect at one place, a
place within the tolerance, one between the collapse and the merge windows, a file
outside the diff, and prefixes that normalization removes. Three reports are
enough for a merge by `collapse`, for a merge by the model of what the critic changed,
and for verdicts that cross files. The cap of two is below three reports;
a floor above "low" withholds for the other reason. In `pipeline` a chain of lines 1,
4 and 7 with a tolerance of 3 makes clusters that grow; three decisions connect four
findings in every shape a tree can have, and one pair was never asked; files are at the
budget, under it and over it, and the first hunk of one alone is over the limit.
The texts of hunks have every order of added, context and removed lines and remarks; a
limit of four lines for a whole file and a radius of two make files that are shown whole,
files that are shown in windows, and lines without a number between lines that have one.

The pipeline ends, in a result or an exception, so deadlock is not checked.

### Disagreements between the code and its comments

| claim | what happens instead |
|---|---|
| `CommentsFitAnyPath` | a real directory `a/` or `b/` is stripped from a path, and the comment is posted under a path that is not in the pull request |
| `VerdictsAreAnswers` | the critic's call about one file retracts a finding of another, which it was not shown |

The first needs a repository with a directory of that name, which `MCReview` has in
`InPrefixDirectory`; the run `review` has none, and there `CommentsAreOnTheDiff` holds.

Four more disagreements follow from the same modules and have no run of their own. A
finding's path is normalized twice and the diff's once, so one on `a/b/x` is discarded
as outside the diff (`anchors.py:15` says only a file that is not in it is). Two equal
findings may stay apart, since clusters that a later finding connects are not joined
(`graph/dedupe.py:94`). The merge pass forgets that the critic amended a member
(`models.py:114` says it is recorded; `graph/dedupe.py:169` builds the merged finding
without it), which is why `LoweredIsMarked` stops before that pass. And a merged group
takes the place of its later member, not of its first (`graph/llm_merge.py:214`).

## 4. The command line review and what a reader is told

    Rendering  <-  LocalReview  <-  MCLocal
                       |    ^
    ReviewLifecycle <--'    '--  LocalSafety

* **Rendering** — the price table (in ten-millionths of a dollar), the cost of a call and
  the total; what the summary, a comment, the review, the degraded review and the console
  say of a result. A text is the record of what it says, in the order it says it.
* **LocalReview** — `main` and `run` of `scripts/review_local.py`. `pc` is the await the
  process is at, `leaving` the exception on its way out, if any; `given` says which of
  the file, the key and the database exist and whether markdown was asked for. Five kinds
  of failure happen, as `Faults` says: the store raises, before its write took effect or
  after; the graph raises; closing a client or the engine raises; an interrupt cancels the
  coroutine where it waits; the process dies. An interrupt is not an `Exception`: it
  passes the handlers, never the finalizers, which may be interrupted in turn.
* **LocalSafety** — the proofs (section 5).

The run `local` takes every result of up to three findings of four shapes, among them one
without a line and one of the lowest severity, with one cheap call or with three, of which
one has no price and one failed; every combination of the file, the key, the database and
markdown; and every failure at every await. Three findings put two under one heading.
It checks `LocalTypeOK` and

* `SavedIsWhatWasShown`: an id is printed only of a review that is stored as printed;
* `ResultSurvivesTheStore`: failures of the database alone never cost the output;
* `RowTellsTheRun`: the row is there before the model is asked, is "failed" only for a
  failure of the graph, "succeeded" only with the whole result, and is left "pending"
  only by more than a failure of the graph;
* `ReaderIsToldEverything`: every finding is listed once, and told in full on exactly one
  surface;
* `BillAddsUp`: the stored total is that of the priced calls, and a call without a price
  is not stored as free;
* `LocalImplementsLifecycle`: the row is settled once, like a delivery's, whatever is
  raised on the way out.

The process ends, so deadlock is not checked. No fairness is assumed: nothing is said to
happen in the end.

Read the properties with what the code does not promise. A degraded review loses the
reasoning of the findings with a line, since only their comments had it; the titles stay
(`render.py:144` calls a claim without its reasoning worse than none). A run from the
command line that dies in the middle of its review leaves its row "pending"
(`scripts/review_local.py:89`), which of a delivery would mean that it never began
(`persistence.py:117`). A client or an engine that fails to close costs a result that was
made. And the console never shows how many findings were retracted.

## 5. Proofs

`ServiceSafety` proves, for any sets of requests and deliveries, any number of heads,
crashes and mentions, and any set of failures, from the named assumptions on the constants
alone (`MaxHeadAssumption`, `NoDeliveryAssumption`, `FaultsAssumption`,
`ServiceAssumption`):

* `Invariance`: `Spec => []IInv`, and from it `TypeCorrect`, `AtMostOneReviewPerDelivery`,
  `PublishedIsAlwaysOnRecord`, `RecordedPostingIsAlwaysReal`, `TasksAlwaysOwnTheirRows`
  and `CallsAreRecordedOnce`.

`ServiceRefinement` proves `Refinement`: `Spec => ImplementsLifecycle`.

Why an inductive invariant is needed. That a delivery is published at most once does not
follow from itself: a task at `post` for a row that already has a review would break it.
`IInv` says why there is no such task. Its core, `At(label, m)`, states for a coroutine at
`label` with locals `m` what its row and the posts hold: the status of the row, that no
review of the row is published before `record`, that no call of it is stored before
`post`, and whether the calls it holds are a review's. `TasksAreApart` says that no two
coroutines share a row, `RowsAreApart` that no two rows share a delivery (the unique
constraint), `PostsAreApart` that a row has at most one published review.

The argument. Every action of a task writes at most its own row and appends at most one
post of its own row. `TaskStep` turns that into the invariant's step: given the new `At`
of the acting task, the others keep theirs because their rows are others. `QuietStep`,
`WriteStep`, `PostStep` and `ReturnStep` specialise it to an action that only moves on,
one that writes its row, one that publishes and one that ends; each action is then one
short lemma. `AcceptStep` is the insert: the unique constraint gives `RowsAreApart`, and a
fresh row is apart from every task's. `BuiltReview` and `NewestType` type the reads; that
a nonempty set of positions has a largest member is `LargestExists`, from well-foundedness
of `<`. `CrashStep` has no task left to speak of.

The refinement maps a delivery to what its row stands for (or "unrecorded") and to the
number of its published reviews. `Standing` is the status of a row, but "answered" for a
succeeded row without a call of the graph: that is how the refinement can tell the mention
whose save lost its answer, which the handler fails, from a review, which it never does.
That a succeeded row is one or the other follows from the calls in `At`. `InvariantMaps`
shows that under `IInv` a row determines its delivery, so that writing a row is a move of
that delivery and a stutter of all others; each action then maps to one abstract step or
to a stutter.

`UndeliveredIsAlwaysLegible` and `AnswersAreAlwaysBilled` assume `HandledOnly`: nothing
fails but what the code handles (an error GitHub answers, the graph, the model's client)
and the process stays up. With a connection that breaks or a store that raises both are
false. The invariant beside `IInv` is `SettlingInv`: `BillsAreInHand` says of each program
point of a mention which calls it holds that the table does not have yet, `BillOnItsWay`
of each reply that its calls are in the row or in the hands of the one task that will save
them, and `PostingOnItsWay` of each review the same of its posting.

### The algorithms of the pipeline

The prover has no induction over data: the library's induction theorems take an operator
as a parameter, which the installed provers cannot instantiate. `SequenceFacts` gets
around it. `SetInduction` states induction for a set (every nonempty set of numbers has a
least element, from the well-foundedness of `<`), `SubsetInduction` for the subsets of a
finite set; `FoldExists` shows that a fold over a sequence has a value, and
`FoldAlongPrefixes` gives it prefix by prefix, so that an invariant of a loop can be
carried along it. `SelectedElements` and `SortedElements` say what filtering and stable
sorting return: the elements at the positions asked for, each once, in order. `IsSum(w, g,
S)` says that w is the sum of g over each subset of S: `SumIsUnordered` and `TotalIsSum`
show that the order of adding does not matter, `SumOfPicked` carries a sum along a
selection, and `LastOnesAreLeast` is the exchange argument: of numbers in descending
order, no choice of k of them has a smaller sum than the last k.

`PipelineSafety` states what each algorithm returns, for every input of its type:
`MergedFinding` (the severity, confidence, line, sources and reports of a merged finding),
`CollapseClusters` (clusters of one file, every finding in one of them),
`AnchoredFindings` (exactly the findings about files of the diff are kept, each on a line
a comment may be on or without one), `JudgedFindings` (what survives the critic was there
before, amended or not, and the rest is counted), `RankedFindings`, `ForestOfDecisions`
and `GroupsByRoot` (joining two roots leaves one function R that says where every position
leads, `IsRoots`, which is what `find` computes, and the groups are those of equal roots),
`FittedDiff`.

`PipelineTheorems` proves what `PipelineChecks` checks up to a length for inputs of every
length. `InputInv` is the invariant, that an input is a sequence of entries, of findings
with one report each, of decisions or of the lines of hunks, and `InputAssumption` the
assumption: the shapes and reports the inputs are drawn from are of those types.
`GroupsAreAlwaysConnected` shows that the positions of one tree are those no set closed
under the decisions separates. The three of the budget rest on `InBudget`: what is shown
are the candidates but the n largest, sorted by path, and with one fewer dropped they
would not have fit. `MostFilesAlwaysSurvive` follows: more files than are shown would have
at least the tokens of the smallest so many, which are too many.

`ExcerptIsAlwaysTheDiff` and `EvidenceIsAlwaysShown` are about a file of hunks of any
length and two findings on any lines of it. `HunkIsNumbered` says what `_to_hunk` returns:
the header and then each line beside its number, which only the lines that may be reported
have. `SpanIsPiece` shows that a span is a contiguous piece of its hunk, from the first
line in range to the last, and `WindowOfSpans` that a window is the spans that are not
empty, so that whatever is between two lines of one span is in it. `FileIsNumbered` is
what the two lemmas `BlockIsFaithful` and `BlockIsEvidence` need of the file, for the
whole file and for windows; `MessageOfFile` shows that two findings of one file are one
block.

### The review graph

`ReviewSafety` proves `CallsAreApart`, `ReviewIsTyped`, `SourcesAreAlwaysAuthors`,
`SeverityIsAlwaysEarned`, `ConfidenceIsAlwaysEarned`, `LinesAreAlwaysReported`,
`LoweredIsAlwaysMarked` and `CommentsAreAlwaysOnTheDiff`, for any agents, diffs, reports
and answers that `GraphAssumption` types. `CallInv` adds what makes `OneCallEach`
inductive: who is still running has not called, and neither the critic nor the merge pass
has before its stage. The service relies on it: `ReviewJob` stores the calls of a run
without checking them, and a repeated agent would make `finish_review` fail.

`GraphInv` is the invariant of the others. Its core is `Held`: every finding in hand
stands for some reports (`Sound`), names exactly their agents, once each, and is `Earned`,
rated as one of them is or below them where one is high: `SeverityIsEarned` of every
finding at every stage, put without the maximum, so that amending and merging can be seen
to keep it. `Sure` says the same of its confidence. `AllMarked` is `LoweredIsMarked` of
what is in hand; it is dropped when the merge pass, which forgets the mark, has run.

That no line drifts is not inductive: were a line moved within the tolerance of one that
is itself within the tolerance of a report, it could end twice as far. The invariant says
that it is moved once. As long as agents run, every finding is on the very line of one of
its reports (`Said`); collapsing keeps that, because a merged finding has the line of a
member; `Collapse` anchors right after it, and from then on a line is within the tolerance
of a reported one (`AllPlaced`), which neither the critic nor a merge nor the cut changes.

`CommentsAreAlwaysOnTheDiff` assumes `PlainPaths`: normalizing changes no path of a diff.
It is what a repository without a directory `a/` or `b/` at its root gives, and the
property is false without it, as `claim_CommentsFitAnyPath` shows. `PlaceInv` is the
invariant: past the agents, every finding is on a file that is reviewed, and on a line of
it where a comment may be.

`LedgerSafety` proves `ReportsAreAlwaysAccountedFor` and `GraphImplementsLedger`. A claim
is the set of reports a finding stands for. `Loses(after, before, away, n)` says that each
claim of `after` is a union of claims of `before`, that they are apart, and that n counts
the ones of which nothing is left as the code counts: it is zero exactly when none is, and
never more than they are, `away` (the reports about files outside the diff) set apart. It
composes (`LosesComposes`), and collapse, anchoring, the critic, the groups and the cut
each lose claims in that sense (`JoinedClaims`, `AnchoredClaims`, `JudgedClaims`,
`RankedClaims`), so every action does. The count may be smaller than the number of reports
lost, since a withheld finding is counted once whatever it stands for. `LedgerInv` says
that the claims in hand are what is left of the reports, one for each, after losing what
was counted so far; before `Collapse` they are exactly the reports. The refinement maps
each action of the graph to a step of `ReviewLedger`; an answer of the critic's and a
preparation stutter.

### The command line review

`LocalSafety` proves, for any results and any set of failures, `LocalInvariance` and from
it `SavedIsAlwaysWhatWasShown`, `ResultAlwaysSurvivesTheStore`, `RowAlwaysTellsTheRun` and
`LocalRefinement` (the run implements `ReviewLifecycle`). The inductive invariant
`LocalInv` has four parts: `Control` (where an exception may be on its way out, and that
it is among the failures that happened), `ResultHeld` (where there is a result), `RowHeld`
(what the table holds at each label, a write that raised having happened or not) and
`ShownHeld`. `StatusMoves` is what the refinement needs of a step: each action moves the
status of the row along the lifecycle or leaves it. `LocalIsTyped`, `BillAlwaysAddsUp` and
`ReaderIsAlwaysToldEverything` hold for results of every length that `ResultsAssumption`
types: the index and the note are selections by severity and by line, whose lengths add up
to that of the findings.

### What is only model-checked

* `RecordedDeliveriesSettle`: liveness, and fairness is stated with ENABLED.
* The six claims, which are false.

## 6. What is not modelled

* A request without a delivery header, `GET /reviews/{id}` and `/healthz`.
* The wording of prompts, summaries and comments, the focus of a narrowed review in the
  summary, log lines, HMAC and settings parsing; a request with a bad signature is one
  that is turned away.
* The service without a database (`NullReviewStore`): nothing is recorded, so every
  redelivery is reviewed again, as `persistence.py:274` says. The command line review is
  modelled with and without one.
* How `unidiff` reads the text of a diff: an entry can be read or not, and its hunks are
  sequences of added, context and removed lines and remarks.
* The probe scripts and `replay_webhook.py`: experiments that repeat a request and print a
  table, with no state that the program keeps or reads.
* Migrations and deployment, which run before the service starts.

## 7. What comes next

The composition of the two halves: the calls and the comments of a `ReviewGraph` run as
the result `ReviewJob` stores and posts, with `ReviewLedger` between them.

Termination of a run of the graph under fairness of its requests is not checked: each
state of `ReviewGraph` has so many answers for a successor that TLC does not evaluate
ENABLED of its steps in reasonable time. That a run ends, in a result or an exception, is
what the fairness of `RecordedDeliveriesSettle` assumes of it.
