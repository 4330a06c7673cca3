---------------------------- MODULE StepPipeline ----------------------------
(***************************************************************************)
(* Phase 4 of a research run: build_steps asks the adapter of each wanted  *)
(* document in reference order, assembles a step of what it returns or     *)
(* raises, and logs its files; the document fetcher maps the steps to the  *)
(* documents of the job.  The clerk steps share one scrape (ClerkScrape),  *)
(* whose answer the context caches.                                        *)
(*                                                                         *)
(* What an adapter can return is a set of FetchedSource records.           *)
(***************************************************************************)
EXTENDS ClerkScrape

CONSTANT Cases   \* runs: wanted steps, context, county roll, replaced adapters

VARIABLES
    run,       \* the case: include, ctx, county roll, plugged adapters
    pl,        \* where the pipeline is
    at,        \* the step of the reference set being made
    cache,     \* ctx._clerk_docs: <<>>, or the answer of the scrape
    calls,     \* history: calls of fetch_documents
    raised,    \* the exception of the step's fetch
    steps,     \* the StepResults so far
    manifest,  \* files logged
    out        \* the FetchedDocument of each step that has a document type

pipeVars == <<run, pl, at, cache, calls, raised, steps, manifest, out>>
vars     == <<pipeVars, scrapeVars>>

RESIDENTIAL_DOCS == <<"parcel", "appraiser", "deed", "plat", "adjoiners", "easements",
                      "prior_survey", "flood", "benchmarks", "glo", "condo", "zoning">>

\* The steps the API has document types for.
STEP_TO_DOC_TYPE == {"parcel", "appraiser", "plat", "deed", "flood", "benchmarks"}

\* The files a step can have.
File == {"Parcel_Record.html", "Property_Appraiser.html", "Deed.pdf", "Plat.pdf",
         "Flood_Map.png", "FEMA_Flood_Report.html", "NGS_1", "NGS_2", "Other.pdf"}

\* The errors a fetched document can have.
ResearchErrorCode == {"PARCEL_NOT_FOUND", "SOURCE_UNAVAILABLE", "S3_UPLOAD_FAILED",
                      "TIMEOUT", "INTERNAL_ERROR"}

\* gone: history, the step's files that were missing on disk.
Document == [status : {"uploaded", "fetched", "skipped", "failed"},
             file : File \cup {None}, error : ResearchErrorCode \cup {None}, gone : SUBSET File]

ASSUME CasesAssumption ==
    /\ \A c \in Cases :
         /\ {c.ctx.ok, c.ctx.buffered, c.ctx.fips} \subseteq BOOLEAN
         /\ c.include \subseteq {RESIDENTIAL_DOCS[i] : i \in DOMAIN RESIDENTIAL_DOCS}
    /\ None \notin File \cup ResearchErrorCode \cup Document

Key     == RESIDENTIAL_DOCS[at]
Plugged == Key \in run.plugged

---------------------------------------------------------------------------
(* Adapters *)

FetchedSource(status, files, logged) ==
    [status |-> status, files |-> files, logged |-> logged, review |-> FALSE,
     data |-> None]

Link == FetchedSource("link", {}, {})

\* A report, card or exhibit is written, or making it failed and was swallowed.
Saved(f) == {{}, {f}}

save_parcel_record      == Saved("Parcel_Record.html")
save_appraiser_record   == Saved("Property_Appraiser.html")
save_flood_map          == Saved("Flood_Map.png")
save_flood_report(f)    == IF f.zone # None THEN Saved("FEMA_Flood_Report.html") ELSE {{}}

\* The control marks near the point, and the datasheets of the nearest ones that
\* could be had.
benchmarks == {{}, {"NGS_1"}, {"NGS_1", "NGS_2"}}
download_ngs_datasheets(marks) == SUBSET marks

\* The zones, or the panels, FEMA has at the point, by the county they belong
\* to: at a county line also the neighbour's, in any order.
_query == {<<>>, <<"own">>, <<"next">>, <<"own", "next">>, <<"next", "own">>}

\* Mutant: the first item, whatever county it is of.
PickFirst(items, prefix) == IF items = <<>> THEN None ELSE items[1]

_pick_by_prefix(items, prefix) ==
    IF items = <<>> THEN None
    ELSE IF prefix \in {items[i] : i \in DOMAIN items} THEN prefix
    ELSE items[1]

\* The prefix is the county's, or without one that of the first zone.
flood(zones, panels) ==
    LET prefix == IF run.ctx.fips THEN "own"
                  ELSE IF zones = <<>> THEN None ELSE zones[1]
    IN  [zones |-> zones, panels |-> panels,
         zone |-> _pick_by_prefix(zones, prefix), panel |-> _pick_by_prefix(panels, prefix)]

\* Without a confirmed parcel, a link; one met in a widened box is for review.
ParcelAdapter ==
    IF run.ctx.ok THEN {FetchedSource("ok", f, f) : f \in save_parcel_record}
    ELSE {[Link EXCEPT !.review = run.ctx.buffered]}

AppraiserAdapter ==
    IF run.ctx.ok THEN {FetchedSource("ok", f, f) : f \in save_appraiser_record}
    ELSE {Link}

\* Mutant: the plat step takes the deed.
ClerkDeed(doc, file) ==
    LET f == IF cache[1].deed = None THEN {} ELSE {"Deed.pdf"}
    IN  {FetchedSource("ok", f, f)}

\* ok with or without a file: the deep link counts as data.
ClerkAdapter(doc, file) ==
    LET f == IF cache[1][doc] = None THEN {} ELSE {file}
    IN  {FetchedSource("ok", f, f)}

DeedAdapter == ClerkAdapter("deed", "Deed.pdf")
PlatAdapter == ClerkAdapter("plat", "Plat.pdf")

\* The report when there is a zone, else the map; both are logged.
Flood(f, map, report) ==
    [FetchedSource(IF f.zone # None \/ map # {} THEN "ok" ELSE "link",
                   IF report # {} THEN report ELSE map, map \cup report) EXCEPT !.data = f]

FloodAdapter ==
    UNION {{Flood(f, map, report) : map \in save_flood_map, report \in save_flood_report(f)} :
           f \in {flood(zones, panels) : zones \in _query, panels \in _query}}

\* No marks at all is "empty".
NgsAdapter ==
    UNION {{FetchedSource(IF marks = {} THEN "empty" ELSE "ok", f, f) :
            f \in download_ngs_datasheets(marks)} : marks \in benchmarks}

GloAdapter    == {Link}
ZoningAdapter == {Link}

\* The adapters of the clerk family name no file, even one that was fetched.
_attempt_clerk_adapter == {FetchedSource("ok", {}, {})}

\* A registered adapter sets every field as it likes: a status without a file, a
\* file with any status, files it does not log and log entries without a file.
RegisteredAdapter ==
    [status: {"ok", "link", "empty"}, files: SUBSET {"Other.pdf"}, logged: SUBSET {"Other.pdf"},
     review: BOOLEAN, data: {None}]

CLERK == {"deed", "plat", "adjoiners", "easements", "prior_survey", "condo"}

ADAPTERS ==
    IF Plugged THEN RegisteredAdapter
    ELSE CASE Key = "parcel" -> ParcelAdapter
           [] Key = "appraiser" -> AppraiserAdapter
           [] Key = "deed" -> DeedAdapter
           [] Key = "plat" -> PlatAdapter
           [] Key = "flood" -> FloodAdapter
           [] Key = "benchmarks" -> NgsAdapter
           [] Key \in CLERK \ {"deed", "plat"} -> _attempt_clerk_adapter
           [] Key = "glo" -> GloAdapter
           [] OTHER -> ZoningAdapter

SourceOutcome == {"auto", "link_only", "blocked", "broken", "retryable", "manual_review"}

\* A refused request, a wrong or failing one; no answer; and everything else.
classify_exception ==
    [outcome: {"blocked", "broken"}, code: {"HTTP"}]
    \cup [outcome: {"retryable"}, code: {"CONNECTION_FAILED", "ADAPTER_ERROR"}]

Exception(source, c) == [source |-> source, outcome |-> c.outcome, code |-> c.code]

\* FEMA and NGS are asked without a guard; a registered adapter may also raise
\* a SourceError with an outcome of its choice, and with a code or none.
Raises ==
    IF ~Plugged /\ Key \notin {"flood", "benchmarks"} THEN {}
    ELSE {Exception(FALSE, c) : c \in classify_exception}
         \cup IF ~Plugged THEN {}
              ELSE [source: {TRUE}, outcome: SourceOutcome, code: {"", "PARCEL_NOT_FOUND"}]

\* What a step says when a SourceError has no code of its own.
_code_for(outcome) ==
    CASE outcome = "blocked" -> "SOURCE_BLOCKED"
      [] outcome = "broken" -> "SOURCE_BROKEN"
      [] outcome = "retryable" -> "SOURCE_UNREACHABLE"
      [] outcome = "link_only" -> "LINK_ONLY"
      [] outcome = "auto" -> "AUTO"
      [] OTHER -> "MANUAL_REVIEW"

ErrorInfo(e) == IF e.code = "" THEN _code_for(e.outcome) ELSE e.code

\* The built-in fallbacks of sources that raise give the link.
Fallbacks == IF Plugged THEN RegisteredAdapter ELSE {Link}

---------------------------------------------------------------------------
(* What the county roll and the legal description tell the clerk search *)

\* A reference of zeros is none.
_numref(v) == IF v = 0 THEN None ELSE v

PlatArg(roll) == IF roll.platbook = None THEN None
                 ELSE [book |-> roll.platbook, page |-> roll.platpage, sub |-> roll.sub]

\* The roll's instrument number and its book and page, or the legal's book and
\* page; the owner's name when there is neither.
DeedArg(roll) ==
    LET num == _numref(roll.num)
        bp  == IF roll.bp # None THEN roll.bp ELSE roll.legalbp
    IN  IF num # None \/ bp # None
        THEN [num |-> num, bp |-> bp, owner |-> None, sub |-> None]
        ELSE IF roll.owner # None
             THEN [num |-> None, bp |-> None, owner |-> roll.owner, sub |-> roll.sub]
             ELSE None

---------------------------------------------------------------------------
(* Steps *)

_outcome_for(fs) == IF fs.review THEN "manual_review"
                    ELSE IF fs.status \in {"ok", "empty"} THEN "auto" ELSE "link_only"

_default_confidence(fs) ==
    IF fs.review THEN "low"
    ELSE IF fs.files # {} /\ Key \in {"deed", "plat"} THEN "medium"
    ELSE [ok |-> "high", empty |-> "medium", link |-> "low"][fs.status]

\* Mutant: a step that failed is left out.
AssembleOk(fs, outcome, error, confidence) ==
    /\ steps' = IF error # None THEN steps
                ELSE Append(steps, [key |-> Key, status |-> fs.status, files |-> fs.files,
                                    data |-> fs.data, outcome |-> outcome, error |-> error,
                                    confidence |-> confidence])
    /\ manifest' = manifest \cup fs.logged
    /\ at' = at + 1 /\ pl' = "next" /\ raised' = None
    /\ UNCHANGED <<run, cache, calls, out>>

\* One step and the manifest entries of its files; then the next wanted one.
_assemble(fs, outcome, error, confidence) ==
    /\ steps' = Append(steps, [key |-> Key, status |-> fs.status, files |-> fs.files,
                               data |-> fs.data, outcome |-> outcome, error |-> error,
                               confidence |-> confidence])
    /\ manifest' = manifest \cup fs.logged
    /\ at' = at + 1 /\ pl' = "next" /\ raised' = None
    /\ UNCHANGED <<run, cache, calls, out>>

Init ==
    /\ run \in Cases
    /\ portal = run.ctx.portal
    /\ deedArg = DeedArg(run.roll) /\ platArg = PlatArg(run.roll)
    /\ ScrapeInit
    /\ pl = "next" /\ at = 1 /\ cache = <<>> /\ calls = 0 /\ raised = None
    /\ steps = <<>> /\ manifest = {} /\ out = <<>>

\* A step that is not wanted is passed over.
build_steps ==
    /\ pl = "next" /\ at <= Len(RESIDENTIAL_DOCS)
    /\ IF Key \in run.include THEN pl' = "fetch" /\ at' = at ELSE at' = at + 1 /\ pl' = pl
    /\ UNCHANGED <<run, cache, calls, raised, steps, manifest, out, scrapeVars>>

NeedsScrape == Key \in CLERK /\ ~Plugged

\* Mutant: an empty answer is taken for none.
EmptyIsNone == cache \in {<<>>, <<NoResult>>}

NotCached == cache = <<>>

\* Mutant: any parcel is looked up at the clerk's.
ScrapeAnyhow == portal # None /\ (deedArg # None \/ platArg # None)

\* Only a confirmed parcel, in a county with an adapter, with a reference or an
\* owner to search by.
Scrapes == run.ctx.ok /\ portal # None /\ (deedArg # None \/ platArg # None)

_scrape_documents ==
    /\ pl = "fetch" /\ NeedsScrape /\ NotCached
    /\ IF Scrapes
       THEN /\ pl' = "scraping" /\ calls' = calls + 1 /\ UNCHANGED cache
            /\ sc' = "search"
            /\ UNCHANGED <<args, attempt, task, capture, body, result>>
       ELSE /\ cache' = <<NoResult>> /\ UNCHANGED <<pl, calls, scrapeVars>>
    /\ UNCHANGED <<run, at, raised, steps, manifest, out>>

Scrape ==
    /\ pl = "scraping"
    /\ \/ fetch_documents /\ UNCHANGED pipeVars
       \/ /\ sc = "returned"
          /\ cache' = <<result>> /\ pl' = "fetch"
          /\ UNCHANGED <<run, at, calls, raised, steps, manifest, out, scrapeVars>>

Fetching == pl = "fetch" /\ (NeedsScrape => cache # <<>>)

_run_one ==
    /\ Fetching
    /\ \/ \E fs \in ADAPTERS : _assemble(fs, _outcome_for(fs), None, _default_confidence(fs))
       \/ \E e \in Raises :
            /\ raised' = e /\ pl' = "fallback"
            /\ UNCHANGED <<run, at, cache, calls, steps, manifest, out>>
    /\ UNCHANGED scrapeVars

\* After a SourceError the fallback runs unguarded; after any other exception
\* its own exception leaves an empty link step.
Fallback ==
    /\ pl = "fallback"
    /\ \/ \E fs \in Fallbacks : _assemble(fs, raised.outcome, ErrorInfo(raised), "none")
       \/ Plugged /\ ~raised.source /\ _assemble(Link, raised.outcome, ErrorInfo(raised), "none")
       \/ /\ Plugged /\ raised.source /\ pl' = "escaped"
          /\ UNCHANGED <<run, at, cache, calls, raised, steps, manifest, out>>
    /\ UNCHANGED scrapeVars

---------------------------------------------------------------------------
(* The documents *)

_map_step_status == [ok |-> "uploaded", link |-> "fetched", empty |-> "skipped"]

_error_code_for(outcome, code) ==
    IF outcome \in {"blocked", "broken"} THEN "SOURCE_UNAVAILABLE"
    ELSE IF outcome = "retryable" THEN "TIMEOUT"
    ELSE IF code = "PARCEL_NOT_FOUND" THEN "PARCEL_NOT_FOUND"
    ELSE IF code = "LINK_ONLY" THEN "SOURCE_UNAVAILABLE"
    ELSE "INTERNAL_ERROR"

\* The document of a step before anything is uploaded.
Mapped(s) == [status |-> _map_step_status[s.status], file |-> None,
              error |-> IF s.error = None THEN None ELSE _error_code_for(s.outcome, s.error),
              gone |-> {}]

\* Mutant: a failed upload leaves the status of the step.
UploadQuiet(s) ==
    IF s.status # "ok" THEN {Mapped(s)}
    ELSE UNION {{[Mapped(s) EXCEPT !.file = f, !.gone = gone] :
                 f \in (s.files \ gone) \cup {None}} : gone \in SUBSET s.files}

\* Of the step's files some may be missing on disk and are skipped.  The first
\* of the others is uploaded, or its upload fails; with none left the document
\* stays uploaded, without a file or an error.
_upload_artifact(s) ==
    IF s.status # "ok" THEN {Mapped(s)}
    ELSE UNION {LET left == s.files \ gone
                    doc  == [Mapped(s) EXCEPT !.gone = gone]
                IN  IF left = {} THEN {doc}
                    ELSE {[doc EXCEPT !.file = f] : f \in left}
                         \cup {[doc EXCEPT !.status = "failed", !.error = "S3_UPLOAD_FAILED"]} :
                gone \in SUBSET s.files}

\* What the worker writes of it to the document's row: a file only with the
\* status uploaded, an error only with failed.
Row(doc) == [status |-> doc.status,
             file   |-> IF doc.status = "uploaded" THEN doc.file ELSE None,
             error  |-> IF doc.status = "failed" THEN doc.error ELSE None]

\* The fetcher maps the steps one by one, once the run has ended; a step without
\* a document type is passed over.
FetchedDocument ==
    /\ pl = "next" /\ at > Len(RESIDENTIAL_DOCS) /\ Len(out) < Len(steps)
    /\ LET s == steps[Len(out) + 1]
       IN  \E d \in IF s.key \in STEP_TO_DOC_TYPE THEN _upload_artifact(s) ELSE {None} :
             out' = Append(out, d)
    /\ UNCHANGED <<run, pl, at, cache, calls, raised, steps, manifest, scrapeVars>>

Return ==
    /\ pl = "next" /\ at > Len(RESIDENTIAL_DOCS) /\ Len(out) = Len(steps)
    /\ pl' = "done"
    /\ UNCHANGED <<run, at, cache, calls, raised, steps, manifest, out, scrapeVars>>

Done == pl \in {"done", "escaped"} /\ UNCHANGED vars

Next == \/ build_steps \/ _scrape_documents \/ Scrape \/ _run_one \/ Fallback
        \/ FetchedDocument \/ Return \/ Done

\* The run is one thread of the worker: it goes on while it can.
Spec == Init /\ [][Next]_vars /\ WF_vars(Next)

---------------------------------------------------------------------------
(* Properties *)

\* A run that ends has one step for every wanted document and no other, in
\* reference order, whatever sources failed; and one document for each step
\* the API has a document type for, and for no other.
OneStepPerRequest ==
    pl = "done" =>
        /\ {steps[i].key : i \in DOMAIN steps} = run.include
        /\ Len(steps) = Cardinality(run.include)
        /\ \A i, j \in DOMAIN steps : i < j =>
              \E a, b \in DOMAIN RESIDENTIAL_DOCS :
                 a < b /\ steps[i].key = RESIDENTIAL_DOCS[a] /\ steps[j].key = RESIDENTIAL_DOCS[b]
        /\ Len(out) = Len(steps)
        /\ \A i \in DOMAIN steps : (out[i] # None) = (steps[i].key \in STEP_TO_DOC_TYPE)

\* The clerk's portal is driven at most once per run, however many steps want
\* it and however the scrape ended.
ScrapedOnce == calls <= 1

\* An unconfirmed parcel reaches no document: the clerk is not searched for it
\* and no file of it is kept.
UnconfirmedNeverUsed ==
    ~run.ctx.ok =>
        /\ calls = 0
        /\ \A i \in DOMAIN steps :
              steps[i].key \in {"parcel", "appraiser", "deed", "plat"} \ run.plugged
                => steps[i].files = {}

\* Evidence of a built-in source is in the audit trail and under its own step:
\* every file a document was uploaded from is in the manifest, a deed's is the
\* deed's, a plat's the plat's.
UploadedIsLogged ==
    \A i \in DOMAIN out :
        (out[i] # None /\ out[i].file # None /\ steps[i].key \notin run.plugged) =>
            /\ out[i].file \in manifest
            /\ (out[i].file = "Deed.pdf") = (steps[i].key = "deed")
            /\ (out[i].file = "Plat.pdf") = (steps[i].key = "plat")

\* The row of a document never passes a failure for evidence.  A built-in source
\* that failed leaves it fetched, with no file; it says failed just when an upload
\* did, and then why; a file is one the step named and the disk had; and where it
\* says uploaded without one, the disk had none of the files the step named.
FailureIsNoEvidence ==
    \A i \in DOMAIN out : out[i] # None =>
        LET row == Row(out[i]) IN
        /\ (steps[i].error # None /\ steps[i].key \notin run.plugged) =>
             row.status = "fetched" /\ row.file = None
        /\ (row.status = "failed") = (row.error = "S3_UPLOAD_FAILED")
        /\ row.file # None => row.status = "uploaded" /\ row.file \in steps[i].files \ out[i].gone
        /\ (row.status = "uploaded" /\ row.file = None) => steps[i].files \subseteq out[i].gone

\* At a county line FEMA answers for both counties: whatever it has for the
\* parcel's county is what the report names, and where the county is not known
\* zone and panel are of one community if they can be.
FloodIsOfTheCounty ==
    \A i \in DOMAIN steps : steps[i].data # None =>
        LET f  == steps[i].data
            In(seq, c) == c \in {seq[k] : k \in DOMAIN seq}
        IN  IF run.ctx.fips
            THEN /\ In(f.zones, "own") => f.zone = "own"
                 /\ In(f.panels, "own") => f.panel = "own"
            ELSE In(f.panels, f.zone) => f.panel = f.zone

\* Every run ends, also when the browser keeps dying or the viewer repeats
\* itself: the attempts and the clicks are counted.
RunEnds == <>(pl \in {"done", "escaped"})

=============================================================================
