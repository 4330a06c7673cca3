------------------------- MODULE StepPipelineProofs -------------------------
(***************************************************************************)
(* Theorems about StepPipeline, for any runs and whatever the portal holds *)
(* and does: the clerk is driven at most once, an unconfirmed parcel       *)
(* reaches no document, every wanted document gets its step, and no        *)
(* failure passes for evidence.                                            *)
(***************************************************************************)
EXTENDS StepPipeline, FiniteSetTheorems, TLAPS

\* FEMA's answer, and what was picked from it.
County == {None, "own", "next"}
Data   == {None} \cup [zones : _query, panels : _query, zone : County, panel : County]

\* What an adapter returns, as far as the argument needs it.
Source == [status : {"ok", "link", "empty"}, files : SUBSET File,
           logged : SUBSET File, review : BOOLEAN, data : Data]

Confidence == {"high", "medium", "low", "none"}

Code == {"", "HTTP", "CONNECTION_FAILED", "ADAPTER_ERROR", "PARCEL_NOT_FOUND", "SOURCE_BLOCKED", "SOURCE_BROKEN",
         "SOURCE_UNREACHABLE", "LINK_ONLY", "AUTO", "MANUAL_REVIEW"}

Step == [key : {RESIDENTIAL_DOCS[i] : i \in 1..12}, status : {"ok", "link", "empty"},
         files : SUBSET File, data : Data, outcome : SourceOutcome,
         error : {None} \cup Code, confidence : Confidence]

Raised == [source : BOOLEAN, outcome : SourceOutcome, code : Code]

\* Steps that stand on the parcel.
OfParcel == {"parcel", "appraiser", "deed", "plat"}

Core ==
    /\ run \in Cases
    /\ at \in 1..13
    /\ pl \in {"next", "fetch", "scraping", "fallback", "escaped", "done"}
    /\ pl \in {"fetch", "scraping", "fallback"} => at <= 12
    /\ pl = "fallback" => raised \in Raised
    /\ steps \in Seq(Step)

\* The cache is filled by whoever scraped, and only once.
CacheInv ==
    /\ pl = "scraping" => calls = 1 /\ cache = <<>> /\ run.ctx.ok
    /\ pl # "scraping" /\ cache = <<>> => calls = 0
    /\ calls \in {0, 1}
    /\ ~run.ctx.ok => calls = 0 /\ cache \in {<<>>, <<NoResult>>}

\* The steps of an unconfirmed parcel have no files.
NoFiles ==
    ~run.ctx.ok => \A i \in DOMAIN steps :
        steps[i].key \in OfParcel \ run.plugged => steps[i].files = {}

In(seq, c) == c \in {seq[k] : k \in DOMAIN seq}

\* What FloodIsOfTheCounty says of one answer.
RightCounty(d) ==
    IF run.ctx.fips
    THEN /\ In(d.zones, "own") => d.zone = "own"
         /\ In(d.panels, "own") => d.panel = "own"
    ELSE In(d.panels, d.zone) => d.panel = d.zone

CountyInv == \A i \in DOMAIN steps : steps[i].data # None => RightCounty(steps[i].data)

PipeInv == Core /\ CacheInv /\ NoFiles /\ CountyInv

-----------------------------------------------------------------------------
(* Adapters *)

LEMMA KeyType == ASSUME at \in 1..12 PROVE Key \in {RESIDENTIAL_DOCS[i] : i \in 1..12}
  BY DEF Key

LEMMA SourceType ==
    ASSUME NEW status \in {"ok", "link", "empty"}, NEW f \in SUBSET File, NEW l \in SUBSET File
    PROVE  /\ FetchedSource(status, f, l) \in Source
           /\ FetchedSource(status, f, l).files = f
           /\ FetchedSource(status, f, l).data = None
  BY DEF FetchedSource, Source, Data

LEMMA SourceWithData ==
    ASSUME NEW r \in Source, NEW d \in Data
    PROVE  [r EXCEPT !.data = d] \in Source
  BY DEF Source

LEMMA LinkType == Link \in Source /\ Link.files = {} /\ Link.data = None
  BY SourceType DEF Link

LEMMA NoFile == {} \in SUBSET File
  OBVIOUS

LEMMA OneFile == ASSUME NEW f \in File PROVE {f} \in SUBSET File
  OBVIOUS

LEMMA OkSource ==
    ASSUME NEW f \in File, NEW fs \in {FetchedSource("ok", g, g) : g \in Saved(f)}
    PROVE  fs \in Source /\ fs.data = None
<1>1. PICK g \in {{}, {f}} : fs = FetchedSource("ok", g, g)
  BY DEF Saved
<1>2. g \in SUBSET File
  BY <1>1, NoFile, OneFile
<1>3. QED
  BY <1>1, <1>2, SourceType

LEMMA RegisteredReturns ==
    \A fs \in RegisteredAdapter : fs \in Source /\ fs.data = None
<1>1. SUBSET {"Other.pdf"} \subseteq SUBSET File
  BY DEF File
<1>2. QED
  BY <1>1 DEF RegisteredAdapter, Source, Data

\* The zone and the panel are FEMA's, or none.
LEMMA FloodType ==
    ASSUME NEW zones \in _query, NEW panels \in _query
    PROVE  /\ flood(zones, panels) \in
                [zones : _query, panels : _query, zone : County, panel : County]
           /\ RightCounty(flood(zones, panels))
<1>1. ASSUME NEW q \in _query, q # <<>> PROVE q[1] \in County
  BY <1>1 DEF _query, County
<1>2. ASSUME NEW q \in _query, NEW c \in County PROVE _pick_by_prefix(q, c) \in County
  BY <1>1, <1>2 DEF _pick_by_prefix, County
<1> DEFINE prefix == IF run.ctx.fips THEN "own"
                     ELSE IF zones = <<>> THEN None ELSE zones[1]
<1>3. prefix \in County
  BY <1>1 DEF County
<1>4. flood(zones, panels) = [zones |-> zones, panels |-> panels,
                              zone |-> _pick_by_prefix(zones, prefix),
                              panel |-> _pick_by_prefix(panels, prefix)]
  BY DEF flood
<1>5. ASSUME NEW q \in _query, NEW c PROVE In(q, c) => _pick_by_prefix(q, c) = c
  BY <1>5 DEF In, _pick_by_prefix, _query
<1> DEFINE f == flood(zones, panels)
<1>6. /\ f.zones = zones /\ f.zone = _pick_by_prefix(zones, prefix)
      /\ f.panels = panels /\ f.panel = _pick_by_prefix(panels, prefix)
  BY <1>4
<1> HIDE DEF f
<1>7. run.ctx.fips => RightCounty(flood(zones, panels))
  <2> HAVE run.ctx.fips
  <2>1. prefix = "own"
    OBVIOUS
  <2>2. /\ In(f.zones, "own") => f.zone = "own"
        /\ In(f.panels, "own") => f.panel = "own"
    <3> HIDE DEF prefix
    <3>1. QED
      BY <1>5, <1>6, <2>1
  <2>3. QED
    BY <2>2 DEF RightCounty, f
<1>8. ~run.ctx.fips => RightCounty(flood(zones, panels))
  <2> HAVE ~run.ctx.fips
  <2>1. _pick_by_prefix(zones, prefix) = prefix
    <3>1. CASE zones = <<>>
      BY <3>1 DEF _pick_by_prefix
    <3>2. CASE zones # <<>>
      <4>1. 1 \in DOMAIN zones /\ prefix = zones[1]
        BY <3>2 DEF _query
      <4>2. QED
        BY <4>1, <3>2 DEF _pick_by_prefix
    <3>3. QED
      BY <3>1, <3>2
  <2>2. In(f.panels, f.zone) => f.panel = f.zone
    <3> HIDE DEF prefix
    <3>1. QED
      BY <1>5, <1>6, <2>1
  <2>3. QED
    BY <2>2 DEF RightCounty, f
<1>9. flood(zones, panels) \in [zones : _query, panels : _query, zone : County, panel : County]
  <2> HIDE DEF prefix
  <2>1. QED
    BY <1>2, <1>3, <1>4
<1>10. QED
  BY <1>7, <1>8, <1>9

\* Which adapter answers for a step that was not replaced.
LEMMA BuiltIn ==
    ASSUME ~Plugged
    PROVE  /\ Key = "parcel" => ADAPTERS = ParcelAdapter
           /\ Key = "appraiser" => ADAPTERS = AppraiserAdapter
           /\ Key = "deed" => ADAPTERS = ClerkAdapter("deed", "Deed.pdf")
           /\ Key = "plat" => ADAPTERS = ClerkAdapter("plat", "Plat.pdf")
           /\ Key = "flood" => ADAPTERS = FloodAdapter
           /\ Key = "benchmarks" => ADAPTERS = NgsAdapter
           /\ Key \notin {"parcel", "appraiser", "deed", "plat", "flood", "benchmarks"}
                => ADAPTERS \in {_attempt_clerk_adapter, {Link}}
  BY DEF ADAPTERS, CLERK, DeedAdapter, PlatAdapter, GloAdapter, ZoningAdapter

\* Whatever an adapter returns has the shape of a source, and without a
\* confirmed parcel the built-in ones of the parcel's documents return no file.
LEMMA AdapterReturns ==
    ASSUME Core, CacheInv, Fetching, NEW fs \in ADAPTERS
    PROVE  /\ fs \in Source
           /\ ~run.ctx.ok /\ Key \in OfParcel \ run.plugged => fs.files = {}
           /\ fs.data # None => RightCounty(fs.data)
<1>1. CASE Plugged
  <2>1. ADAPTERS = RegisteredAdapter
    BY <1>1 DEF ADAPTERS
  <2>2. QED
    BY <1>1, <2>1, RegisteredReturns DEF Plugged
<1>2. CASE ~Plugged /\ Key = "parcel"
  <2>1. fs \in ParcelAdapter
    BY <1>2, BuiltIn
  <2>2. CASE run.ctx.ok
    <3>1. fs \in {FetchedSource("ok", g, g) : g \in Saved("Parcel_Record.html")}
      BY <2>1, <2>2 DEF ParcelAdapter, save_parcel_record
    <3>2. QED
      BY <3>1, <2>2, OkSource DEF File
  <2>3. CASE ~run.ctx.ok
    <3>1. fs = [Link EXCEPT !.review = run.ctx.buffered] /\ run.ctx.buffered \in BOOLEAN
      BY <2>1, <2>3, CasesAssumption DEF ParcelAdapter, Core
    <3>2. fs \in Source /\ fs.files = Link.files /\ fs.data = Link.data
      BY <3>1, LinkType DEF Source
    <3>3. QED
      BY <3>2, LinkType
  <2>4. QED
    BY <2>2, <2>3
<1>3. CASE ~Plugged /\ Key = "appraiser"
  <2>1. fs \in AppraiserAdapter
    BY <1>3, BuiltIn
  <2>2. CASE run.ctx.ok
    <3>1. fs \in {FetchedSource("ok", g, g) : g \in Saved("Property_Appraiser.html")}
      BY <2>1, <2>2 DEF AppraiserAdapter, save_appraiser_record
    <3>2. QED
      BY <3>1, <2>2, OkSource DEF File
  <2>3. CASE ~run.ctx.ok
    BY <2>1, <2>3, LinkType DEF AppraiserAdapter
  <2>4. QED
    BY <2>2, <2>3
<1>4. CASE ~Plugged /\ Key \in {"deed", "plat"}
  <2>1. PICK doc \in {"deed", "plat"}, file \in File : fs \in ClerkAdapter(doc, file)
    BY <1>4, BuiltIn DEF File
  <2> DEFINE f == IF cache[1][doc] = None THEN {} ELSE {file}
  <2>2. fs = FetchedSource("ok", f, f)
    BY <2>1 DEF ClerkAdapter
  <2>3. f \in SUBSET File
    BY <2>1, NoFile, OneFile
  <2>4. ~run.ctx.ok => cache[1][doc] = None
    <3>1. cache # <<>>
      BY <1>4 DEF Fetching, NeedsScrape, CLERK
    <3>2. ~run.ctx.ok => cache = <<NoResult>>
      BY <3>1 DEF CacheInv
    <3>3. NoResult[doc] = None
      BY <2>1 DEF NoResult
    <3>4. QED
      BY <3>2, <3>3
  <2>5. ~run.ctx.ok => f = {}
    BY <2>4
  <2> HIDE DEF f
  <2>6. fs \in Source /\ fs.files = f /\ fs.data = None
    BY <2>2, <2>3, SourceType
  <2>7. QED
    BY <2>5, <2>6
<1>5. CASE ~Plugged /\ Key = "flood"
  <2>1. fs \in FloodAdapter
    BY <1>5, BuiltIn
  <2>2. \E d \in Data : RightCounty(d) /\ fs \in {Flood(d, map, report) : map \in save_flood_map,
                                                        report \in save_flood_report(d)}
    BY <2>1, FloodType DEF FloodAdapter, Data
  <2>3. PICK d \in Data : RightCounty(d) /\ fs \in {Flood(d, map, report) : map \in save_flood_map,
                                                        report \in save_flood_report(d)}
    BY <2>2
  <2>4. \E map \in {{}, {"Flood_Map.png"}}, report \in {{}, {"FEMA_Flood_Report.html"}} :
             fs = Flood(d, map, report)
    BY <2>3 DEF save_flood_map, save_flood_report, Saved
  <2>5. PICK map \in {{}, {"Flood_Map.png"}}, report \in {{}, {"FEMA_Flood_Report.html"}} :
             fs = Flood(d, map, report)
    BY <2>4
  <2> DEFINE status == IF d.zone # None \/ map # {} THEN "ok" ELSE "link"
             f == IF report # {} THEN report ELSE map
  <2>6. status \in {"ok", "link", "empty"}
    OBVIOUS
  <2>7. f \in SUBSET File /\ map \cup report \in SUBSET File
    BY <2>5 DEF File
  <2>8. fs = [FetchedSource(status, f, map \cup report) EXCEPT !.data = d]
    BY <2>5 DEF Flood
  <2> HIDE DEF status, f
  <2>9. fs \in Source
    <3>1. FetchedSource(status, f, map \cup report) \in Source
      BY <2>6, <2>7, SourceType
    <3>2. QED
      BY <2>3, <2>8, <3>1, SourceWithData
  <2>10. fs.data = d
    BY <2>8 DEF FetchedSource
  <2>11. QED
    BY <1>5, <2>3, <2>9, <2>10 DEF OfParcel
<1>6. CASE ~Plugged /\ Key = "benchmarks"
  <2>1. fs \in NgsAdapter
    BY <1>6, BuiltIn
  <2>2. PICK status \in {"ok", "empty"}, f \in SUBSET {"NGS_1", "NGS_2"} :
             fs = FetchedSource(status, f, f)
    BY <2>1 DEF NgsAdapter, download_ngs_datasheets, benchmarks
  <2>3. f \in SUBSET File
    BY <2>2 DEF File
  <2>4. fs \in Source /\ fs.data = None
    BY <2>2, <2>3, SourceType
  <2>5. QED
    BY <1>6, <2>4 DEF OfParcel
<1>7. CASE ~Plugged /\ Key \notin {"parcel", "appraiser", "deed", "plat", "flood", "benchmarks"}
  <2>1. fs = FetchedSource("ok", {}, {}) \/ fs = Link
    BY <1>7, BuiltIn DEF _attempt_clerk_adapter
  <2>2. QED
    BY <1>7, <2>1, SourceType, LinkType, NoFile DEF OfParcel
<1>8. QED
  BY <1>1, <1>2, <1>3, <1>4, <1>5, <1>6, <1>7

LEMMA FallbackReturns ==
    ASSUME NEW fs \in Fallbacks
    PROVE  fs \in Source /\ fs.data = None /\ (~Plugged => fs.files = {})
  BY RegisteredReturns, LinkType DEF Fallbacks

-----------------------------------------------------------------------------
(* Steps *)

\* One more step keeps the invariant, if it has no file it should not have.
LEMMA AssembleStep ==
    ASSUME PipeInv, at \in 1..12, NEW fs \in Source, NEW outcome \in SourceOutcome,
           NEW error \in {None} \cup Code, NEW confidence \in Confidence,
           _assemble(fs, outcome, error, confidence),
           pl # "scraping",
           ~run.ctx.ok /\ Key \in OfParcel \ run.plugged => fs.files = {},
           fs.data # None => RightCounty(fs.data)
    PROVE  PipeInv'
<1> DEFINE s == [key |-> Key, status |-> fs.status, files |-> fs.files,
                 data |-> fs.data, outcome |-> outcome, error |-> error,
                 confidence |-> confidence]
<1>1. s \in Step /\ s.key = Key /\ s.files = fs.files /\ s.data = fs.data
  BY KeyType DEF Step, Source
<1>2. /\ steps' = Append(steps, s) /\ at' = at + 1 /\ pl' = "next"
      /\ UNCHANGED <<run, cache, calls>>
  BY DEF _assemble
<1> HIDE DEF s
<1>3. steps' \in Seq(Step) /\ Core'
  BY <1>1, <1>2 DEF PipeInv, Core
<1>4. CacheInv'
  BY <1>2 DEF PipeInv, CacheInv
<1>5. NoFiles' /\ CountyInv'
  <2>1. \A i \in DOMAIN steps' : steps'[i] = IF i = Len(steps) + 1 THEN s ELSE steps[i]
    BY <1>1, <1>2 DEF PipeInv, Core
  <2>2. \A i \in DOMAIN steps' : i = Len(steps) + 1 \/ i \in DOMAIN steps
    BY <1>1, <1>2 DEF PipeInv, Core
  <2>3. QED
    BY <1>1, <1>2, <2>1, <2>2 DEF PipeInv, NoFiles, CountyInv, RightCounty
<1>6. QED
  BY <1>3, <1>4, <1>5 DEF PipeInv

\* A step that leaves the steps and the cache alone.
LEMMA QuietStep ==
    ASSUME PipeInv, Core', UNCHANGED <<run, cache, calls, steps>>,
           pl' = "scraping" => pl = "scraping", pl = "scraping" => pl' = "scraping"
    PROVE  PipeInv'
  BY DEF PipeInv, CacheInv, NoFiles, CountyInv, RightCounty

LEMMA DefaultConfidence ==
    ASSUME NEW fs \in Source
    PROVE  _default_confidence(fs) \in Confidence /\ _outcome_for(fs) \in SourceOutcome
<1> DEFINE table == [ok |-> "high", empty |-> "medium", link |-> "low"]
<1>1. fs.status = "ok" \/ fs.status = "link" \/ fs.status = "empty"
  BY DEF Source
<1>2. table.ok = "high" /\ table.link = "low" /\ table.empty = "medium"
  OBVIOUS
<1>3. table[fs.status] = table.ok \/ table[fs.status] = table.link \/ table[fs.status] = table.empty
  BY <1>1, Zenon
<1>4. table[fs.status] \in {"high", "low", "medium"}
  BY <1>2, <1>3
<1> HIDE DEF table
<1>5. _default_confidence(fs) \in Confidence
  <2>1. _default_confidence(fs) \in {"low", "medium", table[fs.status]}
    BY DEF _default_confidence, table
  <2>2. QED
    BY <1>4, <2>1 DEF Confidence
<1>6. _outcome_for(fs) \in SourceOutcome
  BY DEF _outcome_for, SourceOutcome
<1>7. QED
  BY <1>5, <1>6

LEMMA PipeStep == PipeInv /\ [Next]_vars => PipeInv'
<1> SUFFICES ASSUME PipeInv, [Next]_vars PROVE PipeInv'
  OBVIOUS
<1>0. Len(RESIDENTIAL_DOCS) = 12
  BY DEF RESIDENTIAL_DOCS
<1>1. CASE build_steps
  <2>1. /\ pl = "next" /\ at <= 12 /\ UNCHANGED <<run, cache, calls, raised, steps>>
        /\ (pl' = "fetch" /\ at' = at) \/ (pl' = "next" /\ at' = at + 1)
    BY <1>0, <1>1 DEF build_steps
  <2>2. Core'
    BY <2>1 DEF PipeInv, Core
  <2>3. QED
    BY <2>1, <2>2, QuietStep
<1>2. CASE _scrape_documents
  <2>1. pl = "fetch" /\ cache = <<>> /\ UNCHANGED <<run, at, raised, steps>>
    BY <1>2 DEF _scrape_documents, NotCached
  <2>2. CASE Scrapes
    <3>1. pl' = "scraping" /\ calls' = calls + 1 /\ UNCHANGED cache /\ run.ctx.ok
      BY <1>2, <2>2 DEF _scrape_documents, Scrapes
    <3>2. calls = 0
      BY <2>1 DEF PipeInv, CacheInv
    <3>3. QED
      BY <2>1, <3>1, <3>2 DEF PipeInv, Core, CacheInv, NoFiles, CountyInv, RightCounty
  <2>3. CASE ~Scrapes
    <3>1. cache' = <<NoResult>> /\ UNCHANGED <<pl, calls>>
      BY <1>2, <2>3 DEF _scrape_documents
    <3>2. QED
      BY <2>1, <3>1 DEF PipeInv, Core, CacheInv, NoFiles, CountyInv, RightCounty
  <2>4. QED
    BY <2>2, <2>3
<1>3. CASE Scrape
  <2>1. CASE UNCHANGED pipeVars
    BY <2>1 DEF pipeVars, PipeInv, Core, CacheInv, NoFiles, CountyInv, RightCounty
  <2>2. CASE cache' = <<result>> /\ pl' = "fetch" /\ UNCHANGED <<run, at, calls, raised, steps>>
    <3>1. pl = "scraping"
      BY <1>3 DEF Scrape
    <3>2. cache' # <<>>
      BY <2>2
    <3>3. QED
      BY <2>2, <3>1, <3>2 DEF PipeInv, Core, CacheInv, NoFiles, CountyInv, RightCounty
  <2>3. QED
    BY <1>3, <2>1, <2>2 DEF Scrape
<1>4. CASE _run_one
  <2>1. Fetching /\ pl = "fetch" /\ at \in 1..12
    BY <1>4 DEF _run_one, Fetching, PipeInv, Core
  <2>2. ASSUME NEW fs \in ADAPTERS, _assemble(fs, _outcome_for(fs), None, _default_confidence(fs))
        PROVE  PipeInv'
    <3>1. /\ fs \in Source /\ (fs.data # None => RightCounty(fs.data))
          /\ ~run.ctx.ok /\ Key \in OfParcel \ run.plugged => fs.files = {}
      BY <2>1, AdapterReturns DEF PipeInv
    <3>2. QED
      BY <2>1, <2>2, <3>1, AssembleStep, DefaultConfidence
  <2>3. ASSUME NEW e \in Raises, raised' = e, pl' = "fallback", UNCHANGED <<run, at, cache, calls, steps>>
        PROVE  PipeInv'
    <3>1. e \in Raised
      <4>1. ASSUME NEW c \in classify_exception PROVE Exception(FALSE, c) \in Raised
        BY <4>1 DEF Exception, classify_exception, Raised, SourceOutcome, Code
      <4>2. [source : {TRUE}, outcome : SourceOutcome, code : {"", "PARCEL_NOT_FOUND"}]
              \subseteq Raised
        BY DEF Raised, Code
      <4>3. QED
        BY <2>3, <4>1, <4>2 DEF Raises
    <3>2. Core'
      BY <2>1, <2>3, <3>1 DEF PipeInv, Core
    <3>3. QED
      BY <2>1, <2>3, <3>2, QuietStep
  <2>4. QED
    BY <1>4, <2>2, <2>3 DEF _run_one
<1>5. CASE Fallback
  <2>1. pl = "fallback" /\ at \in 1..12 /\ raised \in Raised
    BY <1>5 DEF Fallback, PipeInv, Core
  <2>0. raised.outcome \in SourceOutcome /\ ErrorInfo(raised) \in {None} \cup Code
    BY <2>1 DEF Raised, ErrorInfo, _code_for, Code
  <2>2. ASSUME NEW fs \in Fallbacks, _assemble(fs, raised.outcome, ErrorInfo(raised), "none")
        PROVE  PipeInv'
    <3>1. fs \in Source /\ fs.data = None /\ (~Plugged => fs.files = {})
      BY FallbackReturns
    <3>2. QED
      BY <2>0, <2>1, <2>2, <3>1, AssembleStep DEF Plugged, Confidence
  <2>3. CASE _assemble(Link, raised.outcome, ErrorInfo(raised), "none")
    BY <2>0, <2>1, <2>3, LinkType, AssembleStep DEF Confidence
  <2>4. CASE /\ Plugged /\ raised.source /\ pl' = "escaped"
             /\ UNCHANGED <<run, at, cache, calls, raised, steps>>
    <3>1. Core'
      BY <2>4 DEF PipeInv, Core
    <3>2. QED
      BY <2>1, <2>4, <3>1, QuietStep
  <2>5. QED
    BY <1>5, <2>2, <2>3, <2>4 DEF Fallback
<1>6. CASE FetchedDocument \/ Return
  <2>1. /\ pl = "next" /\ pl' \in {"next", "done"}
        /\ UNCHANGED <<run, at, cache, calls, raised, steps>>
    BY <1>6 DEF FetchedDocument, Return
  <2>2. Core'
    BY <2>1 DEF PipeInv, Core
  <2>3. QED
    BY <2>1, <2>2, QuietStep
<1>7. CASE Done \/ UNCHANGED vars
  BY <1>7 DEF Done, vars, pipeVars, PipeInv, Core, CacheInv, NoFiles, CountyInv, RightCounty
<1>8. QED
  BY <1>1, <1>2, <1>3, <1>4, <1>5, <1>6, <1>7 DEF Next

LEMMA PipeInvHolds == Spec => []PipeInv
<1>1. Init => PipeInv
  BY DEF Init, PipeInv, Core, CacheInv, NoFiles, CountyInv, RightCounty
<1>2. QED
  BY <1>1, PipeStep, PTL DEF Spec

\* _scrape_documents: the portal is driven at most once per run, also when the
\* scrape failed or found nothing.
THEOREM OneScrape == Spec => []ScrapedOnce
<1>1. PipeInv => ScrapedOnce
  BY DEF PipeInv, CacheInv, ScrapedOnce
<1>2. QED
  BY <1>1, PipeInvHolds, PTL

\* parcel_ok guards every use of the parcel: without it no clerk is searched and
\* no built-in adapter of a parcel document keeps a file.
THEOREM UnconfirmedReachesNothing == Spec => []UnconfirmedNeverUsed
<1>1. PipeInv => UnconfirmedNeverUsed
  BY DEF PipeInv, CacheInv, NoFiles, CountyInv, OfParcel, UnconfirmedNeverUsed
<1>2. QED
  BY <1>1, PipeInvHolds, PTL

\* fema.flood: a zone or panel of the parcel's county is taken before one of the
\* neighbour's; without a county, zone and panel agree where they can.
THEOREM FloodOfTheCounty == Spec => []FloodIsOfTheCounty
<1>1. PipeInv => FloodIsOfTheCounty
  BY DEF PipeInv, CountyInv, RightCounty, In, FloodIsOfTheCounty
<1>2. QED
  BY <1>1, PipeInvHolds, PTL

-----------------------------------------------------------------------------
(* The trail of a run: its steps, their files, its documents *)

\* The steps of the reference set that have been passed.
Passed == {RESIDENTIAL_DOCS[i] : i \in 1..(at - 1)}

InOrder(k, l) == \E a, b \in 1..12 : a < b /\ k = RESIDENTIAL_DOCS[a] /\ l = RESIDENTIAL_DOCS[b]

\* One step for every wanted document that was passed, in order.
KeysInv ==
    /\ {steps[i].key : i \in DOMAIN steps} = run.include \cap Passed
    /\ IsFiniteSet(run.include \cap Passed)
    /\ Len(steps) = Cardinality(run.include \cap Passed)
    /\ pl \in {"fetch", "scraping", "fallback"} => Key \in run.include
    /\ \A i, j \in DOMAIN steps : i < j => InOrder(steps[i].key, steps[j].key)

OwnFiles(key, files) ==
    \A f \in files : /\ (f = "Deed.pdf") = (key = "deed")
                     /\ (f = "Plat.pdf") = (key = "plat")

\* The files of a step of a built-in adapter are logged and its own; when the
\* source failed there are none.
Sound(s) ==
    s.key \notin run.plugged =>
        /\ s.files \subseteq manifest
        /\ OwnFiles(s.key, s.files)
        /\ s.error # None => s.status = "link" /\ s.files = {}

SoundInv == \A i \in DOMAIN steps : Sound(steps[i])

DocumentsOf(s) == IF s.key \in STEP_TO_DOC_TYPE THEN _upload_artifact(s) ELSE {None}

\* The documents are made once every step is there.
OutInv ==
    /\ out \in Seq(Document \cup {None})
    /\ Len(out) <= Len(steps)
    /\ out # <<>> \/ pl = "done" => at = 13 /\ pl \in {"next", "done"}
    /\ pl = "done" => Len(out) = Len(steps)
    /\ \A i \in DOMAIN out : out[i] \in DocumentsOf(steps[i])

TrailInv == KeysInv /\ SoundInv /\ OutInv

\* No document of the reference set is there twice.
LEMMA Distinct ==
    \A i, j \in 1..12 : RESIDENTIAL_DOCS[i] = RESIDENTIAL_DOCS[j] => i = j
  BY DEF RESIDENTIAL_DOCS

\* A built-in adapter returns files of its own and logs them.
LEMMA AdapterFiles ==
    ASSUME Core, CacheInv, Fetching, ~Plugged, NEW fs \in ADAPTERS
    PROVE  fs.files \subseteq fs.logged /\ OwnFiles(Key, fs.files)
<1>0. ASSUME NEW status, NEW f, fs = FetchedSource(status, f, f)
      PROVE  fs.files = f /\ fs.logged = f
  BY <1>0 DEF FetchedSource
<1>2. CASE ~Plugged /\ Key = "parcel"
  <2>1. fs \in ParcelAdapter
    BY <1>2, BuiltIn
  <2>2. CASE run.ctx.ok
    <3>1. PICK f \in {{}, {"Parcel_Record.html"}} : fs = FetchedSource("ok", f, f)
      BY <2>1, <2>2 DEF ParcelAdapter, save_parcel_record, Saved
    <3>2. QED
      BY <1>0, <1>2, <3>1 DEF OwnFiles
  <2>3. CASE ~run.ctx.ok
    <3>1. fs = [Link EXCEPT !.review = run.ctx.buffered]
      BY <2>1, <2>3 DEF ParcelAdapter
    <3>2. fs.files = {}
      BY <3>1 DEF Link, FetchedSource
    <3>3. QED
      BY <3>2 DEF OwnFiles
  <2>4. QED
    BY <2>2, <2>3
<1>3. CASE ~Plugged /\ Key = "appraiser"
  <2>1. fs \in AppraiserAdapter
    BY <1>3, BuiltIn
  <2>2. \E status, f : f \in {{}, {"Property_Appraiser.html"}} /\ fs = FetchedSource(status, f, f)
    BY <2>1 DEF AppraiserAdapter, save_appraiser_record, Saved, Link
  <2>3. QED
    BY <1>0, <1>3, <2>2 DEF OwnFiles
<1>4. CASE ~Plugged /\ Key = "deed"
  <2>1. \E f : f \in {{}, {"Deed.pdf"}} /\ fs = FetchedSource("ok", f, f)
    BY <1>4, BuiltIn DEF ClerkAdapter
  <2>2. QED
    BY <1>0, <1>4, <2>1 DEF OwnFiles
<1>5. CASE ~Plugged /\ Key = "plat"
  <2>1. \E f : f \in {{}, {"Plat.pdf"}} /\ fs = FetchedSource("ok", f, f)
    BY <1>5, BuiltIn DEF ClerkAdapter
  <2>2. QED
    BY <1>0, <1>5, <2>1 DEF OwnFiles
<1>6. CASE ~Plugged /\ Key = "flood"
  <2>1. fs \in FloodAdapter
    BY <1>6, BuiltIn
  <2>2. \E d : fs \in {Flood(d, map, report) : map \in save_flood_map,
                                               report \in save_flood_report(d)}
    BY <2>1 DEF FloodAdapter
  <2>3. PICK d : fs \in {Flood(d, map, report) : map \in save_flood_map,
                                                 report \in save_flood_report(d)}
    BY <2>2
  <2>4. PICK map \in {{}, {"Flood_Map.png"}}, report \in {{}, {"FEMA_Flood_Report.html"}} :
             fs = Flood(d, map, report)
    BY <2>3 DEF save_flood_map, save_flood_report, Saved
  <2>5. /\ fs.files = IF report # {} THEN report ELSE map
        /\ fs.logged = map \cup report
    BY <2>4 DEF Flood, FetchedSource
  <2>6. QED
    BY <1>6, <2>4, <2>5 DEF OwnFiles
<1>7. CASE ~Plugged /\ Key = "benchmarks"
  <2>1. fs \in NgsAdapter
    BY <1>7, BuiltIn
  <2>2. \E status, f : f \in SUBSET {"NGS_1", "NGS_2"} /\ fs = FetchedSource(status, f, f)
    BY <2>1 DEF NgsAdapter, download_ngs_datasheets, benchmarks
  <2>3. QED
    BY <1>0, <1>7, <2>2 DEF OwnFiles
<1>8. CASE ~Plugged /\ Key \notin {"parcel", "appraiser", "deed", "plat", "flood", "benchmarks"}
  <2>1. \E status : fs = FetchedSource(status, {}, {})
    BY <1>8, BuiltIn DEF _attempt_clerk_adapter, Link
  <2>2. QED
    BY <1>0, <2>1 DEF OwnFiles
<1>9. QED
  BY <1>2, <1>3, <1>4, <1>5, <1>6, <1>7, <1>8

\* A built-in fallback is a link.
LEMMA FallbackFiles ==
    ASSUME ~Plugged, NEW fs \in Fallbacks
    PROVE  fs.status = "link" /\ fs.files = {}
  BY DEF Fallbacks, Link, FetchedSource

\* One more step keeps the trail.
LEMMA AssembleTrail ==
    ASSUME PipeInv, TrailInv, at \in 1..12, pl \in {"fetch", "fallback"}, NEW fs \in Source,
           NEW outcome, NEW error, NEW confidence,
           _assemble(fs, outcome, error, confidence),
           ~Plugged => /\ fs.files \subseteq fs.logged
                       /\ OwnFiles(Key, fs.files)
                       /\ error # None => fs.status = "link" /\ fs.files = {}
    PROVE  TrailInv'
<1> DEFINE s == [key |-> Key, status |-> fs.status, files |-> fs.files,
                 data |-> fs.data, outcome |-> outcome, error |-> error,
                 confidence |-> confidence]
           n == Len(steps)
<1>1. /\ s.key = Key /\ s.files = fs.files /\ s.status = fs.status
      /\ s.outcome = outcome /\ s.error = error
  OBVIOUS
<1>2. /\ steps' = Append(steps, s) /\ at' = at + 1 /\ pl' = "next"
      /\ manifest' = manifest \cup fs.logged /\ UNCHANGED <<run, out>>
  BY DEF _assemble
<1> HIDE DEF s
<1>3. /\ DOMAIN steps = 1..n /\ n \in Nat /\ Len(steps') = n + 1
      /\ DOMAIN steps' = 1..(n + 1) /\ steps'[n + 1] = s
      /\ \A i \in 1..n : steps'[i] = steps[i]
  BY <1>2 DEF PipeInv, Core
<1> HIDE DEF n
<1>4. Key \in run.include /\ Key \notin Passed
  <2>1. Key \in run.include
    BY DEF TrailInv, KeysInv
  <2>2. Key \notin Passed
    BY Distinct DEF Passed, Key
  <2>3. QED
    BY <2>1, <2>2
<1>5. Passed' = Passed \cup {Key}
  BY <1>2 DEF Passed, Key
<1>6. KeysInv'
  <2> DEFINE wanted == run.include \cap Passed
  <2>1. (run.include \cap Passed)' = wanted \cup {Key}
    BY <1>2, <1>4, <1>5
  <2>2. {steps[i].key : i \in 1..n} = wanted /\ IsFiniteSet(wanted) /\ n = Cardinality(wanted)
    BY <1>3 DEF TrailInv, KeysInv, n
  <2>3. {steps'[i].key : i \in 1..(n + 1)} = wanted \cup {Key}
    <3>1. \A i \in 1..(n + 1) : i \in 1..n \/ i = n + 1
      BY <1>3
    <3>2. \A i \in 1..n : i \in 1..(n + 1)
      BY <1>3
    <3>3. n + 1 \in 1..(n + 1)
      BY <1>3
    <3> HIDE DEF wanted
    <3>4. QED
      BY <1>1, <1>3, <2>2, <3>1, <3>2, <3>3
  <2>4. IsFiniteSet(wanted \cup {Key}) /\ Cardinality(wanted \cup {Key}) = n + 1
    <3>1. Key \notin wanted
      BY <1>4
    <3> HIDE DEF wanted
    <3>2. QED
      BY <2>2, <3>1, FS_AddElement
  <2>5. ASSUME NEW i \in 1..(n + 1), NEW j \in 1..(n + 1), i < j
        PROVE  InOrder(steps'[i].key, steps'[j].key)
    <3>1. CASE j = n + 1
      <4>1. i \in 1..n /\ steps'[i] = steps[i] /\ steps'[j].key = Key
        BY <1>1, <1>3, <2>5, <3>1
      <4>2. steps[i].key \in Passed
        BY <2>2, <4>1
      <4>3. PICK a \in 1..(at - 1) : steps[i].key = RESIDENTIAL_DOCS[a]
        BY <4>2 DEF Passed
      <4>4. QED
        BY <4>1, <4>3 DEF Key, InOrder
    <3>2. CASE j # n + 1
      <4>1. i \in 1..n /\ j \in 1..n
        BY <1>3, <2>5, <3>2
      <4>2. QED
        BY <1>3, <2>5, <4>1 DEF TrailInv, KeysInv
    <3>3. QED
      BY <3>1, <3>2
  <2> HIDE DEF wanted
  <2>6. \A i, j \in DOMAIN steps' : i < j => InOrder(steps'[i].key, steps'[j].key)
    BY <1>3, <2>5
  <2>7. QED
    BY <1>2, <1>3, <2>1, <2>3, <2>4, <2>6 DEF KeysInv, InOrder
<1>7. SoundInv'
  <2>1. ASSUME NEW i \in 1..(n + 1) PROVE Sound(steps[i])'
    <3>1. CASE i = n + 1
      <4>1. steps'[i] = s
        BY <1>3, <3>1
      <4>2. s.key \notin run.plugged => s.files \subseteq manifest'
        BY <1>1, <1>2 DEF Plugged
      <4>3. s.key \notin run.plugged =>
              /\ OwnFiles(s.key, s.files)
              /\ s.error # None => s.status = "link" /\ s.files = {}
        BY <1>1 DEF Plugged
      <4>4. QED
        BY <1>2, <4>1, <4>2, <4>3 DEF Sound, OwnFiles
    <3>2. CASE i # n + 1
      <4>1. i \in 1..n /\ steps'[i] = steps[i]
        BY <1>3, <3>2
      <4>2. Sound(steps[i])
        BY <1>3, <4>1 DEF TrailInv, SoundInv
      <4>3. QED
        BY <1>2, <4>1, <4>2 DEF Sound, OwnFiles
    <3>3. QED
      BY <3>1, <3>2
  <2>2. QED
    BY <1>2, <1>3, <2>1 DEF SoundInv
<1>8. OutInv'
  <2>1. out = <<>>
    BY DEF TrailInv, OutInv
  <2>2. QED
    BY <1>2, <1>3, <2>1 DEF TrailInv, OutInv
<1>9. QED
  BY <1>6, <1>7, <1>8 DEF TrailInv


\* The keys depend on the run, the steps and what was passed.
LEMMA SameKeys ==
    ASSUME PipeInv, KeysInv, UNCHANGED <<run, steps>>,
           (run.include \cap Passed)' = run.include \cap Passed,
           pl' \in {"fetch", "scraping", "fallback"} => Key' \in run.include
    PROVE  KeysInv'
<1>1. \A i, j \in DOMAIN steps : i < j => InOrder(steps[i].key, steps[j].key)
  BY DEF KeysInv
<1>2. (\A i, j \in DOMAIN steps : i < j => InOrder(steps[i].key, steps[j].key))'
  BY <1>1 DEF InOrder
<1>3. QED
  BY <1>2 DEF KeysInv

\* A step between the assembling of two steps leaves the trail alone.
LEMMA QuietTrail ==
    ASSUME PipeInv, TrailInv, UNCHANGED <<run, at, steps, manifest, out>>,
           pl \in {"fetch", "scraping", "fallback"},
           pl' \in {"fetch", "scraping", "fallback", "escaped"}
    PROVE  TrailInv'
<1>1. KeysInv'
  <2>1. Passed' = Passed /\ Key' = Key /\ Key \in run.include
    BY DEF TrailInv, KeysInv, Passed, Key
  <2>2. QED
    BY <2>1, SameKeys DEF TrailInv
<1>2. SoundInv'
  BY DEF TrailInv, SoundInv, Sound, OwnFiles, Plugged, Key
<1>3. OutInv'
  <2>1. at <= 12 /\ out = <<>>
    BY DEF PipeInv, Core, TrailInv, OutInv
  <2>2. QED
    BY <2>1 DEF PipeInv, Core, TrailInv, OutInv
<1>4. QED
  BY <1>1, <1>2, <1>3 DEF TrailInv

\* What a step is mapped to before anything is uploaded.
LEMMA MapStatus ==
    ASSUME NEW s \in Step
    PROVE  /\ s.status = "ok" => Mapped(s).status = "uploaded"
           /\ s.status = "link" => Mapped(s).status = "fetched"
           /\ s.status = "empty" => Mapped(s).status = "skipped"
           /\ Mapped(s).file = None /\ Mapped(s).gone = {}
           /\ Mapped(s).error = IF s.error = None THEN None ELSE _error_code_for(s.outcome, s.error)
           /\ Mapped(s) \in Document
<1> DEFINE table == _map_step_status
<1>1. table.ok = "uploaded" /\ table.link = "fetched" /\ table.empty = "skipped"
  BY DEF _map_step_status
<1>2. /\ s.status = "ok" => table[s.status] = table.ok
      /\ s.status = "link" => table[s.status] = table.link
      /\ s.status = "empty" => table[s.status] = table.empty
  BY Zenon
<1>3. s.status = "ok" \/ s.status = "link" \/ s.status = "empty"
  BY DEF Step
<1> DEFINE e == IF s.error = None THEN None ELSE _error_code_for(s.outcome, s.error)
<1>4. e \in ResearchErrorCode \cup {None}
  BY DEF _error_code_for, ResearchErrorCode
<1>5. Mapped(s) = [status |-> table[s.status], file |-> None, error |-> e, gone |-> {}]
  BY DEF Mapped
<1> HIDE DEF table
<1>6. /\ s.status = "ok" => table[s.status] = "uploaded"
      /\ s.status = "link" => table[s.status] = "fetched"
      /\ s.status = "empty" => table[s.status] = "skipped"
  BY <1>1, <1>2
<1> DEFINE st == table[s.status]
<1> HIDE DEF st
<1>7. st \in {"uploaded", "fetched", "skipped", "failed"}
  BY <1>3, <1>6 DEF st
<1>8. Mapped(s) = [status |-> st, file |-> None, error |-> e, gone |-> {}]
  BY <1>5 DEF st
<1>9. Mapped(s).status = st /\ Mapped(s).file = None /\ Mapped(s).error = e /\ Mapped(s).gone = {}
  BY <1>8
<1>10. Mapped(s) \in Document
  BY <1>4, <1>7, <1>8 DEF Document
<1>11. QED
  BY <1>6, <1>9, <1>10 DEF st

\* The document of a step that is not ok is as mapped; that of one that is has
\* one of the files on disk, no file where there is none, or a failed upload.
LEMMA UploadReturns ==
    ASSUME NEW s \in Step, NEW d \in _upload_artifact(s)
    PROVE  /\ d \in Document
           /\ \/ s.status # "ok" /\ d = Mapped(s)
              \/ /\ s.status = "ok" /\ s.files \subseteq d.gone
                 /\ d.file = None /\ d.status = "uploaded"
              \/ /\ s.status = "ok" /\ d.file \in s.files \ d.gone
                 /\ d.status = "uploaded"
              \/ /\ s.status = "ok" /\ d.status = "failed" /\ d.file = None
                 /\ d.error = "S3_UPLOAD_FAILED"
<1>1. CASE s.status # "ok"
  BY <1>1, MapStatus DEF _upload_artifact
<1>2. CASE s.status = "ok"
  <2>1. PICK gone \in SUBSET s.files :
          LET left == s.files \ gone
              doc  == [Mapped(s) EXCEPT !.gone = gone]
          IN  d \in IF left = {} THEN {doc}
                    ELSE {[doc EXCEPT !.file = f] : f \in left}
                         \cup {[doc EXCEPT !.status = "failed", !.error = "S3_UPLOAD_FAILED"]}
    BY <1>2 DEF _upload_artifact
  <2> DEFINE doc == [Mapped(s) EXCEPT !.gone = gone]
  <2>2. gone \in SUBSET File /\ s.files \subseteq File
    BY DEF Step
  <2>3. /\ doc \in Document /\ doc.gone = gone /\ doc.file = None
        /\ doc.status = "uploaded"
    BY <1>2, <2>2, MapStatus DEF Document
  <2>4. \/ s.files \ gone = {} /\ d = doc
        \/ \E f \in s.files \ gone : d = [doc EXCEPT !.file = f]
        \/ d = [doc EXCEPT !.status = "failed", !.error = "S3_UPLOAD_FAILED"]
    BY <2>1
  <2> HIDE DEF doc
  <2>5. CASE s.files \ gone = {} /\ d = doc
    BY <1>2, <2>3, <2>5
  <2>6. ASSUME NEW f \in s.files \ gone, d = [doc EXCEPT !.file = f]
        PROVE  d \in Document /\ d.file = f /\ d.gone = gone /\ d.status = "uploaded"
    BY <2>2, <2>3, <2>6 DEF Document
  <2>7. ASSUME d = [doc EXCEPT !.status = "failed", !.error = "S3_UPLOAD_FAILED"]
        PROVE  /\ d \in Document /\ d.file = None /\ d.status = "failed"
               /\ d.error = "S3_UPLOAD_FAILED"
    BY <2>3, <2>7 DEF Document, ResearchErrorCode
  <2>8. QED
    BY <1>2, <2>4, <2>5, <2>6, <2>7
<1>3. QED
  BY <1>1, <1>2

LEMMA TrailStep == PipeInv /\ TrailInv /\ [Next]_vars => TrailInv'
<1> SUFFICES ASSUME PipeInv, TrailInv, [Next]_vars PROVE TrailInv'
  OBVIOUS
<1>0. Len(RESIDENTIAL_DOCS) = 12
  BY DEF RESIDENTIAL_DOCS
<1>1. CASE build_steps
  <2>1. /\ pl = "next" /\ at \in 1..12 /\ UNCHANGED <<run, steps, manifest, out>>
        /\ \/ Key \in run.include /\ pl' = "fetch" /\ at' = at
           \/ Key \notin run.include /\ pl' = "next" /\ at' = at + 1
    BY <1>0, <1>1 DEF build_steps, PipeInv, Core
  <2>2. KeysInv'
    <3>1. CASE Key \in run.include
      <4>1. Passed' = Passed /\ Key' = Key
        BY <2>1, <3>1 DEF Passed, Key
      <4>2. QED
        BY <2>1, <3>1, <4>1, SameKeys DEF TrailInv
    <3>2. CASE Key \notin run.include
      <4>1. Passed' = Passed \cup {Key}
        BY <2>1, <3>2 DEF Passed, Key
      <4>2. (run.include \cap Passed)' = run.include \cap Passed
        BY <2>1, <3>2, <4>1
      <4>3. QED
        BY <2>1, <3>2, <4>2, SameKeys DEF TrailInv
    <3>3. QED
      BY <3>1, <3>2
  <2>3. SoundInv'
    BY <2>1 DEF TrailInv, SoundInv, Sound, OwnFiles
  <2>4. OutInv'
    <3>1. out = <<>>
      BY <2>1 DEF TrailInv, OutInv
    <3>2. QED
      BY <2>1, <3>1 DEF TrailInv, OutInv
  <2>5. QED
    BY <2>2, <2>3, <2>4 DEF TrailInv
<1>2. CASE _scrape_documents
  <2>1. /\ pl = "fetch" /\ pl' \in {"fetch", "scraping"}
        /\ UNCHANGED <<run, at, steps, manifest, out>>
    BY <1>2 DEF _scrape_documents
  <2>2. QED
    BY <2>1, QuietTrail
<1>3. CASE Scrape
  <2>1. /\ pl = "scraping" /\ pl' \in {"fetch", "scraping"}
        /\ UNCHANGED <<run, at, steps, manifest, out>>
    BY <1>3 DEF Scrape, pipeVars
  <2>2. QED
    BY <2>1, QuietTrail
<1>4. CASE _run_one
  <2>1. Fetching /\ pl = "fetch" /\ at \in 1..12
    BY <1>4 DEF _run_one, Fetching, PipeInv, Core
  <2>2. ASSUME NEW fs \in ADAPTERS, _assemble(fs, _outcome_for(fs), None, _default_confidence(fs))
        PROVE  TrailInv'
    <3>1. fs \in Source /\ (~Plugged => fs.files \subseteq fs.logged /\ OwnFiles(Key, fs.files))
      BY <2>1, AdapterReturns, AdapterFiles DEF PipeInv
    <3>2. QED
      BY <2>1, <2>2, <3>1, AssembleTrail
  <2>3. ASSUME NEW e \in Raises, raised' = e, pl' = "fallback",
               UNCHANGED <<run, at, steps, manifest, out>>
        PROVE  TrailInv'
    BY <2>1, <2>3, QuietTrail
  <2>4. QED
    BY <1>4, <2>2, <2>3 DEF _run_one
<1>5. CASE Fallback
  <2>1. pl = "fallback" /\ at \in 1..12
    BY <1>5 DEF Fallback, PipeInv, Core
  <2>2. ASSUME NEW fs \in Fallbacks, _assemble(fs, raised.outcome, ErrorInfo(raised), "none")
        PROVE  TrailInv'
    <3>1. /\ fs \in Source
          /\ ~Plugged => fs.status = "link" /\ fs.files = {} /\ OwnFiles(Key, fs.files)
      BY FallbackReturns, FallbackFiles DEF OwnFiles
    <3>2. QED
      BY <2>1, <2>2, <3>1, AssembleTrail
  <2>3. CASE Plugged /\ _assemble(Link, raised.outcome, ErrorInfo(raised), "none")
    BY <2>1, <2>3, LinkType, AssembleTrail
  <2>4. CASE pl' = "escaped" /\ UNCHANGED <<run, at, steps, manifest, out>>
    BY <2>1, <2>4, QuietTrail
  <2>5. QED
    BY <1>5, <2>2, <2>3, <2>4 DEF Fallback
<1>6. CASE FetchedDocument
  <2> DEFINE n == Len(out)
             s == steps[n + 1]
  <2>1. /\ pl = "next" /\ pl' = pl /\ at = 13 /\ n < Len(steps)
        /\ UNCHANGED <<run, at, raised, steps, manifest>>
        /\ \E d \in DocumentsOf(s) : out' = Append(out, d)
    BY <1>0, <1>6 DEF FetchedDocument, DocumentsOf, PipeInv, Core
  <2>2. PICK d \in DocumentsOf(s) : out' = Append(out, d)
    BY <2>1
  <2>3. n \in Nat /\ out \in Seq(Document \cup {None}) /\ DOMAIN out = 1..n
    BY DEF TrailInv, OutInv
  <2>4. n + 1 \in DOMAIN steps /\ s \in Step /\ Len(steps) \in Nat
    BY <2>1, <2>3 DEF PipeInv, Core
  <2>5. d \in Document \cup {None}
    BY <2>2, <2>4, UploadReturns DEF DocumentsOf
  <2>6. /\ out' \in Seq(Document \cup {None}) /\ Len(out') = n + 1 /\ DOMAIN out' = 1..(n + 1)
        /\ out'[n + 1] = d /\ \A i \in 1..n : out'[i] = out[i]
    BY <2>2, <2>3, <2>5
  <2>7. ASSUME NEW i \in 1..(n + 1) PROVE out'[i] \in DocumentsOf(steps[i])
    <3>1. CASE i = n + 1
      BY <2>2, <2>6, <3>1
    <3>2. CASE i # n + 1
      <4>1. i \in DOMAIN out /\ out'[i] = out[i]
        BY <2>3, <2>6, <3>2
      <4>2. QED
        BY <4>1 DEF TrailInv, OutInv
    <3>3. QED
      BY <3>1, <3>2
  <2>8. \A i \in DOMAIN out' : out'[i] \in DocumentsOf(steps'[i])
    BY <2>1, <2>6, <2>7
  <2>9. OutInv'
    BY <2>1, <2>3, <2>4, <2>6, <2>8 DEF OutInv
  <2>10. KeysInv' /\ SoundInv'
    <3>1. Passed' = Passed /\ Key' = Key /\ (pl' = pl \/ pl' = "done")
      BY <2>1 DEF Passed, Key
    <3>2. KeysInv'
      BY <2>1, <3>1, SameKeys DEF TrailInv, KeysInv
    <3>3. SoundInv'
      BY <2>1 DEF TrailInv, SoundInv, Sound, OwnFiles, Plugged, Key
    <3>4. QED
      BY <3>2, <3>3
  <2>11. QED
    BY <2>9, <2>10 DEF TrailInv
<1>7. CASE Return
  <2>1. /\ pl = "next" /\ pl' = "done" /\ at = 13 /\ Len(out) = Len(steps)
        /\ UNCHANGED <<run, at, raised, steps, manifest, out>>
    BY <1>0, <1>7 DEF Return, PipeInv, Core
  <2>2. KeysInv' /\ SoundInv'
    <3>1. Passed' = Passed /\ Key' = Key /\ (pl' = pl \/ pl' = "done")
      BY <2>1 DEF Passed, Key
    <3>2. KeysInv'
      BY <2>1, <3>1, SameKeys DEF TrailInv, KeysInv
    <3>3. SoundInv'
      BY <2>1 DEF TrailInv, SoundInv, Sound, OwnFiles, Plugged, Key
    <3>4. QED
      BY <3>2, <3>3
  <2>3. OutInv'
    BY <2>1 DEF TrailInv, OutInv
  <2>4. QED
    BY <2>2, <2>3 DEF TrailInv
<1>8. CASE Done \/ UNCHANGED vars
  <2>1. UNCHANGED <<run, pl, at, raised, steps, manifest, out>>
    BY <1>8 DEF Done, vars, pipeVars
  <2>2. KeysInv' /\ SoundInv'
    <3>1. Passed' = Passed /\ Key' = Key /\ (pl' = pl \/ pl' = "done")
      BY <2>1 DEF Passed, Key
    <3>2. KeysInv'
      BY <2>1, <3>1, SameKeys DEF TrailInv, KeysInv
    <3>3. SoundInv'
      BY <2>1 DEF TrailInv, SoundInv, Sound, OwnFiles, Plugged, Key
    <3>4. QED
      BY <3>2, <3>3
  <2>3. OutInv'
    BY <2>1 DEF TrailInv, OutInv
  <2>4. QED
    BY <2>2, <2>3 DEF TrailInv
<1>9. QED
  BY <1>1, <1>2, <1>3, <1>4, <1>5, <1>6, <1>7, <1>8 DEF Next

LEMMA TrailInvHolds == Spec => [](PipeInv /\ TrailInv)
<1>1. Init => TrailInv
  <2> SUFFICES ASSUME Init PROVE TrailInv
    OBVIOUS
  <2>1. steps = <<>> /\ out = <<>> /\ at = 1 /\ pl = "next"
    BY DEF Init
  <2>2. run.include \cap Passed = {}
    BY <2>1 DEF Passed
  <2>3. KeysInv
    BY <2>1, <2>2, FS_EmptySet DEF KeysInv
  <2>4. SoundInv /\ OutInv
    BY <2>1 DEF SoundInv, OutInv
  <2>5. QED
    BY <2>3, <2>4 DEF TrailInv
<1>2. QED
  BY <1>1, PipeInvHolds, TrailStep, PTL DEF Spec

\* build_steps and the fetcher: a run that ends has one step per wanted document,
\* in reference order, and a document for exactly the steps with a document type.
THEOREM EveryRequestAnswered == Spec => []OneStepPerRequest
<1>1. PipeInv /\ TrailInv => OneStepPerRequest
  <2> SUFFICES ASSUME PipeInv, TrailInv, pl = "done" PROVE OneStepPerRequest
    BY DEF OneStepPerRequest
  <2>0. DOMAIN RESIDENTIAL_DOCS = 1..12
    BY DEF RESIDENTIAL_DOCS
  <2>1. at = 13 /\ Len(out) = Len(steps)
    BY DEF TrailInv, OutInv
  <2>2. run.include \cap Passed = run.include
    <3>1. run.include \subseteq {RESIDENTIAL_DOCS[i] : i \in 1..12}
      BY <2>0, CasesAssumption DEF PipeInv, Core
    <3>2. Passed = {RESIDENTIAL_DOCS[i] : i \in 1..12}
      BY <2>1 DEF Passed
    <3>3. QED
      BY <3>1, <3>2
  <2>3. ASSUME NEW i \in DOMAIN steps
        PROVE  (out[i] # None) = (steps[i].key \in STEP_TO_DOC_TYPE)
    <3>1. i \in DOMAIN out /\ steps[i] \in Step
      BY <2>1 DEF PipeInv, Core, TrailInv, OutInv
    <3>2. out[i] \in DocumentsOf(steps[i])
      BY <3>1 DEF TrailInv, OutInv
    <3>3. QED
      BY <3>1, <3>2, UploadReturns, CasesAssumption DEF DocumentsOf
  <2>4. /\ {steps[i].key : i \in DOMAIN steps} = run.include
        /\ Len(steps) = Cardinality(run.include)
    BY <2>2 DEF TrailInv, KeysInv
  <2>5. ASSUME NEW i \in DOMAIN steps, NEW j \in DOMAIN steps, i < j
        PROVE  \E a, b \in DOMAIN RESIDENTIAL_DOCS :
                  a < b /\ steps[i].key = RESIDENTIAL_DOCS[a] /\ steps[j].key = RESIDENTIAL_DOCS[b]
    <3>1. InOrder(steps[i].key, steps[j].key)
      BY <2>5 DEF TrailInv, KeysInv
    <3>2. QED
      BY <2>0, <3>1 DEF InOrder
  <2>6. QED
    BY <2>1, <2>3, <2>4, <2>5 DEF OneStepPerRequest
<1>2. QED
  BY <1>1, TrailInvHolds, PTL

\* What a document says follows from its step.
LEMMA DocumentOfStep ==
    ASSUME PipeInv, TrailInv, NEW i \in DOMAIN out, out[i] # None
    PROVE  steps[i] \in Step /\ Sound(steps[i]) /\ out[i] \in _upload_artifact(steps[i])
<1>1. i \in DOMAIN steps /\ steps[i] \in Step
  BY DEF PipeInv, Core, TrailInv, OutInv
<1>2. out[i] \in DocumentsOf(steps[i])
  BY DEF TrailInv, OutInv
<1>3. QED
  BY <1>1, <1>2 DEF TrailInv, SoundInv, DocumentsOf

\* _upload_artifact and the manifest: what a built-in source had uploaded was
\* logged, and is a file of the step's own.
THEOREM EvidenceIsLogged == Spec => []UploadedIsLogged
<1>1. PipeInv /\ TrailInv => UploadedIsLogged
  <2> SUFFICES ASSUME PipeInv, TrailInv, NEW i \in DOMAIN out, out[i] # None, out[i].file # None,
                      steps[i].key \notin run.plugged
               PROVE  /\ out[i].file \in manifest
                      /\ (out[i].file = "Deed.pdf") = (steps[i].key = "deed")
                      /\ (out[i].file = "Plat.pdf") = (steps[i].key = "plat")
    BY DEF UploadedIsLogged
  <2>1. steps[i] \in Step /\ Sound(steps[i]) /\ out[i] \in _upload_artifact(steps[i])
    BY DocumentOfStep
  <2>2. out[i].file \in steps[i].files
    BY <2>1, UploadReturns, MapStatus
  <2>3. QED
    BY <2>1, <2>2 DEF Sound, OwnFiles
<1>2. QED
  BY <1>1, TrailInvHolds, PTL

\* _run_one, _upload_artifact and the worker's row: a built-in source that failed
\* leaves no file, only a failed upload says it failed, and a row says uploaded
\* without a file only if the disk had none of the step's files.
THEOREM FailuresShow == Spec => []FailureIsNoEvidence
<1>1. PipeInv /\ TrailInv => FailureIsNoEvidence
  <2> SUFFICES ASSUME PipeInv, TrailInv, NEW i \in DOMAIN out, out[i] # None
               PROVE  LET row == Row(out[i]) IN
                      /\ (steps[i].error # None /\ steps[i].key \notin run.plugged) =>
                           row.status = "fetched" /\ row.file = None
                      /\ (row.status = "failed") = (row.error = "S3_UPLOAD_FAILED")
                      /\ row.file # None =>
                           row.status = "uploaded" /\ row.file \in steps[i].files \ out[i].gone
                      /\ (row.status = "uploaded" /\ row.file = None) =>
                           steps[i].files \subseteq out[i].gone
    BY DEF FailureIsNoEvidence
  <2> DEFINE s == steps[i]
             d == out[i]
             row == Row(d)
  <2>1. s \in Step /\ Sound(s) /\ d \in _upload_artifact(s)
    BY DocumentOfStep
  <2>2. /\ row.status = d.status
        /\ row.file = IF d.status = "uploaded" THEN d.file ELSE None
        /\ row.error = IF d.status = "failed" THEN d.error ELSE None
    BY DEF Row
  <2>3. None \notin s.files /\ None # "S3_UPLOAD_FAILED"
    BY <2>1, CasesAssumption DEF Step, ResearchErrorCode
  <2>4. s.status \in {"ok", "link", "empty"}
    BY <2>1 DEF Step
  <2>5. /\ s.status = "link" => Mapped(s).status = "fetched"
        /\ s.status # "ok" => Mapped(s).status \in {"fetched", "skipped"}
    BY <2>1, <2>4, MapStatus
  <2>6. (s.error # None /\ s.key \notin run.plugged) => s.status = "link"
    BY <2>1 DEF Sound
  <2>7. \/ s.status # "ok" /\ d = Mapped(s)
        \/ s.status = "ok" /\ s.files \subseteq d.gone /\ d.file = None /\ d.status = "uploaded"
        \/ s.status = "ok" /\ d.file \in s.files \ d.gone /\ d.status = "uploaded"
        \/ s.status = "ok" /\ d.status = "failed" /\ d.file = None /\ d.error = "S3_UPLOAD_FAILED"
    BY <2>1, UploadReturns
  <2> HIDE DEF s, d, row
  <2>8. /\ (s.error # None /\ s.key \notin run.plugged) =>
             row.status = "fetched" /\ row.file = None
        /\ (row.status = "failed") = (row.error = "S3_UPLOAD_FAILED")
        /\ row.file # None => row.status = "uploaded" /\ row.file \in s.files \ d.gone
        /\ (row.status = "uploaded" /\ row.file = None) => s.files \subseteq d.gone
    BY <2>2, <2>3, <2>5, <2>6, <2>7
  <2>9. QED
    BY <2>8 DEF s, d, row
<1>2. QED
  BY <1>1, TrailInvHolds, PTL
=============================================================================
