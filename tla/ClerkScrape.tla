---------------------------- MODULE ClerkScrape ----------------------------
(***************************************************************************)
(* fetch_documents: one attempt, and a second one when the browser died,   *)
(* to find a parcel's deed and plat in the county clerk's portal.  Four    *)
(* portals are driven; what a portal answers, how late, and whether the    *)
(* browser survives are choices.                                           *)
(*                                                                         *)
(* A portal holds Docs: records with the index (series) they are filed in, *)
(* book and page, instrument number, legal description, type, whether the  *)
(* owner is the grantee, recording date and number of pages.               *)
(***************************************************************************)
EXTENDS Naturals, Sequences, FiniteSets

CONSTANTS
    Docs,        \* what the portal holds
    None,        \* no reference, document, file or portal
    MaxRepeats   \* extra clicks capture_pages allows: 3

ASSUME ScrapeAssumption == MaxRepeats \in Nat

\* A document has a page, and a book and page it is filed under; several may be
\* filed under the same, in one index too.
ASSUME DocsAssumption == \A d \in Docs : d.pages \in Nat \ {0} /\ d.bp \in Nat \X Nat

VARIABLES
    portal,   \* the platform of the county, or None
    deedArg,  \* what to look the deed up by
    platArg,  \* what to look the plat up by
    sc,       \* where the scrape is
    attempt,  \* 1 or 2
    task,     \* the search being made
    hit,      \* the document open in the viewer
    seen,     \* the captured pages of it
    view,     \* the page the viewer shows
    target,   \* the page count capture_pages works with
    guard,    \* clicks so far
    slow,     \* history: an answer of this document came too late
    again,    \* history: clicks that brought a page already captured
    body,     \* Volusia: the last intercepted PDF
    result    \* deed, plat, deed_ref, error

capture == <<hit, seen, view, target, guard, slow, again>>
args    == <<portal, deedArg, platArg>>
scrapeVars == <<args, sc, attempt, task, capture, body, result>>

NoResult == [deed |-> None, plat |-> None, ref |-> None, error |-> FALSE]

ScrapeInit ==
    /\ sc = "idle" /\ attempt = 1 /\ task = 1 /\ body = None /\ result = NoResult
    /\ hit = None /\ seen = {} /\ view = 1 /\ target = 1 /\ guard = 0
    /\ slow = FALSE /\ again = 0

---------------------------------------------------------------------------
(* What a search can find *)

\* NewVision looks the plat up first; the others the deed, by its number and
\* then by book and page.
Tasks == IF portal = "newvision" THEN <<"nvplat", "nvdeed">>
         ELSE <<"number", "bookpage", "plat">>

\* Deeds whose legal names the subdivision; among them the most recent one that
\* made the owner the grantee, else the most recent.
_pick_deed(rows, sub) ==
    LET cand    == {r \in rows : r.type = "deed" /\ r.legal = sub /\ sub # None}
        grantee == {r \in cand : r.grantee}
        Recent(rs) == {r \in rs : \A o \in rs : o.date <= r.date}
    IN  IF grantee # {} THEN Recent(grantee) ELSE Recent(cand)

\* Any row of the book may come first; the page is the first row's that matches.
_pick_plat_page(rows, sub) == {r.bp[2] : r \in {o \in rows : o.legal = sub /\ sub # None}}

\* Book and page searches of NewVision name the index: plats or official records.
search_book_page(bp, series) == {d \in Docs : d.bp = bp /\ d.series = series}

\* The other portals search one index.  By number, and by book and page at Tyler,
\* the first row is opened; Volusia lists the book from the page on and the row
\* that is exactly it is clicked.
search_document_number(num) == {d \in Docs : d.num = num}
by_book_page(bp) == {d \in Docs : d.bp = bp}

\* Manatee takes only an unambiguous answer.
_id_by_book_page(bp) ==
    LET ids == {d \in Docs : d.bp = bp} IN IF Cardinality(ids) = 1 THEN ids ELSE {}

ByBookPage(bp) == IF portal = "manatee" THEN _id_by_book_page(bp) ELSE by_book_page(bp)

---------------------------------------------------------------------------
(* One attempt *)

NextTask ==
    /\ task' = task + 1
    /\ sc' = IF task = Len(Tasks) THEN "returned" ELSE "search"

\* Each document is opened in a page of its own.
Fresh == seen' = {} /\ view' = 1 /\ target' = 1 /\ guard' = 0 /\ slow' = FALSE /\ again' = 0

OpenDoc(d) ==
    /\ hit' = d /\ sc' = "opened" /\ Fresh
    /\ UNCHANGED <<args, attempt, task, body, result>>

Miss == NextTask /\ UNCHANGED <<args, attempt, capture, body, result>>

Searching(t) == sc = "search" /\ Tasks[task] = t

\* The plat, by book and page; without a page the book alone is searched and
\* the page comes from the row of the subdivision.  Late rows are no rows.
NvPlat ==
    /\ Searching("nvplat")
    /\ LET pages == IF platArg = None THEN {}
                    ELSE IF platArg.page # 0 THEN {platArg.page}
                    ELSE _pick_plat_page({d \in Docs : d.series = "P" /\ d.bp[1] = platArg.book},
                                         platArg.sub)
       IN  \/ \E pg \in pages : \E d \in search_book_page(<<platArg.book, pg>>, "P") : OpenDoc(d)
           \/ Miss

\* The deed, by the roll's book and page, else by the owner's name.
NvDeed ==
    /\ Searching("nvdeed")
    /\ LET refs == IF deedArg = None THEN {}
                   ELSE IF deedArg.bp # None THEN {[by |-> "bookpage", bp |-> deedArg.bp]}
                   ELSE {[by |-> "owner", bp |-> r.bp] :
                           r \in _pick_deed({d \in Docs : d.owner = deedArg.owner}, deedArg.sub)}
       IN  \/ \E ref \in refs : \E d \in search_book_page(ref.bp, "O") :
                /\ hit' = d /\ sc' = "opened" /\ result' = [result EXCEPT !.ref = ref.by]
                /\ Fresh
                /\ UNCHANGED <<args, attempt, task, body>>
           \/ /\ \E by \in {ref.by : ref \in refs}
                           \cup (IF "bookpage" \in {ref.by : ref \in refs} THEN {} ELSE {result.ref}) :
                    result' = [result EXCEPT !.ref = by]
              /\ NextTask /\ UNCHANGED <<args, attempt, capture, body>>

\* capture_pages waits for page 1, then reads the page count once; what has not
\* arrived by then is missing: no image, or a count taken for 1.
FirstPage ==
    /\ sc = "opened"
    /\ \E shown \in BOOLEAN, counted \in BOOLEAN :
        /\ seen' = IF shown THEN {1} ELSE {}
        /\ target' = IF counted THEN hit.pages ELSE 1
        /\ slow' = ~(shown /\ counted)
    /\ sc' = "capture"
    /\ UNCHANGED <<args, attempt, task, hit, view, guard, again, body, result>>

\* Mutant: as many clicks as pages.
MoreTight == Cardinality(seen) < target /\ guard < target

More == Cardinality(seen) < target /\ guard < target + MaxRepeats

\* A click brings the next page, a page already captured, page 1 at last, or
\* nothing, which ends the loop.  The viewer stays on the last page.
Click ==
    /\ sc = "capture" /\ More
    /\ guard' = guard + 1
    /\ \/ /\ view < hit.pages
          /\ view' = view + 1 /\ seen' = seen \cup {view + 1}
          /\ UNCHANGED <<sc, slow, again>>
       \/ /\ 1 \notin seen /\ seen' = seen \cup {1} /\ UNCHANGED <<sc, slow, view, again>>
       \/ /\ seen # {} /\ again' = again + 1
          /\ UNCHANGED <<sc, slow, view, seen>>
       \/ /\ sc' = "stopped" /\ slow' = TRUE /\ UNCHANGED <<view, seen, again>>
    /\ UNCHANGED <<args, attempt, task, hit, target, body, result>>

\* The pages that can be decoded become one PDF; without any there is none.
\* late: the portal was, or it repeated pages more often than is allowed for.
Found(by, bad) == IF seen \ bad = {} THEN None
                  ELSE [doc |-> hit, by |-> by, pages |-> seen \ bad, bad |-> bad,
                        late |-> slow \/ again > MaxRepeats + 1]

\* What was captured is saved, in place of what an earlier attempt saved; where
\* nothing was captured that stays.
_save_pdf ==
    /\ sc = "stopped" \/ (sc = "capture" /\ ~More)
    /\ IF seen = {} THEN result' = result
       ELSE \E bad \in SUBSET seen :
              result' = IF Tasks[task] = "nvplat"
                        THEN [result EXCEPT !.plat = Found("bookpage", bad)]
                        ELSE [result EXCEPT !.deed = Found(result.ref, bad)]
    /\ NextTask /\ Fresh
    /\ UNCHANGED <<args, attempt, hit, body>>

---------------------------------------------------------------------------
(* The other portals *)

\* Mutant: the last PDF is not forgotten before the click.
CaptureStale(d) == {d, body}

\* Volusia forgets the last PDF before the click; the viewer may load nothing.
_capture(d) == {d, None}

\* Tyler's document page may link no PDF.
first_pdf(d) == {d, None}

\* Manatee leaves out pages that are no images.
_pages_to_pdf(d) == SUBSET (1..d.pages) \ {{}}

\* A document is found under a reference and its file is fetched, or not.
Fetch(ids, by, keep) ==
    \/ \E d \in ids : \E b \in IF portal = "volusia" THEN _capture(d) ELSE first_pdf(d) :
       \E pages \in IF portal = "manatee" THEN _pages_to_pdf(d) ELSE {1..d.pages} :
          LET file == [doc |-> b, by |-> by, pages |-> pages, bad |-> {}, late |-> FALSE] IN
          /\ body' = IF portal = "volusia" THEN b ELSE body
          /\ hit' = IF portal = "manatee" THEN d ELSE hit
          /\ result' = IF b = None THEN keep
                       ELSE IF Tasks[task] = "plat" THEN [keep EXCEPT !.plat = file]
                       ELSE [keep EXCEPT !.deed = file]
    \/ result' = keep /\ UNCHANGED <<body, hit>>

Number ==
    /\ Searching("number")
    /\ IF deedArg # None /\ deedArg.num # None
       THEN Fetch(search_document_number(deedArg.num), "number", [result EXCEPT !.ref = "number"])
       ELSE UNCHANGED <<result, body, hit>>
    /\ NextTask /\ UNCHANGED <<args, attempt, seen, view, target, guard, slow, again>>

\* Only while no deed was saved or, at Manatee, no instrument was found, even
\* one whose pages could not be read.
BookPage ==
    /\ Searching("bookpage")
    /\ IF deedArg # None /\ deedArg.bp # None
          /\ (IF portal = "manatee" THEN hit = None ELSE result.deed = None)
       THEN Fetch(ByBookPage(deedArg.bp), "bookpage", [result EXCEPT !.ref = "bookpage"])
       ELSE UNCHANGED <<result, body, hit>>
    /\ NextTask /\ UNCHANGED <<args, attempt, seen, view, target, guard, slow, again>>

Plat ==
    /\ Searching("plat")
    /\ IF platArg # None /\ platArg.page # 0
       THEN Fetch(ByBookPage(<<platArg.book, platArg.page>>), "bookpage", result)
       ELSE UNCHANGED <<result, body, hit>>
    /\ NextTask /\ UNCHANGED <<args, attempt, seen, view, target, guard, slow, again>>

---------------------------------------------------------------------------
(* fetch_documents *)

\* Mutant: a dead browser is restarted as often as it dies.
DiesForever ==
    /\ sc \in {"search", "opened", "capture", "stopped"} /\ portal # "manatee"
    /\ attempt' = 2 /\ sc' = "search" /\ task' = 1 /\ body' = None /\ Fresh
    /\ UNCHANGED <<args, hit, result>>

\* The result is one dictionary for both attempts.
BrowserDies ==
    /\ sc \in {"search", "opened", "capture", "stopped"} /\ portal # "manatee"
    /\ IF attempt = 1 THEN attempt' = 2 /\ sc' = "search" /\ result' = result
       ELSE /\ sc' = "returned" /\ result' = [result EXCEPT !.error = TRUE]
            /\ UNCHANGED attempt
    /\ task' = 1 /\ body' = None /\ Fresh
    /\ UNCHANGED <<args, hit>>

OtherError ==
    /\ sc \in {"search", "opened", "capture", "stopped"}
    /\ sc' = "returned" /\ result' = [result EXCEPT !.error = TRUE] /\ Fresh
    /\ UNCHANGED <<args, attempt, task, hit, body>>

_fetch_once    == NvPlat \/ NvDeed \/ FirstPage \/ Click \/ _save_pdf
_fetch_tyler   == portal = "tyler" /\ (Number \/ BookPage \/ Plat)
_fetch_manatee == portal = "manatee" /\ (Number \/ BookPage \/ Plat)
_fetch_volusia == portal = "volusia" /\ (Number \/ BookPage \/ Plat)

fetch_documents == \/ _fetch_once \/ _fetch_tyler \/ _fetch_manatee \/ _fetch_volusia
                   \/ BrowserDies \/ OtherError

---------------------------------------------------------------------------
(* Properties of the scrape *)

\* The deeds an owner's name and the subdivision lead to: those that made the
\* owner the grantee, where there are any.
Vesting == LET cand == {d \in Docs : /\ d.owner = deedArg.owner /\ d.type = "deed"
                                     /\ d.legal = deedArg.sub}
           IN  IF \E d \in cand : d.grantee THEN {d \in cand : d.grantee} ELSE cand

\* A document is filed as the deed or the plat only if it stands where its
\* reference says: under the number, at the book and page, at those of a vesting
\* deed of the owner in the subdivision, or of the subdivision's plat.  It is
\* never a neighbour in the book, another property of the owner, what the viewer
\* showed before or, where the portal tells the indexes apart, of the other index.
RightDocument ==
    /\ result.deed # None =>
        LET d == result.deed.doc IN
        /\ CASE result.deed.by = "number"   -> d.num = deedArg.num
             [] result.deed.by = "bookpage" -> d.bp = deedArg.bp
             [] OTHER -> \E v \in Vesting : d.bp = v.bp
        /\ portal = "newvision" => d.series = "O"
    /\ result.plat # None =>
        LET d == result.plat.doc IN
        /\ d.bp[1] = platArg.book
        /\ platArg.page \in {0, d.bp[2]}
        /\ platArg.page = 0 =>
             \E e \in Docs : e.series = "P" /\ e.legal = platArg.sub /\ d.bp = e.bp
        /\ portal = "newvision" => d.series = "P"

\* A NewVision document is saved with all its pages but those whose image could
\* not be decoded, unless the portal answered late or repeated pages more often
\* than the spare clicks allow.
AllPages ==
    portal = "newvision" =>
        \A f \in {result.deed, result.plat} \ {None} :
            f.pages = (1..f.doc.pages) \ f.bad \/ f.late

=============================================================================
