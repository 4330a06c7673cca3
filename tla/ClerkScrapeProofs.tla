-------------------------- MODULE ClerkScrapeProofs --------------------------
(***************************************************************************)
(* Theorems about the scrape inside a run of StepPipeline, for any records *)
(* of the portal: what is filed as the deed or the plat stands where its   *)
(* reference says, and a NewVision document is saved with all the pages    *)
(* that can be decoded unless the portal was late or repeated itself.      *)
(***************************************************************************)
EXTENDS StepPipelineProofs

\* A document that may be filed as the deed under a reference, or as the plat.
DeedRight(d, by) ==
    /\ CASE by = "number"   -> d.num = deedArg.num
         [] by = "bookpage" -> d.bp = deedArg.bp
         [] OTHER -> \E v \in Vesting : d.bp = v.bp
    /\ portal = "newvision" => d.series = "O"

PlatRight(d) ==
    /\ d.bp[1] = platArg.book
    /\ platArg.page \in {0, d.bp[2]}
    /\ platArg.page = 0 =>
         \E e \in Docs : e.series = "P" /\ e.legal = platArg.sub /\ d.bp = e.bp
    /\ portal = "newvision" => d.series = "P"

AllThere(f) == f.pages = (1..f.doc.pages) \ f.bad \/ f.late

DeedFile(f) == /\ DeedRight(f.doc, f.by)
               /\ portal = "newvision" => AllThere(f)
PlatFile(f) == /\ PlatRight(f.doc)
               /\ portal = "newvision" => AllThere(f)

\* The fields of the result, and what is filed in it.
Shaped(r) == r = [deed |-> r.deed, plat |-> r.plat, ref |-> r.ref, error |-> r.error]

FileInv == /\ Shaped(result)
           /\ result.deed # None => DeedFile(result.deed)
           /\ result.plat # None => PlatFile(result.plat)

Viewing == {"opened", "capture", "stopped"}

\* The first scrape starts with the first task; a task is one of the portal's.
TaskInv ==
    /\ calls = 0 => task = 1
    /\ sc \in {"search"} \cup Viewing => task \in 1..Len(Tasks)

\* The document in the viewer is what the task looked for.
HitInv ==
    sc \in Viewing =>
        /\ portal = "newvision" /\ hit \in Docs
        /\ task = 1 => PlatRight(hit)
        /\ task = 2 => DeedRight(hit, result.ref)

\* As long as nothing was late the pages seen are those up to the one shown, and
\* every click brought one of them or a repetition.
PagesInv ==
    /\ sc = "opened" => view = 1 /\ guard = 0 /\ again = 0
    /\ sc = "stopped" => slow
    /\ sc = "capture" /\ ~slow =>
         /\ target = hit.pages /\ view \in 1..hit.pages /\ seen = 1..view
         /\ again \in Nat /\ guard = (view - 1) + again

ScrapeInv == FileInv /\ TaskInv /\ HitInv /\ PagesInv

-----------------------------------------------------------------------------
(* The result *)

LEMMA WithDeed ==
    ASSUME NEW r, Shaped(r), NEW f
    PROVE  LET q == [r EXCEPT !.deed = f]
           IN  Shaped(q) /\ q.deed = f /\ q.plat = r.plat /\ q.ref = r.ref
  BY DEF Shaped

LEMMA WithPlat ==
    ASSUME NEW r, Shaped(r), NEW f
    PROVE  LET q == [r EXCEPT !.plat = f]
           IN  Shaped(q) /\ q.deed = r.deed /\ q.plat = f /\ q.ref = r.ref
  BY DEF Shaped

LEMMA WithRef ==
    ASSUME NEW r, Shaped(r), NEW f
    PROVE  LET q == [r EXCEPT !.ref = f]
           IN  Shaped(q) /\ q.deed = r.deed /\ q.plat = r.plat /\ q.ref = f
  BY DEF Shaped

\* What is right for the arguments stays so: they never change.
LEMMA SameArgs ==
    ASSUME UNCHANGED args
    PROVE  /\ portal' = portal /\ Tasks' = Tasks
           /\ \A d, by : DeedRight(d, by)' = DeedRight(d, by)
           /\ \A d : PlatRight(d)' = PlatRight(d)
           /\ \A f : DeedFile(f)' = DeedFile(f) /\ PlatFile(f)' = PlatFile(f)
  BY DEF args, Tasks, DeedRight, PlatRight, Vesting, DeedFile, PlatFile, AllThere

LEMMA FiledStays ==
    ASSUME FileInv, UNCHANGED args, Shaped(result'),
           result'.deed = result.deed \/ result'.deed = None \/ DeedFile(result'.deed),
           result'.plat = result.plat \/ result'.plat = None \/ PlatFile(result'.plat)
    PROVE  FileInv'
<1>1. result'.deed # None => DeedFile(result'.deed)
  BY DEF FileInv
<1>2. result'.plat # None => PlatFile(result'.plat)
  BY DEF FileInv
<1>3. QED
  BY <1>1, <1>2 DEF FileInv, Shaped, DeedFile, PlatFile, DeedRight, PlatRight, Vesting, AllThere, args

-----------------------------------------------------------------------------
(* Tasks and the documents they find *)

LEMMA TaskList ==
    /\ Len(Tasks) \in Nat
    /\ \A t \in 1..Len(Tasks) :
         /\ Tasks[t] = "nvplat" => portal = "newvision" /\ t = 1
         /\ Tasks[t] = "nvdeed" => portal = "newvision" /\ t = 2
         /\ portal = "newvision" => t \in {1, 2}
         /\ portal = "newvision" /\ t = 1 => Tasks[t] = "nvplat"
         /\ portal = "newvision" /\ t = 2 => Tasks[t] = "nvdeed"
<1>1. CASE portal = "newvision"
  <2>1. Tasks = <<"nvplat", "nvdeed">>
    BY <1>1 DEF Tasks
  <2>2. QED
    BY <1>1, <2>1
<1>2. CASE portal # "newvision"
  <2>1. Tasks = <<"number", "bookpage", "plat">>
    BY <1>2 DEF Tasks
  <2>2. QED
    BY <1>2, <2>1
<1>3. QED
  BY <1>1, <1>2

\* A task that is over hands on to the next one, with the viewer closed.
LEMMA TaskOver ==
    ASSUME ScrapeInv, FileInv', UNCHANGED args, calls = 1, calls' = 1,
           task \in 1..Len(Tasks), NextTask
    PROVE  ScrapeInv'
<1>1. sc' \in {"returned", "search"} /\ task' = task + 1
      /\ (sc' = "search" => task # Len(Tasks))
  BY DEF NextTask
<1>2. TaskInv'
  BY <1>1, SameArgs, TaskList DEF TaskInv, Viewing
<1>3. HitInv' /\ PagesInv'
  BY <1>1 DEF HitInv, PagesInv, Viewing
<1>4. QED
  BY <1>2, <1>3 DEF ScrapeInv

\* A document comes into the viewer.
LEMMA Opened ==
    ASSUME ScrapeInv, FileInv', UNCHANGED <<args, task>>, calls = 1, calls' = 1,
           sc = "search", sc' = "opened", view' = 1, guard' = 0, again' = 0,
           portal = "newvision", hit' \in Docs,
           task = 1 => PlatRight(hit'), task = 2 => DeedRight(hit', result'.ref)
    PROVE  ScrapeInv'
<1>1. TaskInv'
  BY SameArgs DEF ScrapeInv, TaskInv, Viewing
<1>2. HitInv'
  BY DEF HitInv, args, PlatRight, DeedRight, Vesting
<1>3. PagesInv'
  BY DEF PagesInv
<1>4. QED
  BY <1>1, <1>2, <1>3 DEF ScrapeInv

\* NewVision's plat: by book and page, or by the page of the subdivision's row.
LEMMA PlatFound ==
    ASSUME platArg # None, NEW d \in Docs, NEW pg,
           d \in search_book_page(<<platArg.book, pg>>, "P"),
           pg \in IF platArg.page # 0 THEN {platArg.page}
                  ELSE _pick_plat_page({e \in Docs : e.series = "P" /\ e.bp[1] = platArg.book},
                                       platArg.sub)
    PROVE  PlatRight(d)
<1>1. d.bp = <<platArg.book, pg>> /\ d.series = "P"
  BY DEF search_book_page
<1>2. d.bp[1] = platArg.book /\ d.bp[2] = pg
  BY <1>1
<1>3. CASE platArg.page # 0
  BY <1>1, <1>2, <1>3 DEF PlatRight
<1>4. CASE platArg.page = 0
  <2>1. PICK r \in Docs : /\ r.series = "P" /\ r.bp[1] = platArg.book
                          /\ r.legal = platArg.sub /\ pg = r.bp[2]
    BY <1>4 DEF _pick_plat_page
  <2>2. r.bp \in Nat \X Nat
    BY DocsAssumption
  <2>3. r.bp = <<r.bp[1], r.bp[2]>>
    BY <2>2
  <2>4. r.bp = d.bp
    BY <1>1, <2>1, <2>3
  <2>5. QED
    BY <1>1, <1>2, <1>4, <2>1, <2>4 DEF PlatRight
<1>5. QED
  BY <1>3, <1>4

\* NewVision's deed: by book and page, or the row picked for the owner.
LEMMA DeedFound ==
    ASSUME deedArg # None, NEW d \in Docs, NEW ref, d \in search_book_page(ref.bp, "O"),
           ref \in IF deedArg.bp # None THEN {[by |-> "bookpage", bp |-> deedArg.bp]}
                   ELSE {[by |-> "owner", bp |-> r.bp] :
                           r \in _pick_deed({e \in Docs : e.owner = deedArg.owner}, deedArg.sub)}
    PROVE  DeedRight(d, ref.by)
<1>1. d.bp = ref.bp /\ d.series = "O"
  BY DEF search_book_page
<1>2. CASE deedArg.bp # None
  <2>1. ref.by = "bookpage" /\ ref.bp = deedArg.bp
    BY <1>2
  <2>2. QED
    BY <1>1, <2>1 DEF DeedRight
<1>3. CASE deedArg.bp = None
  <2>1. PICK r \in _pick_deed({e \in Docs : e.owner = deedArg.owner}, deedArg.sub) :
             ref = [by |-> "owner", bp |-> r.bp]
    BY <1>3
  <2>2. r \in Vesting
    <3> DEFINE rows    == {e \in Docs : e.owner = deedArg.owner}
               sub     == deedArg.sub
               cand    == {e \in rows : e.type = "deed" /\ e.legal = sub /\ sub # None}
               grantee == {e \in cand : e.grantee}
    <3>1. r \in cand /\ (grantee # {} => r \in grantee)
      BY <2>1 DEF _pick_deed
    <3>2. QED
      BY <3>1 DEF Vesting
  <2>3. ref.by = "owner" /\ ref.bp = r.bp
    BY <2>1
  <2>4. QED
    BY <1>1, <2>2, <2>3 DEF DeedRight
<1>4. QED
  BY <1>2, <1>3

LEMMA NvPlatStep ==
    ASSUME ScrapeInv, calls = 1, calls' = 1, NvPlat
    PROVE  ScrapeInv'
<1> DEFINE pages == IF platArg = None THEN {}
                    ELSE IF platArg.page # 0 THEN {platArg.page}
                    ELSE _pick_plat_page({d \in Docs : d.series = "P" /\ d.bp[1] = platArg.book},
                                         platArg.sub)
<1>1. sc = "search" /\ task \in 1..Len(Tasks) /\ Tasks[task] = "nvplat"
  BY DEF NvPlat, Searching, ScrapeInv, TaskInv
<1>2. portal = "newvision" /\ task = 1
  BY <1>1, TaskList
<1>3. ASSUME NEW pg \in pages, NEW d \in search_book_page(<<platArg.book, pg>>, "P"), OpenDoc(d)
      PROVE  ScrapeInv'
  <2>1. d \in Docs /\ platArg # None
    BY <1>3 DEF search_book_page
  <2>2. PlatRight(d)
    BY <1>3, <2>1, PlatFound
  <2>3. UNCHANGED <<args, task, result>> /\ hit' = d /\ sc' = "opened"
        /\ view' = 1 /\ guard' = 0 /\ again' = 0
    BY <1>3 DEF OpenDoc, Fresh
  <2>4. FileInv'
    BY <2>3, FiledStays DEF ScrapeInv, FileInv
  <2>5. QED
    BY <1>1, <1>2, <2>1, <2>2, <2>3, <2>4, Opened
<1>4. CASE Miss
  <2>1. UNCHANGED <<args, result>> /\ NextTask
    BY <1>4 DEF Miss
  <2>2. FileInv'
    BY <2>1, FiledStays DEF ScrapeInv, FileInv
  <2>3. QED
    BY <1>1, <2>1, <2>2, TaskOver
<1>5. QED
  BY <1>3, <1>4 DEF NvPlat

LEMMA NvDeedStep ==
    ASSUME ScrapeInv, calls = 1, calls' = 1, NvDeed
    PROVE  ScrapeInv'
<1> DEFINE refs == IF deedArg = None THEN {}
                   ELSE IF deedArg.bp # None THEN {[by |-> "bookpage", bp |-> deedArg.bp]}
                   ELSE {[by |-> "owner", bp |-> r.bp] :
                           r \in _pick_deed({d \in Docs : d.owner = deedArg.owner}, deedArg.sub)}
<1>1. sc = "search" /\ task \in 1..Len(Tasks) /\ Tasks[task] = "nvdeed" /\ Shaped(result)
  BY DEF NvDeed, Searching, ScrapeInv, TaskInv, FileInv
<1>2. portal = "newvision" /\ task = 2
  BY <1>1, TaskList
<1>3. ASSUME NEW ref \in refs, NEW d \in search_book_page(ref.bp, "O"),
             hit' = d, sc' = "opened", result' = [result EXCEPT !.ref = ref.by],
             view' = 1, guard' = 0, again' = 0, UNCHANGED <<args, task>>
      PROVE  ScrapeInv'
  <2>1. d \in Docs /\ deedArg # None
    BY <1>3 DEF search_book_page
  <2>2. DeedRight(d, ref.by)
    BY <1>3, <2>1, DeedFound
  <2>3. /\ Shaped(result') /\ result'.deed = result.deed /\ result'.plat = result.plat
        /\ result'.ref = ref.by
    BY <1>1, <1>3, WithRef
  <2>4. FileInv'
    BY <1>3, <2>3, FiledStays DEF ScrapeInv
  <2>5. QED
    BY <1>1, <1>2, <1>3, <2>1, <2>2, <2>3, <2>4, Opened
<1>4. ASSUME NEW by, result' = [result EXCEPT !.ref = by], NextTask, UNCHANGED args
      PROVE  ScrapeInv'
  <2>1. Shaped(result') /\ result'.deed = result.deed /\ result'.plat = result.plat
    BY <1>1, <1>4, WithRef
  <2>2. FileInv'
    BY <1>4, <2>1, FiledStays DEF ScrapeInv
  <2>3. QED
    BY <1>1, <1>4, <2>2, TaskOver
<1> HIDE DEF refs
<1>5. QED
  BY <1>3, <1>4 DEF NvDeed, Fresh, refs

-----------------------------------------------------------------------------
(* The pages *)

\* A step of the viewer leaves the task, the document and the result alone.
LEMMA ViewerStep ==
    ASSUME ScrapeInv, calls = 1, calls' = 1, UNCHANGED <<args, task, hit, result>>,
           sc \in Viewing, sc' \in Viewing, PagesInv'
    PROVE  ScrapeInv'
<1>1. FileInv'
  BY FiledStays DEF ScrapeInv, FileInv
<1>2. TaskInv'
  BY SameArgs DEF ScrapeInv, TaskInv
<1>3. HitInv'
  BY DEF ScrapeInv, HitInv, args, PlatRight, DeedRight, Vesting
<1>4. QED
  BY <1>1, <1>2, <1>3 DEF ScrapeInv

LEMMA FirstPageStep ==
    ASSUME ScrapeInv, calls = 1, calls' = 1, FirstPage
    PROVE  ScrapeInv'
<1>1. /\ sc = "opened" /\ sc' = "capture" /\ UNCHANGED <<args, task, hit, view, guard, again, result>>
      /\ ~slow' => seen' = {1} /\ target' = hit.pages
  BY DEF FirstPage
<1>2. view = 1 /\ guard = 0 /\ again = 0 /\ hit.pages \in Nat \ {0}
  BY <1>1, DocsAssumption DEF ScrapeInv, PagesInv, HitInv, Viewing
<1>3. PagesInv'
  <2>1. {1} = 1..1
    OBVIOUS
  <2>2. QED
    BY <1>1, <1>2, <2>1 DEF PagesInv
<1>4. QED
  BY <1>1, <1>3, ViewerStep DEF Viewing

LEMMA ClickStep ==
    ASSUME ScrapeInv, calls = 1, calls' = 1, Click
    PROVE  ScrapeInv'
<1>1. sc = "capture" /\ guard' = guard + 1 /\ UNCHANGED <<args, task, hit, target, result>>
  BY DEF Click
<1>2. hit.pages \in Nat \ {0}
  BY <1>1, DocsAssumption DEF ScrapeInv, HitInv, Viewing
<1>3. ASSUME view < hit.pages, view' = view + 1, seen' = seen \cup {view + 1},
             UNCHANGED <<sc, slow, again>>
      PROVE  PagesInv'
  <2>1. ASSUME ~slow
        PROVE  /\ target = hit.pages /\ view' \in 1..hit.pages /\ seen' = 1..view'
               /\ again \in Nat /\ guard' = (view' - 1) + again
    <3>1. /\ target = hit.pages /\ view \in 1..hit.pages /\ seen = 1..view
          /\ again \in Nat /\ guard = (view - 1) + again
      BY <1>1, <2>1 DEF ScrapeInv, PagesInv
    <3>2. (1..view) \cup {view + 1} = 1..(view + 1)
      BY <1>2, <3>1
    <3>3. QED
      BY <1>1, <1>2, <1>3, <3>1, <3>2
  <2>2. QED
    BY <1>1, <1>3, <2>1 DEF PagesInv
<1>4. ASSUME 1 \notin seen, UNCHANGED <<sc, slow, view, again>>
      PROVE  PagesInv'
  <2>1. slow
    BY <1>1, <1>2, <1>4 DEF ScrapeInv, PagesInv
  <2>2. QED
    BY <1>1, <1>4, <2>1 DEF PagesInv
<1>5. ASSUME again' = again + 1, UNCHANGED <<sc, slow, view, seen>>
      PROVE  PagesInv'
  <2>1. ASSUME ~slow
        PROVE  /\ target = hit.pages /\ view \in 1..hit.pages /\ seen = 1..view
               /\ again' \in Nat /\ guard' = (view - 1) + again'
    <3>1. /\ target = hit.pages /\ view \in 1..hit.pages /\ seen = 1..view
          /\ again \in Nat /\ guard = (view - 1) + again
      BY <1>1, <2>1 DEF ScrapeInv, PagesInv
    <3>2. QED
      BY <1>1, <1>2, <1>5, <3>1
  <2>2. QED
    BY <1>1, <1>5, <2>1 DEF PagesInv
<1>6. ASSUME sc' = "stopped", slow' = TRUE PROVE PagesInv'
  BY <1>6 DEF PagesInv
<1>7. PagesInv' /\ sc' \in Viewing
  BY <1>1, <1>3, <1>4, <1>5, <1>6 DEF Click, Viewing
<1>8. QED
  BY <1>1, <1>7, ViewerStep DEF Viewing

\* What the viewer gave when the loop ended is every page, unless an answer was
\* late or the repetitions used up the spare clicks; what is saved is the part of
\* it that can be decoded.
LEMMA LoopEnds ==
    ASSUME ScrapeInv, sc = "stopped" \/ (sc = "capture" /\ ~More), NEW by, NEW bad,
           NEW f, f = Found(by, bad), f # None
    PROVE  f.doc = hit /\ f.by = by /\ AllThere(f)
<1>1. f = [doc |-> hit, by |-> by, pages |-> seen \ bad, bad |-> bad,
           late |-> slow \/ again > MaxRepeats + 1]
  BY DEF Found
<1>2. /\ f.doc = hit /\ f.by = by /\ f.pages = seen \ bad /\ f.bad = bad
      /\ f.late = (slow \/ again > MaxRepeats + 1)
  BY <1>1
<1>3. CASE slow
  BY <1>2, <1>3 DEF AllThere
<1>4. CASE ~slow
  <2>1. sc = "capture" /\ ~More
    BY <1>4 DEF ScrapeInv, PagesInv
  <2>2. hit.pages \in Nat \ {0}
    BY <2>1, DocsAssumption DEF ScrapeInv, HitInv, Viewing
  <2>3. /\ target = hit.pages /\ view \in 1..hit.pages /\ seen = 1..view
        /\ again \in Nat /\ guard = (view - 1) + again
    BY <1>4, <2>1 DEF ScrapeInv, PagesInv
  <2>4. Cardinality(seen) = view
    BY <2>2, <2>3, FS_Interval
  <2>5. view >= hit.pages \/ (view - 1) + again >= hit.pages + MaxRepeats
    BY <2>1, <2>2, <2>3, <2>4, ScrapeAssumption DEF More
  <2>6. CASE view >= hit.pages
    <3>1. view = hit.pages
      BY <2>2, <2>3, <2>6
    <3>2. QED
      BY <1>2, <2>3, <3>1 DEF AllThere
  <2>7. CASE view < hit.pages
    <3>1. again > MaxRepeats + 1
      BY <2>2, <2>3, <2>5, <2>7, ScrapeAssumption
    <3>2. QED
      BY <1>2, <3>1 DEF AllThere
  <2>8. QED
    BY <2>2, <2>3, <2>6, <2>7
<1>5. QED
  BY <1>3, <1>4

LEMMA SaveStep ==
    ASSUME ScrapeInv, calls = 1, calls' = 1, _save_pdf
    PROVE  ScrapeInv'
<1>1. /\ sc = "stopped" \/ (sc = "capture" /\ ~More)
      /\ NextTask /\ UNCHANGED <<args, hit>>
      /\ \/ result' = result
         \/ \E bad : result' = IF Tasks[task] = "nvplat"
                               THEN [result EXCEPT !.plat = Found("bookpage", bad)]
                               ELSE [result EXCEPT !.deed = Found(result.ref, bad)]
  BY DEF _save_pdf
<1>2. sc \in Viewing /\ task \in 1..Len(Tasks) /\ portal = "newvision" /\ Shaped(result)
  BY <1>1 DEF ScrapeInv, TaskInv, HitInv, FileInv, Viewing
<1>3. task = 1 \/ task = 2
  BY <1>2, TaskList
<1>4. CASE result' = result
  <2>1. FileInv'
    BY <1>1, <1>2, <1>4, FiledStays DEF ScrapeInv
  <2>2. QED
    BY <1>1, <1>2, <2>1, TaskOver
<1>5. ASSUME task = 1, NEW bad,
             result' = IF Tasks[task] = "nvplat"
                       THEN [result EXCEPT !.plat = Found("bookpage", bad)]
                       ELSE [result EXCEPT !.deed = Found(result.ref, bad)]
      PROVE  ScrapeInv'
  <2>1. Tasks[task] = "nvplat" /\ PlatRight(hit)
    BY <1>2, <1>5, TaskList DEF ScrapeInv, HitInv
  <2> DEFINE f == Found("bookpage", bad)
  <2>2. f # None => PlatFile(f)
    BY <1>1, <2>1, LoopEnds DEF PlatFile
  <2> HIDE DEF f
  <2>3. result' = [result EXCEPT !.plat = f]
    BY <1>5, <2>1 DEF f
  <2>4. Shaped(result') /\ result'.deed = result.deed /\ result'.plat = f
    BY <1>2, <2>3, WithPlat
  <2>5. FileInv'
    BY <1>1, <2>2, <2>4, FiledStays DEF ScrapeInv
  <2>6. QED
    BY <1>1, <1>2, <2>5, TaskOver
<1>6. ASSUME task = 2, NEW bad,
             result' = IF Tasks[task] = "nvplat"
                       THEN [result EXCEPT !.plat = Found("bookpage", bad)]
                       ELSE [result EXCEPT !.deed = Found(result.ref, bad)]
      PROVE  ScrapeInv'
  <2>1. Tasks[task] = "nvdeed" /\ DeedRight(hit, result.ref)
    BY <1>2, <1>6, TaskList DEF ScrapeInv, HitInv
  <2> DEFINE f == Found(result.ref, bad)
  <2>2. f # None => DeedFile(f)
    BY <1>1, <2>1, LoopEnds DEF DeedFile
  <2> HIDE DEF f
  <2>3. result' = [result EXCEPT !.deed = f]
    BY <1>6, <2>1 DEF f
  <2>4. Shaped(result') /\ result'.deed = f /\ result'.plat = result.plat
    BY <1>2, <2>3, WithDeed
  <2>5. FileInv'
    BY <1>1, <2>2, <2>4, FiledStays DEF ScrapeInv
  <2>6. QED
    BY <1>1, <1>2, <2>5, TaskOver
<1>7. QED
  BY <1>1, <1>3, <1>4, <1>5, <1>6

-----------------------------------------------------------------------------
(* The other portals *)

\* What is fetched is one of the documents found, and filed by the task.
LEMMA FetchKeeps ==
    ASSUME FileInv, UNCHANGED args, portal # "newvision", NEW ids, NEW by, NEW keep,
           Shaped(keep), keep.deed = result.deed, keep.plat = result.plat,
           Tasks[task] = "plat" => \A d \in ids : PlatRight(d),
           Tasks[task] # "plat" => \A d \in ids : DeedRight(d, by),
           Fetch(ids, by, keep)
    PROVE  FileInv'
<1>1. CASE result' = keep
  BY <1>1, FiledStays
<1>2. ASSUME NEW d \in ids, NEW b \in {d, None}, NEW pages,
             result' = IF b = None THEN keep
                       ELSE IF Tasks[task] = "plat"
                       THEN [keep EXCEPT !.plat = [doc |-> b, by |-> by, pages |-> pages,
                                                   bad |-> {}, late |-> FALSE]]
                       ELSE [keep EXCEPT !.deed = [doc |-> b, by |-> by, pages |-> pages,
                                                   bad |-> {}, late |-> FALSE]]
      PROVE  FileInv'
  <2> DEFINE f == [doc |-> b, by |-> by, pages |-> pages, bad |-> {}, late |-> FALSE]
  <2>1. f.doc = b /\ f.by = by
    OBVIOUS
  <2> HIDE DEF f
  <2>2. CASE b = None
    BY <1>1, <1>2, <2>2
  <2>3. CASE b # None /\ Tasks[task] = "plat"
    <3>1. b = d /\ result' = [keep EXCEPT !.plat = f]
      BY <1>2, <2>3 DEF f
    <3>2. PlatFile(f)
      BY <2>1, <2>3, <3>1 DEF PlatFile
    <3>3. Shaped(result') /\ result'.deed = result.deed /\ result'.plat = f
      BY <3>1, WithPlat
    <3>4. QED
      BY <3>2, <3>3, FiledStays
  <2>4. CASE b # None /\ Tasks[task] # "plat"
    <3>1. b = d /\ result' = [keep EXCEPT !.deed = f]
      BY <1>2, <2>4 DEF f
    <3>2. DeedFile(f)
      BY <2>1, <2>4, <3>1 DEF DeedFile
    <3>3. Shaped(result') /\ result'.deed = f /\ result'.plat = result.plat
      BY <3>1, WithDeed
    <3>4. QED
      BY <3>2, <3>3, FiledStays
  <2>5. QED
    BY <2>2, <2>3, <2>4
<1>3. QED
  BY <1>1, <1>2 DEF Fetch, _capture, first_pdf

LEMMA OtherPortalStep ==
    ASSUME ScrapeInv, calls = 1, calls' = 1, portal # "newvision", Number \/ BookPage \/ Plat
    PROVE  ScrapeInv'
<1>1. sc = "search" /\ NextTask /\ UNCHANGED args
  BY DEF Number, BookPage, Plat, Searching
<1>2. task \in 1..Len(Tasks) /\ FileInv /\ Shaped(result)
  BY <1>1 DEF ScrapeInv, TaskInv, FileInv
<1>3. CASE UNCHANGED result
  BY <1>1, <1>2, <1>3, FiledStays, TaskOver
<1>4. CASE Number
  <2>1. CASE UNCHANGED result
    BY <1>3, <2>1
  <2>2. CASE Fetch(search_document_number(deedArg.num), "number", [result EXCEPT !.ref = "number"])
    <3>1. Tasks[task] = "number"
      BY <1>4 DEF Number, Searching
    <3>2. \A d \in search_document_number(deedArg.num) : DeedRight(d, "number")
      BY DEF search_document_number, DeedRight
    <3> DEFINE keep == [result EXCEPT !.ref = "number"]
    <3>3. Shaped(keep) /\ keep.deed = result.deed /\ keep.plat = result.plat
      BY <1>2, WithRef
    <3> HIDE DEF keep
    <3>4. FileInv'
      BY <1>1, <1>2, <2>2, <3>1, <3>2, <3>3, FetchKeeps DEF keep
    <3>5. QED
      BY <1>1, <1>2, <3>4, TaskOver
  <2>3. QED
    BY <1>4, <2>1, <2>2 DEF Number
<1>5. CASE BookPage
  <2>1. CASE UNCHANGED result
    BY <1>3, <2>1
  <2>2. CASE Fetch(ByBookPage(deedArg.bp), "bookpage", [result EXCEPT !.ref = "bookpage"])
    <3>1. Tasks[task] = "bookpage"
      BY <1>5 DEF BookPage, Searching
    <3>2. \A d \in ByBookPage(deedArg.bp) : DeedRight(d, "bookpage")
      BY DEF ByBookPage, _id_by_book_page, by_book_page, DeedRight
    <3> DEFINE keep == [result EXCEPT !.ref = "bookpage"]
    <3>3. Shaped(keep) /\ keep.deed = result.deed /\ keep.plat = result.plat
      BY <1>2, WithRef
    <3> HIDE DEF keep
    <3>4. FileInv'
      BY <1>1, <1>2, <2>2, <3>1, <3>2, <3>3, FetchKeeps DEF keep
    <3>5. QED
      BY <1>1, <1>2, <3>4, TaskOver
  <2>3. QED
    BY <1>5, <2>1, <2>2 DEF BookPage
<1>6. CASE Plat
  <2>1. CASE UNCHANGED result
    BY <1>3, <2>1
  <2>2. CASE platArg.page # 0 /\ Fetch(ByBookPage(<<platArg.book, platArg.page>>), "bookpage", result)
    <3>1. Tasks[task] = "plat"
      BY <1>6 DEF Plat, Searching
    <3>2. ASSUME NEW d \in ByBookPage(<<platArg.book, platArg.page>>) PROVE PlatRight(d)
      <4>1. d.bp = <<platArg.book, platArg.page>>
        BY <3>2 DEF ByBookPage, _id_by_book_page, by_book_page
      <4>2. QED
        BY <2>2, <4>1 DEF PlatRight
    <3>3. FileInv'
      BY <1>1, <1>2, <2>2, <3>1, <3>2, FetchKeeps
    <3>4. QED
      BY <1>1, <1>2, <3>3, TaskOver
  <2>3. QED
    BY <1>6, <2>1, <2>2 DEF Plat
<1>7. QED
  BY <1>4, <1>5, <1>6

-----------------------------------------------------------------------------
(* The scrape in a run *)

LEMMA FetchDocumentsStep ==
    ASSUME ScrapeInv, calls = 1, calls' = 1, fetch_documents
    PROVE  ScrapeInv'
<1>0. Shaped(result)
  BY DEF ScrapeInv, FileInv
<1>1. CASE _fetch_once
  BY <1>1, NvPlatStep, NvDeedStep, FirstPageStep, ClickStep, SaveStep DEF _fetch_once
<1>2. CASE _fetch_tyler \/ _fetch_manatee \/ _fetch_volusia
  BY <1>2, OtherPortalStep DEF _fetch_tyler, _fetch_manatee, _fetch_volusia
<1>3. CASE BrowserDies \/ OtherError
  <2>1. /\ UNCHANGED args /\ sc' \in {"search", "returned"} /\ (sc' = "search" => task' = 1)
        /\ result' = result \/ result' = [result EXCEPT !.error = TRUE]
    BY <1>3 DEF BrowserDies, OtherError
  <2>2. Shaped(result') /\ result'.deed = result.deed /\ result'.plat = result.plat
    <3>1. CASE result' = result
      BY <1>0, <3>1
    <3>2. CASE result' = [result EXCEPT !.error = TRUE]
      BY <1>0, <3>2 DEF Shaped
    <3>3. QED
      BY <2>1, <3>1, <3>2
  <2>3. FileInv'
    BY <2>1, <2>2, FiledStays DEF ScrapeInv
  <2>4. 1 \in 1..Len(Tasks)
    BY DEF Tasks
  <2>5. TaskInv'
    BY <2>1, <2>4, SameArgs DEF TaskInv, Viewing
  <2>6. HitInv' /\ PagesInv'
    BY <2>1 DEF HitInv, PagesInv, Viewing
  <2>7. QED
    BY <2>3, <2>5, <2>6 DEF ScrapeInv
<1>4. QED
  BY <1>1, <1>2, <1>3 DEF fetch_documents

\* A step of the pipeline leaves the scrape alone.
LEMMA ScrapeAlone ==
    ASSUME ScrapeInv, UNCHANGED <<scrapeVars, calls>>
    PROVE  ScrapeInv'
  BY DEF ScrapeInv, FileInv, TaskInv, HitInv, PagesInv, Shaped, DeedFile, PlatFile, DeedRight,
     PlatRight, Vesting, AllThere, Tasks, scrapeVars, args, capture

LEMMA ScrapeStep == PipeInv /\ ScrapeInv /\ [Next]_vars => ScrapeInv'
<1> SUFFICES ASSUME PipeInv, ScrapeInv, [Next]_vars PROVE ScrapeInv'
  OBVIOUS
<1>1. CASE _scrape_documents /\ Scrapes
  <2>1. /\ pl = "fetch" /\ cache = <<>> /\ calls' = calls + 1 /\ sc' = "search"
        /\ UNCHANGED <<args, task, result>>
    BY <1>1 DEF _scrape_documents, NotCached
  <2>2. calls = 0 /\ task = 1
    BY <2>1 DEF PipeInv, CacheInv, ScrapeInv, TaskInv
  <2>3. FileInv'
    BY <2>1, FiledStays DEF ScrapeInv, FileInv
  <2>4. 1 \in 1..Len(Tasks)
    BY DEF Tasks
  <2>5. TaskInv'
    <3>1. Tasks' = Tasks /\ task' = 1 /\ calls' = 1
      BY <2>1, <2>2, SameArgs
    <3>2. QED
      BY <2>4, <3>1 DEF TaskInv
  <2>6. HitInv' /\ PagesInv'
    BY <2>1 DEF HitInv, PagesInv, Viewing
  <2>7. QED
    BY <2>3, <2>5, <2>6 DEF ScrapeInv
<1>2. CASE pl = "scraping" /\ fetch_documents /\ UNCHANGED pipeVars
  <2>1. calls = 1 /\ calls' = 1
    BY <1>2 DEF PipeInv, CacheInv, pipeVars
  <2>2. QED
    BY <1>2, <2>1, FetchDocumentsStep
<1>3. CASE UNCHANGED <<scrapeVars, calls>>
  BY <1>3, ScrapeAlone
<1>4. CASE _scrape_documents /\ ~Scrapes
  BY <1>3, <1>4 DEF _scrape_documents
<1>5. CASE Scrape
  BY <1>2, <1>3, <1>5 DEF Scrape
<1>6. CASE build_steps \/ FetchedDocument \/ Return
  BY <1>3, <1>6 DEF build_steps, FetchedDocument, Return
<1>7. CASE _run_one \/ Fallback
  BY <1>3, <1>7 DEF _run_one, Fallback, _assemble
<1>8. CASE Done \/ UNCHANGED vars
  BY <1>3, <1>8 DEF Done, vars, pipeVars
<1>9. QED
  BY <1>1, <1>4, <1>5, <1>6, <1>7, <1>8 DEF Next

LEMMA ScrapeInvHolds == Spec => []ScrapeInv
<1>1. Init => ScrapeInv
  BY DEF Init, ScrapeInit, ScrapeInv, FileInv, TaskInv, HitInv, PagesInv, Shaped, NoResult, Viewing
<1>2. QED
  BY <1>1, PipeInvHolds, ScrapeStep, PTL DEF Spec

\* The searches of the four portals: what is filed as the deed or the plat stands
\* under the number or at the book and page its reference leads to, whichever
\* attempt found it and whatever else is filed there.
THEOREM FiledIsRight == Spec => []RightDocument
<1>1. ScrapeInv => RightDocument
  BY DEF ScrapeInv, FileInv, DeedFile, PlatFile, DeedRight, PlatRight, Vesting, RightDocument
<1>2. QED
  BY <1>1, ScrapeInvHolds, PTL

\* capture_pages and _save_pdf: the spare clicks suffice for every page, for any
\* number of pages, unless an answer was late or pages repeated more often than
\* they cover; only what cannot be decoded is left out.
THEOREM NoPageMissing == Spec => []AllPages
<1>1. ScrapeInv => AllPages
  BY DEF ScrapeInv, FileInv, DeedFile, PlatFile, AllThere, AllPages
<1>2. QED
  BY <1>1, ScrapeInvHolds, PTL
=============================================================================
