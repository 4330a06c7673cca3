--------------------------- MODULE MCStepPipeline ---------------------------
(***************************************************************************)
(* Runs over a portal with five documents: the subject's deed and an       *)
(* affidavit filed under the same book and page, a deed of another         *)
(* property of its owner, the subject's plat, which has the deed's book    *)
(* and page in another index, and a newer mortgage.                        *)
(***************************************************************************)
EXTENDS StepPipeline

DocSet == {
    [series |-> "O", bp |-> <<1, 1>>, num |-> 11, legal |-> "S", type |-> "deed",
     owner |-> "A", grantee |-> TRUE, date |-> 2, pages |-> 2],
    [series |-> "O", bp |-> <<1, 1>>, num |-> 15, legal |-> "T", type |-> "affidavit",
     owner |-> "B", grantee |-> FALSE, date |-> 2, pages |-> 1],
    [series |-> "O", bp |-> <<1, 2>>, num |-> 12, legal |-> "T", type |-> "deed",
     owner |-> "A", grantee |-> TRUE, date |-> 3, pages |-> 1],
    [series |-> "P", bp |-> <<1, 1>>, num |-> 13, legal |-> "S", type |-> "plat",
     owner |-> "D", grantee |-> FALSE, date |-> 1, pages |-> 3],
    [series |-> "O", bp |-> <<2, 1>>, num |-> 14, legal |-> "S", type |-> "mortgage",
     owner |-> "A", grantee |-> FALSE, date |-> 4, pages |-> 1]}

\* A number and a book and page; a number the portal does not know, the book and
\* page in the legal, a plat book without a page; an owner alone.
ByNumber == [num |-> 12, bp |-> <<1, 2>>, legalbp |-> None, owner |-> "A",
             platbook |-> 1, platpage |-> 1, sub |-> "S"]
ByLegal  == [num |-> 99, bp |-> None, legalbp |-> <<1, 1>>, owner |-> "A",
             platbook |-> 1, platpage |-> 0, sub |-> "S"]
ByOwner  == [num |-> 0, bp |-> None, legalbp |-> None, owner |-> "A",
             platbook |-> None, platpage |-> 0, sub |-> "S"]
Nothing  == [ByOwner EXCEPT !.owner = None]

Ctx(p, o, b) == [portal |-> p, ok |-> o, buffered |-> b, fips |-> TRUE]
Portals == {"newvision", "tyler", "manatee", "volusia"}

CaseSet ==
    \* the scrape and the steps that share it
    [include: {{"deed", "plat"}, {"plat", "condo"}}, plugged: {{}},
     ctx: {Ctx(p, TRUE, FALSE) : p \in Portals \cup {None}},
     roll: {ByNumber, ByLegal, ByOwner, Nothing}]
    \* an unconfirmed parcel
    \cup [include: {{"parcel", "appraiser", "deed", "plat"}}, plugged: {{}},
          ctx: {Ctx("tyler", FALSE, b) : b \in BOOLEAN}, roll: {ByNumber}]
    \* the sources that raise, and adapters registered in their place
    \cup [include: {{"parcel", "appraiser"}}, plugged: {{}, {"appraiser"}},
          ctx: {Ctx(None, TRUE, FALSE)}, roll: {Nothing}]
    \cup [include: {{"deed", "plat"}}, plugged: {{"deed"}},
          ctx: {Ctx("tyler", TRUE, FALSE)}, roll: {ByNumber}]
    \* also where the county could not be told
    \cup [include: {{"flood", "benchmarks"}}, plugged: {{}, {"flood"}},
          ctx: {[Ctx(None, TRUE, FALSE) EXCEPT !.fips = f] : f \in BOOLEAN}, roll: {Nothing}]
    \* the whole reference set
    \cup [include: {{RESIDENTIAL_DOCS[i] : i \in DOMAIN RESIDENTIAL_DOCS}}, plugged: {{}},
          ctx: {Ctx(None, FALSE, FALSE)}, roll: {Nothing}]

=============================================================================
