-------------------------- MODULE PropertyContext --------------------------
(***************************************************************************)
(* Phases 1 to 3 of a research run: geocode the order's address (or look   *)
(* its parcel id up), find the parcel in the county's and the state's      *)
(* ArcGIS layers, decide whether it is trusted, and assemble the reference *)
(* links.  Every answer of a remote service is a choice, errors included.  *)
(*                                                                         *)
(* An address text is a house number and the set of words of its street    *)
(* part; a parcel record has fields at positions, each a name and such a   *)
(* text.  The code sorts names by the fragments they hold: KindOf.  An     *)
(* answer of a layer is the positions of its parcels in Parcel.            *)
(***************************************************************************)
EXTENDS Integers, FiniteSets, SequencesExt

CONSTANTS
    NoHouse,    \* an address text without a house number
    Drop,       \* street suffixes and directionals (_SUFFIX, _DIR)
    Digit,      \* words that hold a digit without being a house number
    KindOf,     \* what the name of a field matches
    Parcel,     \* a sequence: the parcels of the area in layer order
    Attrs,      \* the record of each parcel
    Related,    \* its row in the related table
    Layer,      \* ArcGIS layers
    Dists,      \* distances (m) of a parcel from the geocoded point
    Regs,       \* registry entries a county may have
    Searches,   \* orders: address, parcel id, and the id without dashes and spaces
    Moved,      \* other addresses a geocoder may answer with
    MaxFeats,   \* features kept of an answer: 400
    MaxFields   \* fields asked of a layer: 40

Text  == [house |-> NoHouse, words |-> {}]      \* the empty string
Boxes == <<75, 150, 300>>

IsSeq(s) == s \in Seq(ToSet(s))

\* A geocoder that answers names an address.
ASSUME ContextAssumption ==
    /\ MaxFeats \in Nat \ {0} /\ MaxFields \in Nat \ {0}
    /\ NoHouse \notin Drop \cup Digit
    /\ Text \notin Moved
    /\ IsSeq(Parcel)
    /\ \A c \in ToSet(Parcel) : IsSeq(Attrs[c]) /\ IsSeq(Related[c])

VARIABLES
    pc,     \* where the resolution is
    srch,   \* the order's address and parcel id
    reg,    \* what the registries know of the county and its state
    near,   \* how far each parcel of each layer is from the point
    geo,    \* the geocoder's answer
    at,     \* the layer being asked
    box,    \* the box being asked: 0 is the point itself
    star,   \* its field list could not be read: every field is returned
    cands,  \* the widest non-empty answer so far
    p,      \* the parcel result
    ctx     \* the property context

vars == <<pc, srch, reg, near, geo, at, box, star, cands, p, ctx>>

---------------------------------------------------------------------------
(* Texts and the situs of a record *)

_isblank(v)       == v = Text
_has_street(v)    == v.words # {} /\ (v.house # NoHouse \/ v.words \cap Digit # {})
_street_tokens(v) == v.words \ Drop

_addr_match(search, situs) ==
    IF NoHouse \in {search.house, situs.house} THEN "unknown"
    ELSE IF /\ search.house = situs.house
            /\ \/ {} \in {_street_tokens(search), _street_tokens(situs)}
               \/ _street_tokens(search) \cap _street_tokens(situs) # {}
         THEN "yes" ELSE "no"

Kind(f) == KindOf[f.name]

\* The first field of these kinds, none of the excluded names, that is not
\* blank; that holds a street.
FirstField(attrs, kinds, exclude) ==
    LET I == {i \in DOMAIN attrs : /\ Kind(attrs[i]) \in kinds
                                   /\ attrs[i].name \notin exclude
                                   /\ ~_isblank(attrs[i].val)}
    IN  IF I = {} THEN Text ELSE attrs[Min(I)].val

FirstStreet(attrs, kinds, exclude) ==
    LET I == {i \in DOMAIN attrs : /\ Kind(attrs[i]) \in kinds
                                   /\ attrs[i].name \notin exclude
                                   /\ _has_street(attrs[i].val)}
    IN  IF I = {} THEN Text ELSE attrs[Min(I)].val

FirstText(texts) ==
    LET I == {i \in DOMAIN texts : ~_isblank(texts[i])}
    IN  IF I = {} THEN Text ELSE texts[Min(I)]

\* Fields whose name the two passes for components accept.  Both leave owner and
\* mail fields out; neither leaves billing, taxpayer and postal fields out.
NumKinds  == {"num", "billnum"}
NameKinds == {"name", "full", "site", "street", "billing"}

_compose_situs(attrs, exclude) ==
    LET num  == FirstField(attrs, NumKinds, exclude)
        name == FirstField(attrs, NameKinds, exclude)
    IN  IF _isblank(num) \/ _isblank(name) THEN Text
        ELSE [house |-> num.house,
              words |-> name.words \cup ({name.house} \ {NoHouse})]

\* Mutant: the aliases are one list, without priority.
SitusAnyOrder(attrs, exclude, compose) ==
    IF compose THEN _compose_situs(attrs, exclude)
    ELSE FirstText(<<FirstStreet(attrs, {"full", "site", "street"}, exclude),
                     _compose_situs(attrs, exclude)>>)

\* A field named as a complete address, then the aliases in order of priority
\* (a site address before a plain one), then the components.
situs_of(attrs, exclude, compose) ==
    IF compose THEN _compose_situs(attrs, exclude)
    ELSE FirstText(<<FirstStreet(attrs, {"full"}, exclude),
                     FirstStreet(attrs, {"site"}, exclude),
                     FirstStreet(attrs, {"street"}, exclude),
                     _compose_situs(attrs, exclude)>>)

\* The county's overrides apply to its own layers, never to the state's.
_situs_fn(attrs, layer) ==
    IF layer \in ToSet(reg.county)
    THEN situs_of(attrs, reg.exclude, reg.compose)
    ELSE situs_of(attrs, {}, FALSE)

_field_rank == [full |-> 0, site |-> 1, street |-> 3, mail |-> 3, billing |-> 3,
                name |-> 10, billnum |-> 10, num |-> 13, owner |-> 16, id |-> 19,
                geoid |-> 28, deed |-> 38, locid |-> 46]

\* The fields asked of a layer: the most important MaxFields, or all of them.
_out_fields(attrs) ==
    LET Before(i) == {j \in DOMAIN attrs :
            \/ _field_rank[Kind(attrs[j])] < _field_rank[Kind(attrs[i])]
            \/ _field_rank[Kind(attrs[j])] = _field_rank[Kind(attrs[i])] /\ j < i}
    IN  [i \in {k \in DOMAIN attrs : star \/ Cardinality(Before(k)) < MaxFields} |-> attrs[i]]

\* Names that look like an identifier, to the query by id and to the context: a
\* GEOID only to the one, a LOC_ID only to the other.
_ID_CANDIDATES == {"id", "geoid"}
IdKeys         == {"id", "locid"}

_find_parcel_id(attrs) == FirstField(attrs, IdKeys, {})
_extract_hints(attrs)  == {f \in ToSet(attrs) : Kind(f) \in {"owner", "id", "deed"}
                                                /\ ~_isblank(f.val)}

---------------------------------------------------------------------------
(* Layers and candidates *)

\* The layers of a resolution in the order they are asked.  A county that the
\* geocoder did not name has neither a registry entry nor a state.
Services == IF geo.county THEN reg.county \o reg.state ELSE <<>>
Here     == Services[at]

\* What a layer holds at the point or in a box, and what is kept of the answer:
\* the first MaxFeats.
Inside(layer, dist) == {i \in DOMAIN Parcel : near[layer][Parcel[i]] <= dist}

_point_query(layer, dist) ==
    {i \in Inside(layer, dist) :
        Cardinality({j \in Inside(layer, dist) : j < i}) < MaxFeats}

Situs(layer, i)  == _situs_fn(_out_fields(Attrs[Parcel[i]]), layer)
Matches(layer, i) == _addr_match(geo.matched, Situs(layer, i)) = "yes"
has_match(layer, feats) == \E i \in feats : Matches(layer, i)

\* A positive match, else the same house number, else any record with a situs;
\* the first of them.
_choose(layer, feats) ==
    LET yes   == {i \in feats : Matches(layer, i)}
        house == {i \in feats : /\ geo.matched.house # NoHouse
                                /\ Situs(layer, i).house = geo.matched.house}
        any   == {i \in feats : ~_isblank(Situs(layer, i))}
    IN  Parcel[Min(IF yes # {} THEN yes ELSE IF house # {} THEN house
                   ELSE IF any # {} THEN any ELSE feats)]

\* The related row fills the fields the record leaves blank or lacks, by name; the
\* ones it lacks, those cut from the answer included, come after the others.
_enrich_one(attrs, c) ==
    LET row  == Related[c]
        n    == Len(Attrs[c])
        Of(name, r) == {i \in DOMAIN r : r[i].name = name}
        Filled(f) == IF _isblank(f.val) /\ Of(f.name, row) # {}
                     THEN row[Min(Of(f.name, row))] ELSE f
        new  == {n + j : j \in {i \in DOMAIN row : Of(row[i].name, attrs) = {}}}
    IN  IF \A i \in Of(reg.key, attrs) : _isblank(attrs[i].val) THEN attrs
        ELSE [i \in DOMAIN attrs \cup new |->
                IF i \in DOMAIN attrs THEN Filled(attrs[i]) ELSE row[i - n]]

NoParcel == [found |-> FALSE, of |-> "none", attrs |-> <<>>, situs |-> Text, layer |-> "none",
             buffered |-> FALSE, match |-> "unknown", joined |-> FALSE]

\* match is recomputed from the record as it now is; a widened box is a guess
\* unless the address matched.
_finish(layer, c, attrs, buffered, joined) ==
    LET situs == _situs_fn(attrs, layer)
        match == _addr_match(geo.matched, situs)
    IN  [found |-> TRUE, of |-> c, attrs |-> attrs, situs |-> situs, layer |-> layer,
         buffered |-> buffered /\ match # "yes", match |-> match, joined |-> joined]

---------------------------------------------------------------------------
(* Phase 1: where is it *)

NoGeo == [provider |-> "none", matched |-> Text, county |-> FALSE]
NoCtx == [ok |-> FALSE, pid |-> Text, hints |-> {}, warnings |-> {},
          appraiser |-> "none", clerk |-> "none", plat |-> "none", job |-> Text]

Init ==
    /\ srch \in Searches /\ reg \in Regs
    /\ near \in [Layer -> [ToSet(Parcel) -> Dists]]
    /\ pc = IF srch.pid # Text /\ srch.addr = Text THEN "byid" ELSE "census"
    /\ geo = NoGeo /\ at = 1 /\ box = 0 /\ star = FALSE /\ cands = {}
    /\ p = NoParcel /\ ctx = NoCtx

Raise == pc' = "failed" /\ UNCHANGED <<srch, reg, near, geo, at, box, star, cands, p, ctx>>

Found(provider, matched, next) ==
    /\ \E known \in BOOLEAN :
          geo' = [provider |-> provider, matched |-> matched, county |-> known]
    /\ pc' = next
    /\ UNCHANGED <<srch, reg, near, at, box, star, cands, p, ctx>>

\* The Census call is not guarded: its error ends the run.  Its answer is the
\* address Census matched, which may be another than the order's.
_census_address ==
    /\ pc = "census"
    /\ \/ srch.addr # Text /\ \E a \in Moved \cup {srch.addr} : Found("census", a, "located")
       \/ pc' = "arcgis" /\ UNCHANGED <<srch, reg, near, geo, at, box, star, cands, p, ctx>>
       \/ Raise

\* The two fallbacks swallow their errors.  ArcGIS may answer with a near
\* address (score 80 or more).
_arcgis ==
    /\ pc = "arcgis"
    /\ \/ srch.addr # Text /\ \E a \in Moved \cup {srch.addr} : Found("arcgis", a, "located")
       \/ pc' = "nominatim" /\ UNCHANGED <<srch, reg, near, geo, at, box, star, cands, p, ctx>>

\* A display name has a comma after the house number: only the house is left
\* of it, or only the street when the place has no number.
_nominatim ==
    /\ pc = "nominatim"
    /\ \/ srch.addr # Text
          /\ \E a \in {[srch.addr EXCEPT !.words = {}], [srch.addr EXCEPT !.house = NoHouse]} \ {Text} :
                Found("nominatim", a, "located")
       \/ Raise

\* Coordinates that are missing or no numbers end the run.
Coordinates ==
    /\ pc = "located"
    /\ \/ pc' = "layer" /\ UNCHANGED <<srch, reg, near, geo, at, box, star, cands, p, ctx>>
       \/ Raise

---------------------------------------------------------------------------
(* Phase 1a: the parcel id instead of an address *)

ByIdServices == (IF srch.fips THEN reg.county ELSE <<>>) \o reg.state

JoinedAttrs(layer, c, attrs) ==
    IF layer \in reg.related THEN {attrs, _enrich_one(attrs, c)} ELSE {attrs}

Identifies(f) == Kind(f) \in _ID_CANDIDATES /\ f.val \in {srch.pid, srch.bare}

\* Mutant: any parcel of the layer answers the query.
QueryAny == ToSet(Parcel)

\* Parcels with an identifier, of whatever kind, that is the one searched for or
\* that one stripped of dashes and spaces.  Each field and form is a query of
\* its own that may fail, so any of them may be the first to answer; a layer
\* that holds none, or fails, is passed over.
_query_by_id == {c \in ToSet(Parcel) : \E f \in ToSet(Attrs[c]) : Identifies(f)}

\* An id match is trusted as it stands; a record without a centroid is none.
resolve_by_id ==
    /\ pc = "byid"
    /\ \/ /\ at <= Len(ByIdServices)
          /\ LET layer == ByIdServices[at] IN
             \E c \in _query_by_id :
             \E attrs \in JoinedAttrs(layer, c, _out_fields(Attrs[c])) :
                LET situs == _situs_fn(attrs, layer) IN
                \/ /\ p' = [NoParcel EXCEPT !.found = TRUE, !.of = c, !.attrs = attrs,
                              !.situs = situs, !.layer = layer, !.match = "yes"]
                   /\ \E known \in BOOLEAN :
                        geo' = [provider |-> "parcel-id", county |-> known,
                                matched |-> IF _isblank(situs) THEN srch.pid ELSE situs]
                   /\ pc' = "decide"
                   /\ UNCHANGED <<srch, reg, near, at, box, star, cands, ctx>>
                \/ Raise
       \/ /\ at <= Len(ByIdServices)
          /\ at' = at + 1
          /\ UNCHANGED <<pc, srch, reg, near, geo, box, star, cands, p, ctx>>
       \/ at > Len(ByIdServices) /\ Raise

---------------------------------------------------------------------------
(* Phase 2: the parcel *)

NextLayer ==
    /\ at' = at + 1 /\ pc' = "layer" /\ box' = 0 /\ cands' = {}
    /\ UNCHANGED <<srch, reg, near, geo, star, p, ctx>>

\* A county service is searched for its parcel layer first; a service without
\* one, or an error, leaves it out.  The field list is cached per layer.
_arcgis_layer_url ==
    /\ pc = "layer" /\ at <= Len(Services)
    /\ \/ /\ pc' = "query" /\ star' \in BOOLEAN
          /\ UNCHANGED <<srch, reg, near, geo, at, box, cands, p, ctx>>
       \/ at <= Len(reg.county) /\ NextLayer

NoLayerLeft ==
    /\ pc = "layer" /\ at > Len(Services)
    /\ pc' = "decide"
    /\ UNCHANGED <<srch, reg, near, geo, at, box, star, cands, p, ctx>>

\* Join, then finish; a failed join leaves the record as it was.
Take(layer, feats, buffered) ==
    LET c == _choose(layer, feats) IN
    \E attrs \in JoinedAttrs(layer, c, _out_fields(Attrs[c])) :
        /\ p' = _finish(layer, c, attrs, buffered, attrs # _out_fields(Attrs[c]))
        /\ cands' = feats /\ pc' = "decide"
        /\ UNCHANGED <<srch, reg, near, geo, at, box, star, ctx>>

\* Mutant: a box with any parcel in it ends the widening.
EnoughAny(feats) == feats # {}

\* The point's own parcels are taken when there is no address to check or one
\* of them matches, those of a box only when one matches.
Enough(feats) ==
    feats # {} /\ (has_match(Here, feats) \/ (box = 0 /\ geo.matched = Text))

LastBox == box = Len(Boxes)

\* One query.  The box grows until it is enough; after the last one the widest
\* answer is taken as a guess.
_candidates ==
    /\ pc = "query"
    /\ LET feats  == _point_query(Here, IF box = 0 THEN 0 ELSE Boxes[box])
           widest == IF feats # {} THEN feats ELSE cands
       IN  \/ Enough(feats) /\ Take(Here, feats, box # 0)
           \/ ~Enough(feats) /\ LastBox /\ widest # {} /\ Take(Here, widest, TRUE)
           \/ ~Enough(feats) /\ LastBox /\ widest = {} /\ NextLayer
           \/ /\ ~Enough(feats) /\ ~LastBox
              /\ box' = box + 1 /\ cands' = widest
              /\ UNCHANGED <<pc, srch, reg, near, geo, at, star, p, ctx>>

\* An error loses what the layer answered before and goes on to the next one.
QueryFails == pc = "query" /\ NextLayer

---------------------------------------------------------------------------
(* The decision, and phase 3 *)

FirstLink(links) ==
    LET i == SelectInSeq(links, LAMBDA l : l # "none")
    IN  IF i = 0 THEN "none" ELSE links[i]

\* What the registries say of the county, nothing when it is not known.
lookup(link)  == IF geo.county THEN reg.links[link] ELSE "none"
statewide(link) == IF geo.county THEN reg.statelinks[link] ELSE "none"

references ==
    LET clerk == FirstLink(<<lookup("clerk"), statewide("clerk"), "netronline">>)
    IN  [clerk |-> clerk, plat |-> FirstLink(<<lookup("plat"), statewide("plat"), clerk>>)]

parcel_ok == p.found /\ p.match # "no" /\ ~p.buffered

\* Mutant: only the last fallback geocoder is warned about.
WarnOfLast ==
    (IF geo.provider = "nominatim" THEN {"geocoder"} ELSE {})
    \cup (IF parcel_ok THEN {} ELSE {"parcel"})

WarningBag ==
    (IF geo.provider # "census" THEN {"geocoder"} ELSE {})
    \cup (IF parcel_ok THEN {} ELSE {"parcel"})

\* An unconfirmed parcel gives the run neither its id nor its hints.  The
\* engine passes no job number, so the id alone keys the staging folder.
resolve_property_context ==
    /\ pc = "decide"
    /\ LET pid == IF parcel_ok THEN _find_parcel_id(p.attrs) ELSE Text
       IN  ctx' = [ok |-> parcel_ok, pid |-> pid, job |-> pid,
                   hints |-> IF parcel_ok THEN _extract_hints(p.attrs) ELSE {},
                   warnings |-> WarningBag,
                   appraiser |-> FirstLink(<<lookup("appraiser"), statewide("appraiser"),
                                             "netronline">>),
                   clerk |-> references.clerk, plat |-> references.plat]
    /\ pc' = "done"
    /\ UNCHANGED <<srch, reg, near, geo, at, box, star, cands, p>>

Done == pc \in {"done", "failed"} /\ UNCHANGED vars

Next ==
    \/ _census_address \/ _arcgis \/ _nominatim \/ Coordinates \/ resolve_by_id
    \/ _arcgis_layer_url \/ NoLayerLeft \/ _candidates \/ QueryFails
    \/ resolve_property_context \/ Done

Spec == Init /\ [][Next]_vars

---------------------------------------------------------------------------
(* Properties *)

\* A trusted parcel was identified: by an id in its own record, or by a situs
\* that positively matches the geocoded address, however the candidates were
\* gathered and whatever was cut or joined.  The one exception is a related-table
\* join that replaced a matching situs of the point's own parcel with one that
\* has no house number, which context.py's "is not False" lets through.
TrustedIsMatched ==
    (pc = "done" /\ ctx.ok) =>
        \/ /\ geo.provider = "parcel-id"
           /\ \E f \in ToSet(Attrs[p.of]) : Identifies(f)
        \/ _addr_match(geo.matched, p.situs) = "yes"
        \/ p.joined /\ p.situs.house = NoHouse

\* The names the county excludes, and whether the record holds a street in a
\* field named as a site address that is not among them.
Excluded == IF p.layer \in ToSet(reg.county) THEN reg.exclude ELSE {}
Sited    == /\ p.layer \in ToSet(reg.county) => ~reg.compose
            /\ \E f \in ToSet(p.attrs) : /\ Kind(f) \in {"full", "site"}
                                          /\ f.name \notin Excluded
                                          /\ _has_street(f.val)

\* situs_of: a record that holds a site address is matched by it, wherever its
\* plain, billing and component fields stand; only one without is matched by a
\* plain address or a number, which may be the one of the owner's bills.  A
\* field the county excludes never decides.
HouseIsTheParcels ==
    (pc = "done" /\ ctx.ok /\ geo.provider # "parcel-id" /\ p.match = "yes") =>
        \E f \in ToSet(p.attrs) :
            /\ Kind(f) \in IF Sited THEN {"full", "site"} ELSE {"street"} \cup NumKinds
            /\ f.name \notin Excluded
            /\ f.val.house = geo.matched.house

\* Widening never misses: when the layer that decided holds a parcel that
\* matches the address at the point or in a box that holds no more parcels than
\* an answer keeps, the run trusts one that matches, whatever the larger boxes
\* hold and the cut leaves of them.
FindsTheSubject ==
    (pc = "done" /\ p.found /\ geo.provider # "parcel-id" /\ ~p.joined
      /\ \E d \in {0} \cup ToSet(Boxes) :
            /\ Cardinality(Inside(p.layer, d)) <= MaxFeats
            /\ has_match(p.layer, Inside(p.layer, d)))
    => ctx.ok /\ p.match = "yes"

\* A run that trusts a parcel whose situs does not match the order's own
\* address, because a fallback geocoder moved or shortened it, says so.  Only an
\* address that Census itself changed goes without a word.
MovedIsFlagged ==
    (pc = "done" /\ ctx.ok /\ srch.addr # Text /\ ~p.joined
      /\ _addr_match(srch.addr, p.situs) # "yes")
    => \/ "geocoder" \in ctx.warnings
       \/ geo.provider = "census" /\ geo.matched # srch.addr

\* resolve's comment: of a county's layers, "use the first that returns a
\* parcel at this point".  A layer with nothing at the point must not end the
\* search unconfirmed when the next one holds the subject there.
PointDecides ==
    (pc = "done" /\ p.found /\ ~ctx.ok /\ geo.county /\ at < Len(reg.county)
      /\ has_match(Services[at + 1], _point_query(Services[at + 1], 0)))
    => _point_query(p.layer, 0) # {}

=============================================================================
