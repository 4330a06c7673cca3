------------------------ MODULE PropertyContextProofs ------------------------
(***************************************************************************)
(* Theorems about PropertyContext, for any parcels, records, registries,   *)
(* layers, distances and orders: which parcel a run may trust, by which of *)
(* its fields, that widening the box never misses the subject, and that an *)
(* address a geocoder changed is flagged.                                  *)
(***************************************************************************)
EXTENDS PropertyContext, FiniteSetTheorems, WellFoundedInduction, TLAPS

-----------------------------------------------------------------------------
(* First fields *)

LEMMA MinOf ==
    ASSUME NEW S \in SUBSET Nat, S # {}
    PROVE  Min(S) \in S /\ \A y \in S : Min(S) <= y
<1>1. PICK x \in S : \A y \in S : ~(<<y, x>> \in OpToRel(<, Nat))
  BY NatLessThanWellFounded, WFMin
<1>2. \A y \in S : x <= y
  <2>1. ASSUME NEW y \in S, y < x PROVE FALSE
    <3>1. <<y, x>> \in OpToRel(<, Nat)
      BY <2>1 DEF OpToRel
    <3>2. QED
      BY <1>1, <3>1
  <2>2. QED
    BY <2>1
<1>3. QED
  BY <1>1, <1>2 DEF Min

\* What is picked is a field of the record, of one of the kinds and under a name
\* that is not excluded.
LEMMA FieldPicked ==
    ASSUME NEW attrs, DOMAIN attrs \subseteq Nat, NEW kinds, NEW exclude,
           FirstField(attrs, kinds, exclude) # Text
    PROVE  \E i \in DOMAIN attrs :
              /\ Kind(attrs[i]) \in kinds /\ attrs[i].name \notin exclude
              /\ FirstField(attrs, kinds, exclude) = attrs[i].val
<1> DEFINE I == {i \in DOMAIN attrs : /\ Kind(attrs[i]) \in kinds
                                      /\ attrs[i].name \notin exclude
                                      /\ ~_isblank(attrs[i].val)}
<1>1. I # {} /\ FirstField(attrs, kinds, exclude) = attrs[Min(I)].val
  BY DEF FirstField
<1>2. I \in SUBSET Nat
  OBVIOUS
<1>3. Min(I) \in I
  <2> HIDE DEF I
  <2>1. QED
    BY <1>1, <1>2, MinOf
<1>4. QED
  BY <1>1, <1>3

\* A street is picked exactly when there is one.
LEMMA StreetPicked ==
    ASSUME NEW attrs, DOMAIN attrs \subseteq Nat, NEW kinds, NEW exclude
    PROVE  LET S(i) == /\ Kind(attrs[i]) \in kinds /\ attrs[i].name \notin exclude
                       /\ _has_street(attrs[i].val)
               v == FirstStreet(attrs, kinds, exclude)
           IN  IF v = Text THEN \A i \in DOMAIN attrs : ~S(i)
               ELSE \E i \in DOMAIN attrs : S(i) /\ v = attrs[i].val
<1> DEFINE I == {i \in DOMAIN attrs : /\ Kind(attrs[i]) \in kinds
                                      /\ attrs[i].name \notin exclude
                                      /\ _has_street(attrs[i].val)}
           v == FirstStreet(attrs, kinds, exclude)
<1>1. CASE I = {}
  <2>1. v = Text
    BY <1>1 DEF FirstStreet
  <2>2. QED
    BY <1>1, <2>1
<1>2. CASE I # {}
  <2>1. v = attrs[Min(I)].val
    BY <1>2 DEF FirstStreet
  <2>2. I \in SUBSET Nat
    OBVIOUS
  <2>3. Min(I) \in I
    <3> HIDE DEF I
    <3>1. QED
      BY <1>2, <2>2, MinOf
  <2>4. ~_has_street(Text)
    BY DEF _has_street, Text
  <2>5. v # Text
    BY <2>1, <2>3, <2>4
  <2>6. QED
    BY <2>1, <2>3, <2>5
<1>3. QED
  BY <1>1, <1>2

LEMMA TextPicked ==
    ASSUME NEW a, NEW b, NEW c, NEW d
    PROVE  FirstText(<<a, b, c, d>>) =
             IF a # Text THEN a ELSE IF b # Text THEN b ELSE IF c # Text THEN c ELSE d
<1> DEFINE s == <<a, b, c, d>>
           I == {i \in DOMAIN s : ~_isblank(s[i])}
<1>0. /\ DOMAIN s = 1..4 /\ s[1] = a /\ s[2] = b /\ s[3] = c /\ s[4] = d
      /\ \A i \in 1..4 : i \in I <=> s[i] # Text
  BY DEF _isblank
<1>1. CASE I = {}
  <2>1. FirstText(s) = Text
    BY <1>1 DEF FirstText
  <2> HIDE DEF s, I
  <2>2. a = Text /\ b = Text /\ c = Text /\ d = Text
    BY <1>0, <1>1
  <2>3. QED
    BY <2>1, <2>2 DEF s
<1>2. CASE I # {}
  <2>1. FirstText(s) = s[Min(I)]
    BY <1>2 DEF FirstText
  <2>2. I \in SUBSET Nat /\ I \subseteq 1..4
    OBVIOUS
  <2> HIDE DEF I
  <2>3. Min(I) \in I /\ \A y \in I : Min(I) <= y
    BY <1>2, <2>2, MinOf
  <2> HIDE DEF s
  <2>4. Min(I) \in 1..4 /\ s[Min(I)] # Text /\ \A y \in 1..4 : s[y] # Text => Min(I) <= y
    BY <1>0, <2>2, <2>3
  <2>5. s[Min(I)] = IF a # Text THEN a ELSE IF b # Text THEN b ELSE IF c # Text THEN c ELSE d
    BY <1>0, <2>4
  <2>6. QED
    BY <2>1, <2>5 DEF s
<1>3. QED
  BY <1>1, <1>2

\* The house number of a situs stands in a site address where the record has one.
LEMMA SitusHouse ==
    ASSUME NEW attrs, DOMAIN attrs \subseteq Nat, NEW exclude, NEW compose,
           situs_of(attrs, exclude, compose).house # NoHouse
    PROVE  LET sited == /\ ~compose
                        /\ \E i \in DOMAIN attrs : /\ Kind(attrs[i]) \in {"full", "site"}
                                                   /\ attrs[i].name \notin exclude
                                                   /\ _has_street(attrs[i].val)
           IN  \E i \in DOMAIN attrs :
                  /\ Kind(attrs[i]) \in IF sited THEN {"full", "site"} ELSE {"street"} \cup NumKinds
                  /\ attrs[i].name \notin exclude
                  /\ attrs[i].val.house = situs_of(attrs, exclude, compose).house
<1> DEFINE Site(i) == /\ Kind(attrs[i]) \in {"full", "site"} /\ attrs[i].name \notin exclude
                      /\ _has_street(attrs[i].val)
           sited == ~compose /\ \E i \in DOMAIN attrs : Site(i)
           situs == situs_of(attrs, exclude, compose)
           full == FirstStreet(attrs, {"full"}, exclude)
           site == FirstStreet(attrs, {"site"}, exclude)
           street == FirstStreet(attrs, {"street"}, exclude)
           parts == _compose_situs(attrs, exclude)
<1>0. situs # Text
  BY DEF Text
<1>1. ASSUME situs = parts, ~sited
      PROVE  \E i \in DOMAIN attrs :
                /\ Kind(attrs[i]) \in {"street"} \cup NumKinds /\ attrs[i].name \notin exclude
                /\ attrs[i].val.house = situs.house
  <2> DEFINE num == FirstField(attrs, NumKinds, exclude)
  <2>1. num # Text /\ parts.house = num.house
    BY <1>0, <1>1 DEF _compose_situs, _isblank
  <2>2. PICK i \in DOMAIN attrs :
               Kind(attrs[i]) \in NumKinds /\ attrs[i].name \notin exclude /\ num = attrs[i].val
    BY <2>1, FieldPicked
  <2> HIDE DEF situs, num, parts
  <2>3. QED
    BY <1>1, <2>1, <2>2
<1>2. CASE compose
  <2>1. situs = parts /\ ~sited
    BY <1>2 DEF situs_of
  <2>2. QED
    BY <1>1, <2>1
<1>3. CASE ~compose
  <2>1. situs = IF full # Text THEN full ELSE IF site # Text THEN site
                ELSE IF street # Text THEN street ELSE parts
    <3>1. situs = FirstText(<<full, site, street, parts>>)
      BY <1>3 DEF situs_of
    <3> HIDE DEF situs, full, site, street, parts
    <3>2. QED
      BY <3>1, TextPicked
  <2>2. ASSUME NEW k \in {"full", "site", "street"}, situs = FirstStreet(attrs, {k}, exclude)
        PROVE  \E i \in DOMAIN attrs :
                  /\ Kind(attrs[i]) = k /\ attrs[i].name \notin exclude
                  /\ _has_street(attrs[i].val) /\ attrs[i].val = situs
    <3> HIDE DEF situs
    <3>1. QED
      BY <1>0, <2>2, StreetPicked
  <2>3. CASE full # Text \/ site # Text
    <3>1. PICK i \in DOMAIN attrs :
                 /\ Kind(attrs[i]) \in {"full", "site"} /\ attrs[i].name \notin exclude
                 /\ _has_street(attrs[i].val) /\ attrs[i].val = situs
      BY <2>1, <2>2, <2>3
    <3>2. sited
      BY <1>3, <3>1
    <3> HIDE DEF situs, sited
    <3>3. QED
      BY <3>1, <3>2 DEF sited, situs
  <2>4. CASE full = Text /\ site = Text
    <3>1. ASSUME NEW i \in DOMAIN attrs, Site(i) PROVE FALSE
      <4>1. CASE Kind(attrs[i]) = "full"
        BY <2>4, <3>1, <4>1, StreetPicked
      <4>2. CASE Kind(attrs[i]) = "site"
        BY <2>4, <3>1, <4>2, StreetPicked
      <4>3. QED
        BY <3>1, <4>1, <4>2
    <3>2. ~sited
      BY <3>1
    <3>3. CASE street # Text
      <4>1. PICK i \in DOMAIN attrs : /\ Kind(attrs[i]) = "street" /\ attrs[i].name \notin exclude
                                      /\ attrs[i].val = situs
        BY <2>1, <2>2, <2>4, <3>3
      <4> HIDE DEF situs, sited
      <4>2. QED
        BY <3>2, <4>1 DEF sited, situs
    <3>4. CASE street = Text
      <4>1. situs = parts
        BY <2>1, <2>4, <3>4
      <4>2. QED
        BY <1>1, <3>2, <4>1
    <3>5. QED
      BY <3>3, <3>4
  <2>5. QED
    BY <2>3, <2>4
<1>4. QED
  BY <1>2, <1>3

-----------------------------------------------------------------------------
(* Records and answers *)

\* The record the run goes on with, joined or not, has positions.
LEMMA JoinedRecord ==
    ASSUME NEW c \in ToSet(Parcel), NEW layer,
           NEW attrs \in JoinedAttrs(layer, c, _out_fields(Attrs[c]))
    PROVE  DOMAIN attrs \subseteq Nat
<1> DEFINE o == _out_fields(Attrs[c])
           row == Related[c]
           n == Len(Attrs[c])
           Of(name, r) == {i \in DOMAIN r : r[i].name = name}
           new == {n + j : j \in {i \in DOMAIN row : Of(row[i].name, o) = {}}}
<1>1. DOMAIN o \subseteq Nat /\ DOMAIN row \subseteq Nat /\ n \in Nat
  BY ContextAssumption DEF IsSeq, _out_fields
<1>2. new \subseteq Nat
  BY <1>1
<1>3. attrs = o \/ attrs = _enrich_one(o, c)
  BY DEF JoinedAttrs
<1>4. _enrich_one(o, c) = o \/ DOMAIN _enrich_one(o, c) = DOMAIN o \cup new
  BY DEF _enrich_one
<1> HIDE DEF o, new
<1>5. QED
  BY <1>1, <1>2, <1>3, <1>4

\* An answer with no more parcels than are kept is not cut.
LEMMA Uncut ==
    ASSUME NEW layer, NEW d, Cardinality(Inside(layer, d)) <= MaxFeats
    PROVE  _point_query(layer, d) = Inside(layer, d)
<1>1. IsFiniteSet(Inside(layer, d)) /\ Inside(layer, d) \subseteq Nat
  <2>1. DOMAIN Parcel = 1..Len(Parcel) /\ Len(Parcel) \in Nat
    BY ContextAssumption DEF IsSeq
  <2>2. IsFiniteSet(1..Len(Parcel))
    BY <2>1, FS_Interval
  <2>3. Inside(layer, d) \subseteq 1..Len(Parcel)
    BY <2>1 DEF Inside
  <2>4. QED
    BY <2>1, <2>2, <2>3, FS_Subset
<1>2. ASSUME NEW i \in Inside(layer, d)
      PROVE  Cardinality({j \in Inside(layer, d) : j < i}) < MaxFeats
  <2> DEFINE below == {j \in Inside(layer, d) : j < i}
  <2>1. below \subseteq Inside(layer, d) /\ below # Inside(layer, d)
    BY <1>1
  <2> HIDE DEF below
  <2>2. /\ Cardinality(below) <= Cardinality(Inside(layer, d))
        /\ Cardinality(below) # Cardinality(Inside(layer, d))
        /\ IsFiniteSet(below)
    BY <1>1, <2>1, FS_Subset
  <2>3. Cardinality(below) \in Nat /\ Cardinality(Inside(layer, d)) \in Nat
    BY <1>1, <2>2, FS_CardinalityType
  <2>4. Cardinality(below) < MaxFeats
    BY <2>2, <2>3, ContextAssumption
  <2>5. QED
    BY <2>4 DEF below
<1>3. QED
  BY <1>2 DEF _point_query

-----------------------------------------------------------------------------
(* The resolution *)

\* The distance of a box.
Dist(b) == IF b = 0 THEN 0 ELSE Boxes[b]

HasMatch(layer, b) == has_match(layer, _point_query(layer, Dist(b)))

\* A geocoder that answered named an address.
GeoInv ==
    pc \in {"located", "layer", "query"} => geo.provider # "parcel-id" /\ geo.matched # Text

\* Nothing is found before it is decided, and no box passed over held a match.
SearchInv ==
    /\ pc \notin {"decide", "done", "failed"} => ~p.found
    /\ pc \notin {"query", "decide", "done", "failed"} => box = 0
    /\ cands \subseteq DOMAIN Parcel
    /\ pc = "query" => /\ box \in 0..3
                       /\ \A b \in 0..3 : b < box => ~HasMatch(Here, b)

\* A parcel that was found was identified by its id; or matched before the join;
\* or no box held a match, and then it is a guess unless the join made it one.
Confirmed ==
    /\ geo.matched.house # NoHouse
    /\ ~p.joined => p.match = "yes"

Guessed ==
    /\ p.match # "yes" => p.buffered
    /\ \A b \in 0..3 : ~HasMatch(p.layer, b)

ByAddress ==
    /\ p.situs = _situs_fn(p.attrs, p.layer)
    /\ p.match = _addr_match(geo.matched, p.situs)
    /\ p.match = "yes" => ~p.buffered
    /\ Confirmed \/ Guessed

ParcelInv ==
    p.found /\ pc \in {"decide", "done"} =>
        /\ DOMAIN p.attrs \subseteq Nat
        /\ IF geo.provider = "parcel-id" THEN \E f \in ToSet(Attrs[p.of]) : Identifies(f)
           ELSE ByAddress

\* What the context says of the parcel it was made from.
ContextInv ==
    pc = "done" => /\ ctx.ok <=> parcel_ok
                   /\ geo.provider # "census" => "geocoder" \in ctx.warnings

ResolveInv == GeoInv /\ SearchInv /\ ParcelInv /\ ContextInv

\* A match depends on the registry, the distances, the address and the fields.
LEMMA SameWorld ==
    ASSUME UNCHANGED <<reg, near, geo, star>>
    PROVE  /\ \A attrs, layer : _situs_fn(attrs, layer)' = _situs_fn(attrs, layer)
           /\ \A layer, b : HasMatch(layer, b)' <=> HasMatch(layer, b)
<1>1. ASSUME NEW attrs, NEW layer PROVE _situs_fn(attrs, layer)' = _situs_fn(attrs, layer)
  BY DEF _situs_fn
<1>2. ASSUME NEW attrs PROVE _out_fields(attrs)' = _out_fields(attrs)
  BY DEF _out_fields
<1>3. ASSUME NEW layer, NEW i PROVE Matches(layer, i)' <=> Matches(layer, i)
  <2>1. Situs(layer, i)' = Situs(layer, i)
    BY <1>1, <1>2 DEF Situs
  <2>2. QED
    BY <2>1 DEF Matches
<1>4. ASSUME NEW layer, NEW d PROVE _point_query(layer, d)' = _point_query(layer, d)
  BY DEF _point_query, Inside
<1>5. ASSUME NEW layer, NEW b PROVE HasMatch(layer, b)' <=> HasMatch(layer, b)
  <2>1. _point_query(layer, Dist(b))' = _point_query(layer, Dist(b))
    BY <1>4
  <2>2. QED
    BY <1>3, <2>1 DEF HasMatch, has_match
<1>6. QED
  BY <1>1, <1>5

LEMMA MatchMeans ==
    ASSUME NEW a, NEW b
    PROVE  /\ _addr_match(a, b) \in {"yes", "no", "unknown"}
           /\ _addr_match(a, b) = "yes" => /\ a.house = b.house
                                           /\ a.house # NoHouse /\ b.house # NoHouse
           /\ _addr_match(a, b) = "unknown" => a.house = NoHouse \/ b.house = NoHouse
  BY DEF _addr_match

\* The parcel chosen is one of the candidates, and one that matches if any does.
LEMMA Chosen ==
    ASSUME NEW layer, NEW feats \in SUBSET DOMAIN Parcel, feats # {}
    PROVE  LET c == _choose(layer, feats) IN
           /\ c \in ToSet(Parcel)
           /\ has_match(layer, feats) =>
                _addr_match(geo.matched, _situs_fn(_out_fields(Attrs[c]), layer)) = "yes"
<1> DEFINE yes   == {i \in feats : Matches(layer, i)}
           house == {i \in feats : /\ geo.matched.house # NoHouse
                                   /\ Situs(layer, i).house = geo.matched.house}
           any   == {i \in feats : ~_isblank(Situs(layer, i))}
           I == IF yes # {} THEN yes ELSE IF house # {} THEN house
                ELSE IF any # {} THEN any ELSE feats
<1>1. _choose(layer, feats) = Parcel[Min(I)]
  BY DEF _choose
<1>2. I \subseteq feats /\ I # {} /\ (yes # {} => I = yes)
  OBVIOUS
<1>3. feats \subseteq Nat
  BY ContextAssumption DEF IsSeq
<1>4. Min(I) \in I
  <2> HIDE DEF I
  <2>1. QED
    BY <1>2, <1>3, MinOf
<1>5. Parcel[Min(I)] \in ToSet(Parcel)
  BY <1>2, <1>4 DEF ToSet
<1>6. ASSUME has_match(layer, feats) PROVE Matches(layer, Min(I))
  <2>1. yes # {}
    BY <1>6 DEF has_match
  <2> HIDE DEF I
  <2>2. QED
    BY <1>2, <1>4, <2>1
<1> HIDE DEF I
<1>7. QED
  BY <1>1, <1>5, <1>6 DEF Matches, Situs

LEMMA Finished ==
    ASSUME NEW layer, NEW c, NEW attrs, NEW buffered \in BOOLEAN, NEW joined
    PROVE  LET r == _finish(layer, c, attrs, buffered, joined) IN
           /\ r.found /\ r.attrs = attrs /\ r.layer = layer /\ r.joined = joined
           /\ r.situs = _situs_fn(attrs, layer)
           /\ r.match = _addr_match(geo.matched, r.situs)
           /\ r.buffered <=> (buffered /\ r.match # "yes")
<1> DEFINE situs == _situs_fn(attrs, layer)
           match == _addr_match(geo.matched, situs)
           wide == buffered /\ match # "yes"
           r == _finish(layer, c, attrs, buffered, joined)
<1>1. r = [found |-> TRUE, of |-> c, attrs |-> attrs, situs |-> situs, layer |-> layer,
           buffered |-> wide, match |-> match, joined |-> joined]
  BY DEF _finish
<1> HIDE DEF situs, match, wide, r
<1>2. /\ r.found /\ r.attrs = attrs /\ r.layer = layer /\ r.joined = joined
      /\ r.situs = situs /\ r.match = match /\ r.buffered = wide
  BY <1>1
<1>3. QED
  BY <1>2 DEF situs, match, wide, r

\* A parcel is taken: one that matches, or after the last box a guess.
LEMMA TakeStep ==
    ASSUME ResolveInv, pc = "query", NEW feats \in SUBSET DOMAIN Parcel, feats # {},
           NEW buffered \in BOOLEAN, Take(Here, feats, buffered),
           has_match(Here, feats) \/ (buffered /\ \A b \in 0..3 : ~HasMatch(Here, b))
    PROVE  ResolveInv'
<1> DEFINE layer == Here
           c == _choose(layer, feats)
           o == _out_fields(Attrs[c])
<1>1. PICK attrs \in JoinedAttrs(layer, c, o) :
             /\ p' = _finish(layer, c, attrs, buffered, attrs # o)
             /\ cands' = feats /\ pc' = "decide"
             /\ UNCHANGED <<srch, reg, near, geo, at, box, star, ctx>>
  BY DEF Take
<1>2. /\ c \in ToSet(Parcel)
      /\ has_match(layer, feats) => _addr_match(geo.matched, _situs_fn(o, layer)) = "yes"
  BY Chosen
<1>3. DOMAIN attrs \subseteq Nat
  BY <1>1, <1>2, JoinedRecord
<1> HIDE DEF layer, c, o
<1>4. /\ p'.found /\ p'.attrs = attrs /\ p'.layer = layer /\ p'.joined = (attrs # o)
      /\ p'.situs = _situs_fn(attrs, layer)
      /\ p'.match = _addr_match(geo.matched, p'.situs)
      /\ p'.buffered <=> (buffered /\ p'.match # "yes")
  BY <1>1, Finished
<1>5. geo.provider # "parcel-id" /\ geo.matched # Text /\ geo' = geo
  BY <1>1 DEF ResolveInv, GeoInv
<1>6. Confirmed' \/ Guessed'
  <2>1. CASE has_match(layer, feats)
    <3>1. geo.matched.house # NoHouse
      BY <1>2, <2>1, MatchMeans
    <3>2. ~p'.joined => p'.match = "yes"
      BY <1>2, <1>4, <2>1
    <3>3. QED
      BY <1>5, <3>1, <3>2 DEF Confirmed
  <2>2. CASE buffered /\ \A b \in 0..3 : ~HasMatch(layer, b)
    <3>1. p'.match # "yes" => p'.buffered
      BY <1>4, <2>2
    <3>2. PICK l : l = layer
      OBVIOUS
    <3>3. \A b \in 0..3 : ~HasMatch(l, b)'
      BY <1>1, <2>2, <3>2, SameWorld
    <3>4. p'.layer = l
      BY <1>4, <3>2
    <3>5. \A b \in 0..3 : ~HasMatch(p.layer, b)'
      BY <3>3, <3>4 DEF HasMatch, has_match, Matches, Situs, _point_query, Inside
    <3>6. QED
      BY <3>1, <3>5 DEF Guessed
  <2>3. QED
    BY <2>1, <2>2 DEF layer
<1>7. ByAddress'
  <2>1. p'.situs = _situs_fn(p.attrs, p.layer)'
    BY <1>1, <1>4 DEF _situs_fn
  <2>2. QED
    BY <1>4, <1>5, <1>6, <2>1 DEF ByAddress
<1>8. ParcelInv'
  BY <1>3, <1>4, <1>5, <1>7 DEF ParcelInv
<1>9. GeoInv' /\ ContextInv'
  BY <1>1 DEF ResolveInv, GeoInv, ContextInv
<1>10. SearchInv'
  BY <1>1 DEF SearchInv
<1>11. QED
  BY <1>8, <1>9, <1>10 DEF ResolveInv

\* A step before any layer is asked.
LEMMA EarlyStep ==
    ASSUME ResolveInv, GeoInv', UNCHANGED <<box, cands, p>>,
           pc \notin {"query", "decide", "done", "failed"}, pc' \notin {"query", "decide", "done"}
    PROVE  ResolveInv'
  BY DEF ResolveInv, SearchInv, ParcelInv, ContextInv

LEMMA RaiseStep == ASSUME ResolveInv, Raise PROVE ResolveInv'
  BY DEF Raise, ResolveInv, GeoInv, SearchInv, ParcelInv, ContextInv

LEMMA FoundStep ==
    ASSUME ResolveInv, pc \in {"census", "arcgis", "nominatim"}, NEW provider, NEW matched,
           provider # "parcel-id", matched # Text,
           Found(provider, matched, "located")
    PROVE  ResolveInv'
<1>1. PICK known \in BOOLEAN : geo' = [provider |-> provider, matched |-> matched, county |-> known]
  BY DEF Found
<1>2. geo'.provider = provider /\ geo'.matched = matched
  BY <1>1
<1>3. pc' = "located" /\ UNCHANGED <<srch, box, cands, p>>
  BY DEF Found
<1>4. GeoInv'
  BY <1>2, <1>3 DEF GeoInv
<1>5. QED
  BY <1>3, <1>4, EarlyStep

LEMMA NextLayerStep ==
    ASSUME ResolveInv, pc \in {"layer", "query"}, NextLayer
    PROVE  ResolveInv'
  BY DEF NextLayer, ResolveInv, GeoInv, SearchInv, ParcelInv, ContextInv

LEMMA ByIdStep ==
    ASSUME ResolveInv, resolve_by_id
    PROVE  ResolveInv'
<1>1. pc = "byid"
  BY DEF resolve_by_id
<1>2. CASE Raise
  BY <1>2, RaiseStep
<1>3. CASE at' = at + 1 /\ UNCHANGED <<pc, srch, reg, near, geo, box, star, cands, p, ctx>>
  <2>1. GeoInv'
    BY <1>3 DEF ResolveInv, GeoInv
  <2>2. QED
    BY <1>1, <1>3, <2>1, EarlyStep
<1>4. ASSUME NEW layer, NEW c \in _query_by_id, NEW situs,
             NEW attrs \in JoinedAttrs(layer, c, _out_fields(Attrs[c])),
             p' = [NoParcel EXCEPT !.found = TRUE, !.of = c, !.attrs = attrs,
                     !.situs = situs, !.layer = layer, !.match = "yes"],
             \E known \in BOOLEAN :
                geo' = [provider |-> "parcel-id", county |-> known,
                        matched |-> IF _isblank(situs) THEN srch.pid ELSE situs],
             pc' = "decide", UNCHANGED <<srch, reg, near, at, box, star, cands, ctx>>
      PROVE  ResolveInv'
  <2>1. c \in ToSet(Parcel) /\ \E f \in ToSet(Attrs[c]) : Identifies(f)
    BY <1>4 DEF _query_by_id
  <2>2. DOMAIN attrs \subseteq Nat
    BY <1>4, <2>1, JoinedRecord
  <2>3. p'.attrs = attrs /\ p'.of = c
    BY <1>4 DEF NoParcel
  <2>4. geo'.provider = "parcel-id"
    BY <1>4
  <2>5. ParcelInv'
    BY <1>4, <2>1, <2>2, <2>3, <2>4 DEF ParcelInv, Identifies
  <2>6. GeoInv' /\ SearchInv' /\ ContextInv'
    BY <1>4, <2>4 DEF ResolveInv, GeoInv, SearchInv, ContextInv
  <2>7. QED
    BY <2>5, <2>6 DEF ResolveInv
<1>5. QED
  BY <1>2, <1>3, <1>4 DEF resolve_by_id

LEMMA CandidatesStep ==
    ASSUME ResolveInv, _candidates
    PROVE  ResolveInv'
<1> DEFINE feats  == _point_query(Here, IF box = 0 THEN 0 ELSE Boxes[box])
           widest == IF feats # {} THEN feats ELSE cands
<1>1. /\ pc = "query" /\ box \in 0..3 /\ geo.matched # Text /\ cands \subseteq DOMAIN Parcel
      /\ \A b \in 0..3 : b < box => ~HasMatch(Here, b)
  BY DEF _candidates, ResolveInv, SearchInv, GeoInv
<1>2. feats \subseteq DOMAIN Parcel /\ widest \subseteq DOMAIN Parcel
  BY <1>1 DEF _point_query, Inside
<1>3. HasMatch(Here, box) <=> has_match(Here, feats)
  BY DEF HasMatch, Dist
<1>4. Enough(feats) <=> has_match(Here, feats)
  BY <1>1 DEF Enough, has_match
<1>5. LastBox <=> box = 3
  BY DEF LastBox, Boxes
<1>6. ASSUME ~Enough(feats) PROVE \A b \in 0..3 : b <= box => ~HasMatch(Here, b)
  BY <1>1, <1>3, <1>4, <1>6
<1>7. CASE Enough(feats) /\ Take(Here, feats, box # 0)
  <2>1. feats # {} /\ (box # 0) \in BOOLEAN
    BY <1>7 DEF Enough
  <2> HIDE DEF feats
  <2>2. QED
    BY <1>1, <1>2, <1>4, <1>7, <2>1, TakeStep
<1>8. CASE ~Enough(feats) /\ LastBox /\ widest # {} /\ Take(Here, widest, TRUE)
  <2>1. \A b \in 0..3 : ~HasMatch(Here, b)
    BY <1>5, <1>6, <1>8
  <2> HIDE DEF feats, widest
  <2>2. QED
    BY <1>1, <1>2, <1>8, <2>1, TakeStep
<1>9. CASE NextLayer
  BY <1>1, <1>9, NextLayerStep
<1>10. CASE /\ ~Enough(feats) /\ ~LastBox /\ box' = box + 1 /\ cands' = widest
            /\ UNCHANGED <<pc, srch, reg, near, geo, at, star, p, ctx>>
  <2>1. PICK l : l = Here
    OBVIOUS
  <2>2. Here' = l
    BY <1>10, <2>1 DEF Here, Services
  <2>3. \A b \in 0..3 : b < box' => ~HasMatch(l, b)'
    BY <1>1, <1>6, <1>10, <2>1, SameWorld
  <2>4. \A b \in 0..3 : b < box' => ~HasMatch(Here, b)'
    BY <2>2, <2>3 DEF HasMatch, has_match, Matches, Situs, _point_query, Inside
  <2>5. box' \in 0..3
    BY <1>1, <1>5, <1>10
  <2>6. cands' \subseteq DOMAIN Parcel
    BY <1>2, <1>10
  <2> HIDE DEF feats, widest
  <2>7. SearchInv'
    BY <1>1, <1>10, <2>4, <2>5, <2>6 DEF ResolveInv, SearchInv
  <2>8. GeoInv' /\ ParcelInv' /\ ContextInv'
    BY <1>1, <1>10 DEF ResolveInv, GeoInv, ParcelInv, ContextInv
  <2>9. QED
    BY <2>7, <2>8 DEF ResolveInv
<1>11. QED
  BY <1>7, <1>8, <1>9, <1>10 DEF _candidates

\* What was decided stays while the context is made.
LEMMA DecidedStays ==
    ASSUME ParcelInv, pc = "decide" \/ pc' = pc, UNCHANGED <<srch, reg, near, geo, star, p>>
    PROVE  ParcelInv'
<1> SUFFICES ASSUME p.found, pc \in {"decide", "done"} PROVE ParcelInv'
  BY DEF ParcelInv
<1>1. DOMAIN p.attrs \subseteq Nat
  BY DEF ParcelInv
<1>2. CASE geo.provider = "parcel-id"
  BY <1>1, <1>2 DEF ParcelInv, Identifies
<1>3. CASE geo.provider # "parcel-id"
  <2>1. ByAddress
    BY <1>3 DEF ParcelInv
  <2>2. PICK l : l = p.layer
    OBVIOUS
  <2>3. (\A b \in 0..3 : ~HasMatch(p.layer, b)) => \A b \in 0..3 : ~HasMatch(l, b)'
    BY <2>2, SameWorld
  <2>4. (\A b \in 0..3 : ~HasMatch(l, b)') => \A b \in 0..3 : ~HasMatch(p.layer, b)'
    BY <2>2 DEF HasMatch, has_match, Matches, Situs, _point_query, Inside
  <2>5. Confirmed' \/ Guessed'
    BY <2>1, <2>3, <2>4 DEF ByAddress, Confirmed, Guessed
  <2>6. p'.situs = _situs_fn(p.attrs, p.layer)'
    BY <2>1 DEF ByAddress, _situs_fn
  <2>7. ByAddress'
    BY <2>1, <2>5, <2>6 DEF ByAddress
  <2>8. QED
    BY <1>1, <1>3, <2>7 DEF ParcelInv
<1>4. QED
  BY <1>2, <1>3

LEMMA ResolveStep == ResolveInv /\ [Next]_vars => ResolveInv'
<1> SUFFICES ASSUME ResolveInv, [Next]_vars PROVE ResolveInv'
  OBVIOUS
<1>1. CASE _census_address
  <2>1. ASSUME srch.addr # Text, NEW a \in Moved \cup {srch.addr}, Found("census", a, "located")
        PROVE  ResolveInv'
    <3>1. a # Text
      BY <2>1, ContextAssumption
    <3>2. QED
      BY <1>1, <2>1, <3>1, FoundStep DEF _census_address
  <2>2. CASE pc' = "arcgis" /\ UNCHANGED <<srch, reg, near, geo, at, box, star, cands, p, ctx>>
    <3>1. GeoInv'
      BY <2>2 DEF ResolveInv, GeoInv
    <3>2. QED
      BY <1>1, <2>2, <3>1, EarlyStep DEF _census_address
  <2>3. QED
    BY <1>1, <2>1, <2>2, RaiseStep DEF _census_address
<1>2. CASE _arcgis
  <2>1. ASSUME srch.addr # Text, NEW a \in Moved \cup {srch.addr}, Found("arcgis", a, "located")
        PROVE  ResolveInv'
    <3>1. a # Text
      BY <2>1, ContextAssumption
    <3>2. QED
      BY <1>2, <2>1, <3>1, FoundStep DEF _arcgis
  <2>2. CASE pc' = "nominatim" /\ UNCHANGED <<srch, reg, near, geo, at, box, star, cands, p, ctx>>
    <3>1. GeoInv'
      BY <2>2 DEF ResolveInv, GeoInv
    <3>2. QED
      BY <1>2, <2>2, <3>1, EarlyStep DEF _arcgis
  <2>3. QED
    BY <1>2, <2>1, <2>2 DEF _arcgis
<1>3. CASE _nominatim
  <2>1. ASSUME NEW a, a # Text, Found("nominatim", a, "located") PROVE ResolveInv'
    BY <1>3, <2>1, FoundStep DEF _nominatim
  <2>2. QED
    BY <1>3, <2>1, RaiseStep DEF _nominatim
<1>4. CASE Coordinates
  <2>1. CASE pc' = "layer" /\ UNCHANGED <<srch, reg, near, geo, at, box, star, cands, p, ctx>>
    <3>1. pc = "located"
      BY <1>4 DEF Coordinates
    <3>2. GeoInv'
      BY <2>1, <3>1 DEF ResolveInv, GeoInv
    <3>3. QED
      BY <2>1, <3>1, <3>2, EarlyStep
  <2>2. QED
    BY <1>4, <2>1, RaiseStep DEF Coordinates
<1>5. CASE resolve_by_id
  BY <1>5, ByIdStep
<1>6. CASE _arcgis_layer_url
  <2>1. CASE pc' = "query" /\ UNCHANGED <<srch, reg, near, geo, at, box, cands, p, ctx>>
    <3>1. pc = "layer"
      BY <1>6 DEF _arcgis_layer_url
    <3>2. box = 0 /\ ~p.found /\ cands \subseteq DOMAIN Parcel
      BY <3>1 DEF ResolveInv, SearchInv
    <3>3. SearchInv'
      BY <2>1, <3>2 DEF SearchInv
    <3>4. GeoInv' /\ ParcelInv' /\ ContextInv'
      BY <2>1, <3>1 DEF ResolveInv, GeoInv, ParcelInv, ContextInv
    <3>5. QED
      BY <3>3, <3>4 DEF ResolveInv
  <2>2. QED
    BY <1>6, <2>1, NextLayerStep DEF _arcgis_layer_url
<1>7. CASE NoLayerLeft
  <2>1. pc = "layer" /\ pc' = "decide" /\ UNCHANGED <<srch, geo, box, cands, p>>
    BY <1>7 DEF NoLayerLeft
  <2>2. QED
    BY <2>1 DEF ResolveInv, GeoInv, SearchInv, ParcelInv, ContextInv
<1>8. CASE _candidates
  BY <1>8, CandidatesStep
<1>9. CASE QueryFails
  BY <1>9, NextLayerStep DEF QueryFails
<1>10. CASE resolve_property_context
  <2>1. pc = "decide" /\ pc' = "done" /\ UNCHANGED <<srch, reg, near, geo, at, box, star, cands, p>>
    BY <1>10 DEF resolve_property_context
  <2>2. ctx'.ok = parcel_ok /\ ctx'.warnings = WarningBag
    BY <1>10 DEF resolve_property_context
  <2>3. ContextInv'
    BY <2>1, <2>2 DEF ContextInv, parcel_ok, WarningBag
  <2>4. ParcelInv'
    BY <2>1, DecidedStays DEF ResolveInv
  <2>5. GeoInv' /\ SearchInv'
    BY <2>1 DEF ResolveInv, GeoInv, SearchInv
  <2>6. QED
    BY <2>3, <2>4, <2>5 DEF ResolveInv
<1>11. CASE Done \/ UNCHANGED vars
  <2>1. UNCHANGED vars
    BY <1>11 DEF Done
  <2>2. ParcelInv'
    BY <2>1, DecidedStays DEF ResolveInv, vars
  <2>3. GeoInv' /\ ContextInv'
    BY <2>1 DEF ResolveInv, GeoInv, ContextInv, parcel_ok, vars
  <2>4. SearchInv'
    <3>1. PICK l : l = Here
      OBVIOUS
    <3>2. Here' = l
      BY <2>1, <3>1 DEF Here, Services, vars
    <3>3. pc = "query" => \A b \in 0..3 : b < box => ~HasMatch(l, b)'
      BY <2>1, <3>1, SameWorld DEF ResolveInv, SearchInv, vars
    <3>4. pc = "query" => \A b \in 0..3 : b < box => ~HasMatch(Here, b)'
      BY <3>2, <3>3 DEF HasMatch, has_match, Matches, Situs, _point_query, Inside
    <3>5. QED
      BY <2>1, <3>4 DEF ResolveInv, SearchInv, vars
  <2>5. QED
    BY <2>2, <2>3, <2>4 DEF ResolveInv
<1>12. QED
  BY <1>1, <1>2, <1>3, <1>4, <1>5, <1>6, <1>7, <1>8, <1>9, <1>10, <1>11 DEF Next

LEMMA ResolveInvHolds == Spec => []ResolveInv
<1>1. Init => ResolveInv
  BY DEF Init, ResolveInv, GeoInv, SearchInv, ParcelInv, ContextInv, NoGeo, NoParcel
<1>2. QED
  BY <1>1, ResolveStep, PTL DEF Spec

-----------------------------------------------------------------------------
(* Theorems *)

\* resolve, resolve_by_id and parcel_ok: a trusted parcel was identified by an id
\* of its own record or by a situs that matches, save for a join that took the
\* house number out of a match.
THEOREM TrustIsEarned == Spec => []TrustedIsMatched
<1>1. ResolveInv => TrustedIsMatched
  <2> SUFFICES ASSUME ResolveInv, pc = "done", ctx.ok PROVE TrustedIsMatched
    BY DEF TrustedIsMatched
  <2>1. p.found /\ p.match # "no" /\ ~p.buffered
    BY DEF ResolveInv, ContextInv, parcel_ok
  <2>2. CASE geo.provider = "parcel-id"
    BY <2>1, <2>2 DEF ResolveInv, ParcelInv, TrustedIsMatched
  <2>3. CASE geo.provider # "parcel-id"
    <3>1. ByAddress
      BY <2>1, <2>3 DEF ResolveInv, ParcelInv
    <3>2. CASE p.match = "yes"
      BY <3>1, <3>2 DEF ByAddress, TrustedIsMatched
    <3>3. CASE p.match # "yes"
      <4>1. Confirmed /\ p.joined
        BY <2>1, <3>1, <3>3 DEF ByAddress, Confirmed, Guessed
      <4>2. _addr_match(geo.matched, p.situs) = "unknown"
        BY <2>1, <3>1, <3>3, MatchMeans DEF ByAddress
      <4>3. p.situs.house = NoHouse
        BY <4>1, <4>2, MatchMeans DEF Confirmed
      <4>4. QED
        BY <4>1, <4>3 DEF TrustedIsMatched
    <3>4. QED
      BY <3>2, <3>3
  <2>4. QED
    BY <2>2, <2>3
<1>2. QED
  BY <1>1, ResolveInvHolds, PTL

\* situs_of and _compose_situs: a trusted parcel whose record holds a site address
\* was matched by it, any other by a plain address or a number, and never by a
\* field the county excludes.
THEOREM HouseIsOfTheProperty == Spec => []HouseIsTheParcels
<1>1. ResolveInv => HouseIsTheParcels
  <2> SUFFICES ASSUME ResolveInv, pc = "done", ctx.ok, geo.provider # "parcel-id", p.match = "yes"
               PROVE  \E f \in ToSet(p.attrs) :
                         /\ Kind(f) \in IF Sited THEN {"full", "site"} ELSE {"street"} \cup NumKinds
                         /\ f.name \notin Excluded
                         /\ f.val.house = geo.matched.house
    BY DEF HouseIsTheParcels
  <2>1. p.found
    BY DEF ResolveInv, ContextInv, parcel_ok
  <2>2. ByAddress /\ DOMAIN p.attrs \subseteq Nat
    BY <2>1 DEF ResolveInv, ParcelInv
  <2>3. p.situs.house = geo.matched.house /\ p.situs.house # NoHouse
    BY <2>2, MatchMeans DEF ByAddress
  <2>4. \A f : f \in ToSet(p.attrs) <=> \E i \in DOMAIN p.attrs : f = p.attrs[i]
    BY DEF ToSet
  <2>5. CASE p.layer \in ToSet(reg.county)
    <3>1. p.situs = situs_of(p.attrs, reg.exclude, reg.compose)
      BY <2>2, <2>5 DEF ByAddress, _situs_fn
    <3>2. Excluded = reg.exclude
      BY <2>5 DEF Excluded
    <3>3. Sited <=> /\ ~reg.compose
                    /\ \E i \in DOMAIN p.attrs : /\ Kind(p.attrs[i]) \in {"full", "site"}
                                                 /\ p.attrs[i].name \notin reg.exclude
                                                 /\ _has_street(p.attrs[i].val)
      BY <2>4, <2>5, <3>2 DEF Sited
    <3>4. QED
      BY <2>2, <2>3, <2>4, <3>1, <3>2, <3>3, SitusHouse
  <2>6. CASE p.layer \notin ToSet(reg.county)
    <3>0. PICK none, off : none = {} /\ off = FALSE
      OBVIOUS
    <3>1. p.situs = situs_of(p.attrs, none, off)
      BY <2>2, <2>6, <3>0 DEF ByAddress, _situs_fn
    <3>2. Excluded = none
      BY <2>6, <3>0 DEF Excluded
    <3>3. Sited <=> /\ ~off
                    /\ \E i \in DOMAIN p.attrs : /\ Kind(p.attrs[i]) \in {"full", "site"}
                                                 /\ p.attrs[i].name \notin none
                                                 /\ _has_street(p.attrs[i].val)
      BY <2>4, <2>6, <3>0, <3>2 DEF Sited
    <3>4. QED
      BY <2>2, <2>3, <2>4, <3>1, <3>2, <3>3, SitusHouse
  <2>7. QED
    BY <2>5, <2>6
<1>2. QED
  BY <1>1, ResolveInvHolds, PTL

\* _candidates and _choose: if any box of the layer that decided holds a match and
\* no more parcels than an answer keeps, the run trusts a parcel that matches.
THEOREM WideningFinds == Spec => []FindsTheSubject
<1>1. ResolveInv => FindsTheSubject
  <2> SUFFICES ASSUME ResolveInv, pc = "done", p.found, geo.provider # "parcel-id", ~p.joined,
                      NEW d \in {0} \cup ToSet(Boxes),
                      Cardinality(Inside(p.layer, d)) <= MaxFeats,
                      has_match(p.layer, Inside(p.layer, d))
               PROVE  ctx.ok /\ p.match = "yes"
    BY DEF FindsTheSubject
  <2>1. \E b \in 0..3 : d = Dist(b)
    BY DEF ToSet, Boxes, Dist
  <2>2. ~Guessed
    BY <2>1, Uncut DEF Guessed, HasMatch
  <2>3. ByAddress
    BY DEF ResolveInv, ParcelInv
  <2>4. p.match = "yes" /\ ~p.buffered
    BY <2>2, <2>3 DEF ByAddress, Confirmed
  <2>5. QED
    BY <2>4 DEF ResolveInv, ContextInv, parcel_ok
<1>2. QED
  BY <1>1, ResolveInvHolds, PTL

\* geocode and the warning of resolve_property_context: a run that trusts a parcel
\* with another situs than the order's address says that a fallback answered,
\* unless it was Census that changed the address.
THEOREM MovesAreFlagged == Spec => []MovedIsFlagged
<1>1. ResolveInv => MovedIsFlagged
  <2> SUFFICES ASSUME ResolveInv, pc = "done", ctx.ok, srch.addr # Text, ~p.joined,
                      _addr_match(srch.addr, p.situs) # "yes"
               PROVE  \/ "geocoder" \in ctx.warnings
                      \/ geo.provider = "census" /\ geo.matched # srch.addr
    BY DEF MovedIsFlagged
  <2>1. CASE geo.provider # "census"
    BY <2>1 DEF ResolveInv, ContextInv
  <2>2. CASE geo.provider = "census" /\ geo.matched = srch.addr
    <3>1. p.found /\ ~p.buffered
      BY DEF ResolveInv, ContextInv, parcel_ok
    <3>2. geo.matched = srch.addr /\ ByAddress
      BY <2>2, <3>1 DEF ResolveInv, ParcelInv
    <3>3. p.match = "yes"
      BY <3>1, <3>2 DEF ByAddress, Confirmed, Guessed
    <3>4. QED
      BY <3>2, <3>3 DEF ByAddress
  <2>3. QED
    BY <2>1, <2>2
<1>2. QED
  BY <1>1, ResolveInvHolds, PTL
=============================================================================
