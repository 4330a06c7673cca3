------------------------- MODULE MCPropertyContext -------------------------
(***************************************************************************)
(* One order, three parcels around the geocoded point and two layers.  The *)
(* subject is 526 Hampton Ave; the second parcel is its neighbour, owned   *)
(* and billed for by the person who lives at the subject, and its GEOID is *)
(* the parcel number of the third.  The third carries the subject's        *)
(* address in a field some counties exclude, and its related row holds a   *)
(* situs without a house number.                                           *)
(***************************************************************************)
EXTENDS PropertyContext

Address(h, w) == [house |-> h, words |-> w]
Field(n, v)   == [name |-> n, val |-> v]
Id(i)         == Address(NoHouse, {i})
Subject       == Address("526", {"HAMPTON", "AVE"})

ParcelSeq == <<"p1", "p2", "p3">>

Kinds == [Deed |-> "deed", SiteAddr |-> "site", Pin |-> "id", Owner |-> "owner",
          MailAddr |-> "mail", BillingNum |-> "billnum", HouseNum |-> "num",
          StreetName |-> "name", GeoId |-> "geoid", LocId |-> "locid",
          Address1 |-> "street", FullAddr |-> "full"]

AttrsOf == [
    p1 |-> <<Field("Deed", Id("B1")), Field("Address1", Address("528", {"HAMPTON"})),
             Field("SiteAddr", Subject), Field("LocId", Id("77")), Field("Pin", Id("11"))>>,
    p2 |-> <<Field("Owner", Subject), Field("MailAddr", Subject),
             Field("HouseNum", Address("528", {})), Field("BillingNum", Address("526", {})),
             Field("StreetName", Address(NoHouse, {"HAMPTON"})), Field("GeoId", Id("13")),
             Field("Pin", Id("12"))>>,
    p3 |-> <<Field("Pin", Id("13")), Field("Address1", Subject), Field("FullAddr", Text),
             Field("HouseNum", Address("526", {})),
             Field("StreetName", Address(NoHouse, {"OAK"}))>>]

RelatedOf == [
    p1 |-> <<Field("SiteAddr", Address("1", {"ELM"})), Field("Owner", Id("X"))>>,
    p2 |-> <<Field("FullAddr", Address("528", {"HAMPTON"}))>>,
    p3 |-> <<Field("FullAddr", Address(NoHouse, {"4B", "HAMPTON"}))>>]

NoLinks == [clerk |-> "none", plat |-> "none", appraiser |-> "none"]

RegSet == {
    [county |-> <<"L1", "L2">>, state |-> <<>>, exclude |-> {}, compose |-> FALSE,
     key |-> "Pin", related |-> {}, links |-> [NoLinks EXCEPT !.clerk = "county"], statelinks |-> NoLinks],
    [county |-> <<"L1">>, state |-> <<"L2">>, exclude |-> {"Address1"}, compose |-> FALSE,
     key |-> "Pin", related |-> {"L1"}, links |-> NoLinks, statelinks |-> [NoLinks EXCEPT !.plat = "state"]],
    [county |-> <<"L1">>, state |-> <<"L2">>, exclude |-> {"Address1"}, compose |-> TRUE,
     key |-> "Pin", related |-> {"L2"}, links |-> NoLinks, statelinks |-> NoLinks]}

SearchSet == {[addr |-> Subject, pid |-> Id("12"), bare |-> Id("12"), fips |-> TRUE],
              [addr |-> Text, pid |-> Id("13"), bare |-> Id("13"), fips |-> TRUE],
              [addr |-> Text, pid |-> Id("1-1"), bare |-> Id("11"), fips |-> FALSE]}

MovedSet == {Address("528", {"HAMPTON", "AVE"}), Address("526", {"OAK", "AVE"})}

=============================================================================
